---------------------- MODULE MachinePalProcessProofs ----------------------
(***************************************************************************)
(* Proofs about MachinePalProcess, and first about the application it      *)
(* runs, MachinePalApp, for any number of `machinepal init` commands, any  *)
(* edits, environments and command lines: the configuration comes last,    *)
(* secrets are never exposed, the server is stopped once and its thread    *)
(* joined in every launch, what was loaded is of its type, the command     *)
(* line decides on the level of the log, and a project that was completed  *)
(* starts as it is.                                                        *)
(***************************************************************************)
EXTENDS MachinePalProcess, SequenceTheorems, TLAPS
-----------------------------------------------------------------------------
(***************************************************************************)
(* The application: what MachinePalApp does in a launch, for any tick of   *)
(* the self test                                                           *)
(***************************************************************************)

\* Who won the exchange of serverStopCalled_ is the only one to call stop, and
\* calls it once.
StopIsClaimed ==
  /\ stops > 0 \/ main = "stopCall" \/ owner = "stopCall" => serverStopCalled
  /\ main = "stopCall" => stops = 0 /\ owner # "stopCall"
  /\ owner = "stopCall" => stops = 0 /\ main # "stopCall"
  /\ stops <= 1

\* The server thread exists from the start of the loop on.
ThreadIsStarted == main = "init" => server = "none"

\* The inductive invariant.
IInv ==
  /\ TypeOK
  /\ StopIsClaimed
  /\ ThreadIsStarted
  /\ ServerThreadIsJoined

\* Types are preserved; the counter stops growing after the self test.
LEMMA TypeStep == IInv /\ [Next]_vars => TypeOK'
<1> USE DEF MainGoes, ServerGoes, SetExited, flags, proxygen
<1> SUFFICES ASSUME IInv, [Next]_vars PROVE TypeOK'
  OBVIOUS
<1> USE DEF IInv, TypeOK, Main, Owner, Server
<1>1. CASE StartServerThread \/ CreateThrows
  BY <1>1 DEF StartServerThread, CreateThrows
<1>2. CASE Poll
  <2>1. counter + 1 \in 0..SelfTestTick + 1
    BY <1>2, TickAssumption DEF Poll
  <2>2. QED
    BY <1>2, <2>1 DEF Poll
<1>3. CASE SelfTest \/ LeaveLoop \/ AfterLoop
  BY <1>3 DEF SelfTest, LeaveLoop, AfterLoop
<1>4. CASE MainStops
  <2>1. main' \in Main /\ serverStopCalled' \in BOOLEAN
    BY <1>4 DEF MainStops, Exchange
  <2>2. UNCHANGED <<owner, counter, sigReceived, flags, proxygen, stops, result>>
    BY <1>4 DEF MainStops
  <2>3. QED
    BY <2>1, <2>2
<1>5. CASE MainCallsStop
  BY <1>5 DEF MainCallsStop, ProxygenStop, StopIsClaimed
<1>6. CASE WaitForExit \/ Join
  BY <1>6 DEF WaitForExit, Join
<1>7. CASE OwnerAsks \/ OwnerStops
  BY <1>7 DEF OwnerAsks, OwnerStops, Exchange
<1>8. CASE OwnerCallsStop
  BY <1>8 DEF OwnerCallsStop, ProxygenStop, StopIsClaimed
<1>9. CASE EnterStart \/ Bind \/ OnSuccess
  <2>1. CASE EnterStart
    BY <2>1 DEF EnterStart
  <2>2. CASE Bind
    <3>1. server' \in Server /\ failed' \in BOOLEAN
      BY <2>2 DEF Bind
    <3>2. UNCHANGED <<main, owner, counter, sigReceived, flags, serverStopCalled, stopped, stops, result>>
      BY <2>2 DEF Bind
    <3>3. QED
      BY <3>1, <3>2
  <2>3. CASE OnSuccess
    BY <2>3 DEF OnSuccess
  <2>4. QED
    BY <1>9, <2>1, <2>2, <2>3
<1>10. CASE LoopEnds \/ OnError \/ StartReturned \/ StartThrew
  BY <1>10 DEF LoopEnds, OnError, StartReturned, StartThrew
<1>11. CASE Signal
  BY <1>11 DEF Signal
<1>12. CASE Terminated \/ Running \/ UNCHANGED vars
  BY <1>12 DEF Terminated, Running, vars
<1>13. QED
  BY <1>1, <1>2, <1>3, <1>4, <1>5, <1>6, <1>7, <1>8, <1>9, <1>10, <1>11, <1>12
  DEF Next, MainThread, OwnerThread, ServerThread

\* One step of the application preserves the inductive invariant.
LEMMA StepKeepsIInv == IInv /\ [Next]_vars => IInv'
<1> USE DEF MainGoes, ServerGoes, SetExited, flags, proxygen
<1> SUFFICES ASSUME IInv, [Next]_vars PROVE IInv'
  OBVIOUS
<1>t. TypeOK'
  BY TypeStep
<1> USE DEF IInv, StopIsClaimed, ThreadIsStarted, ServerThreadIsJoined
<1>1. CASE StartServerThread \/ CreateThrows
  BY <1>1, <1>t DEF StartServerThread, CreateThrows
<1>2. CASE Poll \/ SelfTest \/ LeaveLoop \/ AfterLoop
  BY <1>2, <1>t DEF Poll, SelfTest, LeaveLoop, AfterLoop
<1>3. CASE MainStops
  <2>1. main = "stopping" /\ UNCHANGED <<owner, server, stops>>
    BY <1>3 DEF MainStops
  <2>2. \/ main' = "stopCall" /\ ~serverStopCalled /\ serverStopCalled'
        \/ main' = "waiting" /\ serverStopCalled /\ serverStopCalled'
    BY <1>3 DEF MainStops, Exchange
  <2>3. stops \in {0, 1}
    BY DEF TypeOK
  <2>4. QED
    BY <1>t, <2>1, <2>2, <2>3
<1>4. CASE MainCallsStop
  <2>1. stops = 0 /\ owner # "stopCall" /\ serverStopCalled
    BY <1>4 DEF MainCallsStop
  <2>2. QED
    BY <1>4, <1>t, <2>1 DEF MainCallsStop, ProxygenStop
<1>5. CASE WaitForExit \/ Join
  BY <1>5, <1>t DEF WaitForExit, Join
<1>6. CASE OwnerAsks
  BY <1>6, <1>t DEF OwnerAsks
<1>7. CASE OwnerStops
  <2>1. owner = "stopping" /\ UNCHANGED <<main, server, stops>>
    BY <1>7 DEF OwnerStops
  <2>2. \/ owner' = "stopCall" /\ ~serverStopCalled /\ serverStopCalled'
        \/ owner' = "done" /\ serverStopCalled /\ serverStopCalled'
    BY <1>7 DEF OwnerStops, Exchange
  <2>3. stops \in {0, 1}
    BY DEF TypeOK
  <2>4. QED
    BY <1>t, <2>1, <2>2, <2>3
<1>8. CASE OwnerCallsStop
  <2>1. stops = 0 /\ main # "stopCall" /\ serverStopCalled
    BY <1>8 DEF OwnerCallsStop
  <2>2. QED
    BY <1>8, <1>t, <2>1 DEF OwnerCallsStop, ProxygenStop
<1>9. CASE EnterStart \/ Bind \/ OnSuccess
  BY <1>9, <1>t DEF EnterStart, Bind, OnSuccess
<1>10. CASE LoopEnds \/ OnError \/ StartReturned \/ StartThrew
  BY <1>10, <1>t DEF LoopEnds, OnError, StartReturned, StartThrew
<1>11. CASE Signal
  BY <1>11, <1>t DEF Signal
<1>12. CASE Terminated \/ Running \/ UNCHANGED vars
  BY <1>12, <1>t DEF Terminated, Running, vars
<1>13. QED
  BY <1>1, <1>2, <1>3, <1>4, <1>5, <1>6, <1>7, <1>8, <1>9, <1>10, <1>11, <1>12
  DEF Next, MainThread, OwnerThread, ServerThread

\* A process that was just started.
LEMMA InitIsIInv == Init => IInv
<1> USE DEF MainGoes, ServerGoes, SetExited, flags, proxygen
<1>1. 0 \in 0..SelfTestTick + 1
  BY TickAssumption
<1>2. ASSUME Init PROVE TypeOK
  <2>1. main \in Main /\ owner \in Owner /\ server \in Server
    BY <1>2 DEF Init, Main, Owner, Server
  <2>2. result \in {0, 1, NoResult} /\ stops \in 0..2 /\ counter \in 0..SelfTestTick + 1
    BY <1>1, <1>2 DEF Init
  <2>3. QED
    BY <1>2, <2>1, <2>2 DEF Init, TypeOK
<1>3. ASSUME Init PROVE StopIsClaimed /\ ThreadIsStarted /\ ServerThreadIsJoined
  BY <1>3 DEF Init, StopIsClaimed, ThreadIsStarted, ServerThreadIsJoined
<1>4. QED
  BY <1>2, <1>3 DEF IInv

\* Whatever signals come and whoever asks: types, one call of HTTPServer::stop, and
\* no return with the server thread running.
THEOREM OrderlyEnd == Spec => [](TypeOK /\ StoppedOnce /\ ServerThreadIsJoined)
<1> USE DEF MainGoes, ServerGoes, SetExited, flags, proxygen
<1>1. IInv => TypeOK /\ StoppedOnce /\ ServerThreadIsJoined
  BY DEF IInv, StopIsClaimed, StoppedOnce
<1>2. QED
  BY <1>1, InitIsIInv, StepKeepsIInv, PTL DEF Spec
-----------------------------------------------------------------------------
(***************************************************************************)
(* The project on the disk                                                 *)
(***************************************************************************)

\* Where a file stands in Order, after the four folders.
Place(f) ==
  CASE f = "wallet" -> 5 [] f = "cert" -> 6 [] f = "certKey" -> 7 [] f = "hello" -> 8 [] OTHER -> 9

\* The operations each item goes through.
PhaseFits ==
  \A c \in Command :
    /\ status[c] = "idle" => at[c] = 1 /\ phase[c] = "create"
    /\ at[c] <= 4 => phase[c] \in {"create", "secure"}
    /\ at[c] = 6 => phase[c] # "secure"
    /\ at[c] = 7 => phase[c] # "check"
    /\ at[c] = 8 => phase[c] \in {"create", "write"}

\* No file is created before the folder of the secrets is closed, and while there
\* is a secret, the folder stays closed.
SecretsFolderFirst ==
  /\ \A c \in Command : status[c] = "running" /\ at[c] > 4 => folder["secrets"] = "owner"
  /\ \A f \in G!Secret : content[f] # "absent" => folder["secrets"] = "owner"

OneCommand ==
  ~overlapped => \A c, d \in Command : status[c] = "running" /\ status[d] = "running" => c = d

Complete(f, c) == content[f] = c \/ f \in shortfall

\* A command that is alone has written what is before its place, and nothing after.
Progress ==
  ~overlapped =>
    \A c \in Command, f \in G!File :
      status[c] = "running" =>
        /\ Place(f) < at[c] => Complete(f, c)
        /\ Place(f) > at[c] => content[f] = "absent"
        /\ Place(f) = at[c] =>
             /\ phase[c] \in {"check", "create"} => content[f] = "absent"
             /\ phase[c] = "write" => content[f] = "short"
             /\ phase[c] = "secure" => Complete(f, c)

\* The inductive invariant of the generator.
GeneratorInv ==
  /\ G!TypeOK
  /\ PhaseFits
  /\ SecretsFolderFirst
  /\ OneCommand
  /\ Progress
  /\ ConfigurationComesLast

\* The nine items.
LEMMA Items9 ==
  ASSUME G!TypeOK, NEW c \in Command
  PROVE  /\ at[c] \in 1..9
         /\ at[c] = 1 => G!Item(c) = "certs"
         /\ at[c] = 2 => G!Item(c) = "data"
         /\ at[c] = 3 => G!Item(c) = "resources"
         /\ at[c] = 4 => G!Item(c) = "secrets"
         /\ at[c] = 5 => G!Item(c) = "wallet"
         /\ at[c] = 6 => G!Item(c) = "cert"
         /\ at[c] = 7 => G!Item(c) = "certKey"
         /\ at[c] = 8 => G!Item(c) = "hello"
         /\ at[c] = 9 => G!Item(c) = "config"
  BY DEF G!TypeOK, G!Item, G!Order

\* What a command does to the others: nothing.
OthersStay(c) ==
  \A d \in Command \ {c} : status'[d] = status[d] /\ at'[d] = at[d] /\ phase'[d] = phase[d]

ProgressTypes ==
  /\ status' \in [Command -> {"idle", "running"}]
  /\ at' \in [Command -> 1..9]
  /\ phase' \in [Command -> {"check", "create", "write", "secure"}]

\* Where Proceed leads: to the next operation on the item, to the next item, or,
\* from the configuration, to the end.
NextOperation(c) ==
  /\ status'[c] = status[c] /\ at'[c] = at[c]
  /\ \/ phase[c] = "check" /\ phase'[c] = "create"
     \/ phase[c] = "create" /\ phase'[c] = IF at[c] > 4 THEN "write" ELSE "secure"
     \/ phase[c] = "write" /\ at[c] \in {5, 7, 9} /\ phase'[c] = "secure"

NextItem(c) ==
  /\ status'[c] = status[c] /\ at[c] < 9 /\ at'[c] = at[c] + 1
  /\ \/ phase[c] = "secure"
     \/ phase[c] = "write" /\ at[c] \in {6, 8}
  /\ phase'[c] = IF at'[c] \in {5, 6, 9} THEN "check" ELSE "create"

Over(c) == status'[c] = "idle" /\ at'[c] = 1 /\ phase'[c] = "create"

LEMMA EndIsOver ==
  ASSUME G!TypeOK, NEW c \in Command, G!End(c)
  PROVE  ProgressTypes /\ OthersStay(c) /\ Over(c) /\ overlapped' = overlapped
<1>1. 1 \in 1..9
  OBVIOUS
<1>2. QED
  BY <1>1 DEF G!TypeOK, G!Order, G!End, ProgressTypes, OthersStay, Over

LEMMA FirstPhases ==
  /\ \A i \in {"wallet", "cert", "config"} : G!FirstPhase(i) = "check"
  /\ \A i \in {"data", "resources", "secrets", "certKey", "hello"} : G!FirstPhase(i) = "create"
BY DEF G!FirstPhase, G!MustBeAbsent

LEMMA NextPhases ==
  ASSUME NEW i \in G!Folder \cup G!File
  PROVE  /\ G!NextPhase(i, "check") = "create"
         /\ G!NextPhase(i, "create") = IF i \in G!File THEN "write" ELSE "secure"
         /\ G!NextPhase(i, "write") = IF i \in {"cert", "hello"} THEN "done" ELSE "secure"
         /\ G!NextPhase(i, "secure") = "done"
<1>1. i \in G!Secured \ G!File <=> i \notin G!File
  BY DEF G!Secured
<1>2. i \in G!Secured <=> i \notin {"cert", "hello"}
  BY DEF G!Folder, G!File, G!Secret, G!Secured
<1>3. QED
  BY <1>1, <1>2 DEF G!NextPhase

LEMMA ProceedLeads ==
  ASSUME G!TypeOK, PhaseFits, NEW c \in Command, G!Running(c), G!Proceed(c)
  PROVE  /\ ProgressTypes /\ OthersStay(c) /\ overlapped' = overlapped
         /\ \/ NextOperation(c)
            \/ NextItem(c)
            \/ at[c] = 9 /\ phase[c] = "secure" /\ Over(c)
<1> DEFINE next == G!NextPhase(G!Item(c), phase[c])
<1>0. /\ at[c] \in 1..9 /\ phase[c] \in {"check", "create", "write", "secure"}
      /\ G!Item(c) \in G!Folder \cup G!File
      /\ at[c] > 4 <=> G!Item(c) \in G!File
      /\ at[c] \in {6, 8} <=> G!Item(c) \in {"cert", "hello"}
      /\ at[c] <= 4 => phase[c] \in {"create", "secure"}
  BY Items9 DEF G!TypeOK, G!Folder, G!File, G!Secret, PhaseFits
<1>1. CASE next # "done"
  <2>1. phase' = [phase EXCEPT ![c] = next] /\ UNCHANGED <<status, at, overlapped>>
    BY <1>1 DEF G!Proceed
  <2>2. \/ phase[c] = "check" /\ next = "create"
        \/ phase[c] = "create" /\ next = IF at[c] > 4 THEN "write" ELSE "secure"
        \/ phase[c] = "write" /\ at[c] \in {5, 7, 9} /\ next = "secure"
    BY <1>0, <1>1, NextPhases
  <2>3. QED
    BY <2>1, <2>2 DEF G!TypeOK, G!Order, ProgressTypes, OthersStay, NextOperation
<1>2. CASE next = "done"
  <2>1. \/ phase[c] = "secure"
        \/ phase[c] = "write" /\ at[c] \in {6, 8}
    BY <1>0, <1>2, NextPhases
  <2>2. CASE at[c] = 9
    <3>1. G!End(c)
      BY <1>2, <2>2 DEF G!Proceed, G!Order
    <3>2. QED
      BY <2>1, <2>2, <3>1, EndIsOver
  <2>3. CASE at[c] < 9
    <3>1. /\ at' = [at EXCEPT ![c] = at[c] + 1]
          /\ phase' = [phase EXCEPT ![c] = G!FirstPhase(G!Order[at[c] + 1])]
          /\ UNCHANGED <<status, overlapped>>
      BY <1>2, <2>3 DEF G!Proceed, G!Order
    <3>2. at[c] + 1 \in 2..9
      BY <1>0, <2>3
    <3>3. G!FirstPhase(G!Order[at[c] + 1]) = IF at[c] + 1 \in {5, 6, 9} THEN "check" ELSE "create"
      BY <3>2, FirstPhases DEF G!Order
    <3>4. QED
      BY <2>1, <2>3, <3>1, <3>2, <3>3 DEF G!TypeOK, G!Order, ProgressTypes, OthersStay, NextItem
  <2>4. QED
    BY <1>0, <2>2, <2>3
<1>3. QED
  BY <1>1, <1>2

\* A command that proceeds stays within its operations and stays alone.
LEMMA ProceedKeeps ==
  ASSUME GeneratorInv, NEW c \in Command, G!Running(c), G!Proceed(c)
  PROVE  PhaseFits' /\ OneCommand'
<1>1. /\ ProgressTypes /\ OthersStay(c) /\ overlapped' = overlapped
      /\ \/ NextOperation(c)
         \/ NextItem(c)
         \/ Over(c)
  BY ProceedLeads DEF GeneratorInv
<1>2. at[c] \in 1..9 /\ status[c] = "running"
  BY Items9 DEF GeneratorInv, G!Running
<1>3. PhaseFits'
  <2>1. SUFFICES ASSUME NEW d \in Command
                 PROVE  /\ status'[d] = "idle" => at'[d] = 1 /\ phase'[d] = "create"
                        /\ at'[d] <= 4 => phase'[d] \in {"create", "secure"}
                        /\ at'[d] = 6 => phase'[d] # "secure"
                        /\ at'[d] = 7 => phase'[d] # "check"
                        /\ at'[d] = 8 => phase'[d] \in {"create", "write"}
    BY DEF PhaseFits
  <2>2. CASE d # c
    BY <1>1, <2>2 DEF OthersStay, GeneratorInv, PhaseFits
  <2>3. CASE d = c /\ NextOperation(c)
    BY <1>2, <2>3 DEF NextOperation, GeneratorInv, PhaseFits
  <2>4. CASE d = c /\ NextItem(c)
    BY <1>2, <2>4 DEF NextItem
  <2>5. CASE d = c /\ Over(c)
    BY <2>5 DEF Over
  <2>6. QED
    BY <1>1, <2>2, <2>3, <2>4, <2>5
<1>4. OneCommand'
  <2>1. \A d \in Command : status'[d] = "running" => status[d] = "running"
    BY <1>1, <1>2 DEF OthersStay
  <2>2. QED
    BY <1>1, <2>1 DEF GeneratorInv, OneCommand
<1>5. QED
  BY <1>3, <1>4

\* An operation that writes nothing into a file: the folder of the secrets stays
\* closed, and is closed before the first file is at hand.
LEMMA FolderStepKeeps ==
  ASSUME GeneratorInv, NEW c \in Command, G!Running(c), G!Proceed(c),
         UNCHANGED content,
         folder["secrets"] = "owner" => folder'["secrets"] = "owner",
         at[c] = 4 /\ phase[c] = "secure" => folder'["secrets"] = "owner"
  PROVE  SecretsFolderFirst'
<1>1. /\ OthersStay(c)
      /\ \/ NextOperation(c)
         \/ NextItem(c)
         \/ Over(c)
  BY ProceedLeads DEF GeneratorInv
<1>2. at[c] \in 1..9 /\ status[c] = "running"
  BY Items9 DEF GeneratorInv, G!Running
<1>3. ASSUME NEW d \in Command, status'[d] = "running", at'[d] > 4
      PROVE  folder'["secrets"] = "owner"
  <2>1. CASE d # c
    BY <1>1, <1>3, <2>1 DEF OthersStay, GeneratorInv, SecretsFolderFirst
  <2>2. CASE d = c /\ NextOperation(c)
    BY <1>2, <1>3, <2>2 DEF NextOperation, GeneratorInv, SecretsFolderFirst
  <2>3. CASE d = c /\ NextItem(c)
    BY <1>2, <1>3, <2>3 DEF NextItem, GeneratorInv, SecretsFolderFirst
  <2>4. CASE d = c /\ Over(c)
    BY <1>3, <2>4 DEF Over
  <2>5. QED
    BY <1>1, <2>1, <2>2, <2>3, <2>4
<1>4. \A f \in G!Secret : content'[f] # "absent" => folder'["secrets"] = "owner"
  BY DEF GeneratorInv, SecretsFolderFirst
<1>5. QED
  BY <1>3, <1>4 DEF SecretsFolderFirst

\* An operation on a file leaves the folders as they are.
LEMMA FileStepKeeps ==
  ASSUME GeneratorInv, NEW c \in Command, G!Running(c), G!Item(c) \in G!File, UNCHANGED folder
  PROVE  SecretsFolderFirst'
<1>1. at[c] \in 5..9 /\ status[c] = "running"
  BY Items9 DEF GeneratorInv, G!Running, G!File, G!Secret
<1>2. folder["secrets"] = "owner"
  BY <1>1 DEF GeneratorInv, SecretsFolderFirst
<1>3. QED
  BY <1>2 DEF SecretsFolderFirst

LEMMA ItemAtPlace ==
  ASSUME G!TypeOK, NEW c \in Command, NEW f \in G!File
  PROVE  Place(f) \in 5..9 /\ (Place(f) = at[c] <=> G!Item(c) = f)
BY Items9 DEF G!File, G!Secret, Place

\* What one operation does to the contents: only the file it is at changes.
Operates(c) ==
  /\ shortfall \subseteq shortfall'
  /\ \A f \in G!File :
       IF f # G!Item(c) \/ phase[c] \in {"check", "secure"} THEN content'[f] = content[f]
       ELSE IF phase[c] = "create" THEN content'[f] = "short"
       ELSE \/ content'[f] = IF content[f] = "absent" THEN "absent" ELSE c
            \/ content'[f] = content[f] /\ f \in shortfall'

\* Such an operation keeps the account of what was done.
LEMMA ProgressIsKept ==
  ASSUME GeneratorInv, NEW c \in Command, G!Running(c), G!Proceed(c), Operates(c)
  PROVE  Progress'
<1>1. /\ OthersStay(c) /\ overlapped' = overlapped
      /\ \/ NextOperation(c)
         \/ NextItem(c)
         \/ Over(c)
  BY ProceedLeads DEF GeneratorInv
<1>2. at[c] \in 1..9 /\ status[c] = "running"
  BY Items9 DEF GeneratorInv, G!Running
<1>3. SUFFICES ASSUME ~overlapped, NEW d \in Command, NEW f \in G!File, status'[d] = "running"
               PROVE  /\ Place(f) < at'[d] => Complete(f, d)'
                      /\ Place(f) > at'[d] => content'[f] = "absent"
                      /\ Place(f) = at'[d] =>
                           /\ phase'[d] \in {"check", "create"} => content'[f] = "absent"
                           /\ phase'[d] = "write" => content'[f] = "short"
                           /\ phase'[d] = "secure" => Complete(f, d)'
  BY <1>1 DEF Progress, Complete
<1>4. d = c
  BY <1>1, <1>2, <1>3 DEF OthersStay, GeneratorInv, OneCommand
<1>5. ~Over(c)
  BY <1>3, <1>4 DEF Over
<1>6. Place(f) \in 5..9 /\ (Place(f) = at[c] <=> f = G!Item(c))
  BY ItemAtPlace DEF GeneratorInv
<1>7. /\ Place(f) < at[c] => Complete(f, c)
      /\ Place(f) > at[c] => content[f] = "absent"
      /\ Place(f) = at[c] =>
           /\ phase[c] \in {"check", "create"} => content[f] = "absent"
           /\ phase[c] = "write" => content[f] = "short"
           /\ phase[c] = "secure" => Complete(f, c)
  BY <1>2, <1>3 DEF GeneratorInv, Progress
<1>8. Place(f) # at[c] => content'[f] = content[f] /\ (Complete(f, c) => Complete(f, c)')
  BY <1>6 DEF Operates, Complete
<1>9. CASE NextOperation(c)
  BY <1>2, <1>4, <1>6, <1>7, <1>8, <1>9 DEF NextOperation, Operates, Complete
<1>10. CASE NextItem(c)
  BY <1>2, <1>4, <1>6, <1>7, <1>8, <1>10 DEF NextItem, Operates, Complete
<1>11. QED
  BY <1>1, <1>5, <1>9, <1>10

\* The configuration is written when the others are complete.
LEMMA ConfigurationIsKeptLast ==
  ASSUME GeneratorInv, NEW c \in Command, G!Running(c),
         overlapped' = overlapped, Operates(c)
  PROVE  ConfigurationComesLast'
<1>1. SUFFICES ASSUME ~overlapped, content'["config"] \in Command, NEW f \in G!File
               PROVE  content'[f] = content'["config"] \/ f \in shortfall'
  BY DEF ConfigurationComesLast, G!ConfigurationComesLast
<1>2. at[c] \in 1..9 /\ status[c] = "running" /\ "config" \in G!File /\ Place("config") = 9
  BY Items9 DEF GeneratorInv, G!Running, G!File, Place
<1>3. \A g \in G!File : Place(g) \in 5..9 /\ (Place(g) = at[c] <=> G!Item(c) = g)
  BY ItemAtPlace DEF GeneratorInv
<1>4. \A g \in G!File : Place(g) < at[c] => Complete(g, c)
  BY <1>1, <1>2 DEF GeneratorInv, Progress
<1>5. at[c] = 9
  <2>1. SUFFICES ASSUME at[c] # 9 PROVE FALSE
    OBVIOUS
  <2>2. content["config"] = "absent" /\ G!Item(c) # "config"
    BY <1>1, <1>2, <1>3, <2>1 DEF GeneratorInv, Progress
  <2>3. QED
    BY <1>1, <1>2, <2>2, CommandAssumption DEF Operates
<1>6. G!Item(c) = "config" /\ (f # "config" => Complete(f, c))
  BY <1>2, <1>3, <1>4, <1>5 DEF Place
<1>7. CASE phase[c] \in {"check", "create", "write"}
  <2>1. content["config"] \notin Command
    BY <1>1, <1>2, <1>5, <1>7, CommandAssumption DEF GeneratorInv, Progress
  <2>2. content'["config"] = c
    BY <1>1, <1>2, <1>6, <1>7, <2>1, CommandAssumption DEF Operates
  <2>3. QED
    BY <1>6, <2>2 DEF Complete, Operates
<1>8. CASE phase[c] = "secure"
  <2>1. \A g \in G!File : content'[g] = content[g]
    BY <1>8 DEF Operates
  <2>2. content[f] = content["config"] \/ f \in shortfall
    BY <1>1, <1>2, <2>1 DEF GeneratorInv, ConfigurationComesLast, G!ConfigurationComesLast
  <2>3. QED
    BY <1>2, <2>1, <2>2 DEF Operates
<1>9. QED
  BY <1>7, <1>8 DEF GeneratorInv, G!TypeOK

\* The five operations that proceed.
LEMMA OperationKeepsInv ==
  ASSUME GeneratorInv, NEW c \in Command,
         \/ G!Check(c) \/ G!CreateFolder(c) \/ G!Secure(c) \/ G!CreateFile(c) \/ G!WriteFile(c)
  PROVE  GeneratorInv'
<1>1. G!Running(c) /\ G!Proceed(c)
  BY DEF G!Check, G!CreateFolder, G!Secure, G!CreateFile, G!WriteFile, G!Does
<1>2. ProgressTypes /\ overlapped' = overlapped /\ G!TypeOK
  BY <1>1, ProceedLeads DEF GeneratorInv
<1>3. /\ at[c] \in 1..9
      /\ G!Item(c) \in G!Folder \cup G!File
      /\ at[c] \in 5..9 <=> G!Item(c) \in G!File
      /\ at[c] = 4 <=> G!Item(c) = "secrets"
      /\ G!Item(c) \notin G!Folder \cap G!File
  BY Items9 DEF GeneratorInv, G!Folder, G!File, G!Secret
<1>4. /\ folder' \in [G!Folder -> {"absent", "open", "owner"}]
      /\ content' \in [G!File -> {"absent", "short"} \cup Command]
      /\ mode' \in [G!File -> {"open", "owner"}]
      /\ shortfall' \subseteq G!File
  <2>1. CASE G!Check(c)
    BY <1>2, <2>1 DEF G!Check, G!disk, G!TypeOK
  <2>2. CASE G!CreateFolder(c)
    BY <1>2, <2>2 DEF G!CreateFolder, G!TypeOK
  <2>3. CASE G!Secure(c)
    BY <1>2, <2>3 DEF G!Secure, G!TypeOK
  <2>4. CASE G!CreateFile(c)
    BY <1>2, <2>4 DEF G!CreateFile, G!TypeOK
  <2>5. CASE G!WriteFile(c)
    <3>1. G!Item(c) \in G!File
      BY <1>3, <2>5 DEF G!WriteFile, G!Does, GeneratorInv, PhaseFits
    <3>2. QED
      BY <1>2, <2>5, <3>1 DEF G!WriteFile, G!TypeOK
  <2>6. QED
    BY <2>1, <2>2, <2>3, <2>4, <2>5
<1>5. G!TypeOK'
  BY <1>2, <1>4 DEF ProgressTypes, G!TypeOK, G!Order
<1>6. Operates(c)
  <2>1. CASE G!Check(c) \/ G!CreateFolder(c) \/ G!Secure(c)
    BY <1>3, <2>1 DEF G!Check, G!CreateFolder, G!Secure, G!Does, G!disk, Operates
  <2>2. CASE G!CreateFile(c)
    BY <1>2, <2>2 DEF G!CreateFile, G!Does, G!TypeOK, Operates
  <2>3. CASE G!WriteFile(c)
    BY <1>2, <2>3 DEF G!WriteFile, G!Does, G!TypeOK, Operates
  <2>4. QED
    BY <2>1, <2>2, <2>3
<1>7. SecretsFolderFirst'
  <2>1. CASE G!Check(c)
    BY <1>1, <2>1, FolderStepKeeps DEF G!Check, G!Does, G!disk
  <2>2. CASE G!CreateFolder(c)
    BY <1>1, <1>2, <2>2, FolderStepKeeps DEF G!CreateFolder, G!Does, G!TypeOK, G!Folder
  <2>3. CASE G!Secure(c)
    BY <1>1, <1>2, <1>3, <2>3, FolderStepKeeps DEF G!Secure, G!TypeOK, G!Folder
  <2>4. CASE G!CreateFile(c) \/ G!WriteFile(c)
    <3>1. G!Item(c) \in G!File /\ UNCHANGED folder
      BY <1>3, <2>4 DEF G!CreateFile, G!WriteFile, G!Does, GeneratorInv, PhaseFits
    <3>2. QED
      BY <1>1, <3>1, FileStepKeeps
  <2>5. QED
    BY <2>1, <2>2, <2>3, <2>4
<1>8. QED
  BY <1>1, <1>2, <1>5, <1>6, <1>7, ProceedKeeps, ProgressIsKept, ConfigurationIsKeptLast
  DEF GeneratorInv

LEMMA StartKeepsInv == ASSUME GeneratorInv, NEW c \in Command, G!Start(c) PROVE GeneratorInv'
<1>1. /\ status' = [status EXCEPT ![c] = "running"]
      /\ status[c] = "idle" /\ at[c] = 1 /\ phase[c] = "create"
      /\ UNCHANGED <<at, phase, folder, content, mode, shortfall>>
      /\ \A f \in G!File : content[f] = "absent"
      /\ \A f \in G!File : Place(f) \in 5..9
  BY ItemAtPlace DEF GeneratorInv, G!TypeOK, PhaseFits, G!Start, G!Running, G!EmptyDirectory, G!disk
<1>2. overlapped' = (overlapped \/ \E o \in Command : status[o] = "running")
  BY DEF G!Start, G!Running
<1>3. G!TypeOK'
  BY <1>1, <1>2 DEF GeneratorInv, G!TypeOK
<1>4. PhaseFits' /\ SecretsFolderFirst'
  BY <1>1 DEF GeneratorInv, G!TypeOK, PhaseFits, SecretsFolderFirst
<1>5. OneCommand' /\ Progress'
  <2>1. ASSUME ~overlapped', NEW d \in Command, status'[d] = "running" PROVE d = c
    BY <1>1, <1>2, <2>1 DEF GeneratorInv, G!TypeOK
  <2>2. QED
    BY <1>1, <2>1 DEF OneCommand, Progress
<1>6. ConfigurationComesLast'
  BY <1>1, CommandAssumption DEF ConfigurationComesLast, G!ConfigurationComesLast, G!File
<1>7. QED
  BY <1>3, <1>4, <1>5, <1>6 DEF GeneratorInv

\* A command that ends before it is complete, and what it removes.
LEMMA EndKeepsInv ==
  ASSUME GeneratorInv, NEW c \in Command, G!Running(c), G!End(c),
         UNCHANGED <<folder, mode, shortfall>>,
         content' \in [G!File -> {"absent", "short"} \cup Command],
         \A f \in G!File : content'[f] \in {"absent", content[f]},
         content'["config"] # "absent" =>
           \A f \in G!File : content'[f] = content[f] \/ at[c] < 9
  PROVE  GeneratorInv'
<1>1. ProgressTypes /\ OthersStay(c) /\ Over(c) /\ overlapped' = overlapped
  BY EndIsOver DEF GeneratorInv
<1>2. at[c] \in 1..9 /\ status[c] = "running" /\ "config" \in G!File /\ Place("config") = 9
  BY Items9 DEF GeneratorInv, G!Running, G!File, Place
<1>3. G!TypeOK'
  BY <1>1 DEF GeneratorInv, G!TypeOK, ProgressTypes, G!Order
<1>4. PhaseFits'
  BY <1>1 DEF GeneratorInv, PhaseFits, OthersStay, Over
<1>5. SecretsFolderFirst'
  BY <1>1 DEF GeneratorInv, SecretsFolderFirst, OthersStay, Over, G!File
<1>6. \A d \in Command : status'[d] = "running" => d # c /\ status[d] = "running"
  BY <1>1 DEF OthersStay, Over
<1>7. OneCommand' /\ Progress'
  BY <1>1, <1>2, <1>6 DEF GeneratorInv, OneCommand, Progress
<1>8. ConfigurationComesLast'
  <2>1. SUFFICES ASSUME ~overlapped, content'["config"] \in Command, NEW f \in G!File
                 PROVE  content'[f] = content'["config"] \/ f \in shortfall'
    BY <1>1 DEF ConfigurationComesLast, G!ConfigurationComesLast
  <2>2. content["config"] = content'["config"] /\ content["config"] # "absent"
    BY <1>2, <2>1, CommandAssumption
  <2>3. at[c] = 9
    BY <1>2, <2>1, <2>2 DEF GeneratorInv, Progress
  <2>4. content'[f] = content[f]
    BY <2>2, <2>3
  <2>5. QED
    BY <2>1, <2>2, <2>4 DEF GeneratorInv, ConfigurationComesLast, G!ConfigurationComesLast
<1>9. QED
  BY <1>3, <1>4, <1>5, <1>7, <1>8 DEF GeneratorInv

LEMMA CleanKeepsInv == ASSUME GeneratorInv, G!Clean PROVE GeneratorInv'
<1>1. /\ \A c \in Command : status[c] # "running"
      /\ UNCHANGED <<status, at, phase>>
      /\ folder' = [d \in G!Folder |-> "absent"]
      /\ content' = [f \in G!File |-> "absent"]
      /\ mode' = [f \in G!File |-> "open"]
      /\ shortfall' = {} /\ overlapped' = FALSE
  BY DEF G!Clean, G!Running
<1>2. G!TypeOK'
  BY <1>1 DEF GeneratorInv, G!TypeOK
<1>3. PhaseFits' /\ SecretsFolderFirst' /\ OneCommand' /\ Progress'
  BY <1>1 DEF GeneratorInv, PhaseFits, SecretsFolderFirst, OneCommand, Progress, G!File
<1>4. ConfigurationComesLast'
  BY <1>1, CommandAssumption DEF ConfigurationComesLast, G!ConfigurationComesLast, G!File
<1>5. QED
  BY <1>2, <1>3, <1>4 DEF GeneratorInv

\* Whatever the commands and the operator do, and wherever a command fails or dies.
LEMMA GeneratorStep == GeneratorInv /\ [G!Next]_project => GeneratorInv'
<1> SUFFICES ASSUME GeneratorInv, [G!Next]_project PROVE GeneratorInv'
  OBVIOUS
<1>1. CASE UNCHANGED project
  BY <1>1 DEF project, GeneratorInv, G!TypeOK, PhaseFits, SecretsFolderFirst, OneCommand,
              Progress, Complete, ConfigurationComesLast, G!ConfigurationComesLast
<1>2. CASE G!Clean
  BY <1>2, CleanKeepsInv
<1>3. ASSUME NEW c \in Command, G!Step(c) PROVE GeneratorInv'
  <2>1. CASE G!Start(c)
    BY <2>1, StartKeepsInv
  <2>2. CASE G!Fail(c)
    <3>1. /\ G!Running(c) /\ G!End(c) /\ UNCHANGED <<folder, mode, shortfall>>
          /\ content' = [f \in G!File |-> IF f \in G!CleanUp(G!Item(c), phase[c])
                                          THEN "absent" ELSE content[f]]
      BY <2>2 DEF G!Fail
    <3>2. at[c] \in 1..9 /\ (at[c] = 9 => G!Item(c) = "config")
      BY Items9 DEF GeneratorInv
    <3>3. at[c] = 9 => G!CleanUp(G!Item(c), phase[c]) \subseteq {"config"}
      BY <3>2 DEF G!CleanUp
    <3>4. /\ content' \in [G!File -> {"absent", "short"} \cup Command]
          /\ \A f \in G!File : content'[f] \in {"absent", content[f]}
      BY <3>1 DEF GeneratorInv, G!TypeOK
    <3>5. content'["config"] # "absent" =>
            \A f \in G!File : content'[f] = content[f] \/ at[c] < 9
      BY <3>1, <3>2, <3>3 DEF G!File
    <3>6. QED
      BY <3>1, <3>4, <3>5, EndKeepsInv
  <2>3. CASE G!Crash(c)
    <3>1. G!Running(c) /\ G!End(c) /\ UNCHANGED <<folder, content, mode, shortfall>>
      BY <2>3 DEF G!Crash, G!disk
    <3>2. content' \in [G!File -> {"absent", "short"} \cup Command]
      BY <3>1 DEF GeneratorInv, G!TypeOK
    <3>3. QED
      BY <3>1, <3>2, EndKeepsInv
  <2>4. QED
    BY <1>3, <2>1, <2>2, <2>3, OperationKeepsInv DEF G!Step
<1>4. QED
  BY <1>1, <1>2, <1>3 DEF G!Next

LEMMA InitIsGeneratorInv == G!Init => GeneratorInv
<1> SUFFICES ASSUME G!Init PROVE GeneratorInv
  OBVIOUS
<1>1. 1 \in 1..9
  OBVIOUS
<1>2. G!TypeOK
  BY <1>1 DEF G!Init, G!TypeOK, G!Order
<1>3. PhaseFits /\ SecretsFolderFirst /\ OneCommand /\ Progress
  BY DEF G!Init, PhaseFits, SecretsFolderFirst, OneCommand, Progress, G!File
<1>4. ConfigurationComesLast
  BY CommandAssumption DEF G!Init, ConfigurationComesLast, G!ConfigurationComesLast, G!File
<1>5. QED
  BY <1>2, <1>3, <1>4 DEF GeneratorInv
-----------------------------------------------------------------------------
(***************************************************************************)
(* What the configuration says                                             *)
(***************************************************************************)
\* Strings; the provers do not know the literals as such.
Keys ==
  STRING \cup
    {"server", "http", "https", "hostname", "enable", "port", "cert_file", "key_file", "network", "name",
     "payment_address", "log", "level", "type", "resources", "0", "1", "location", "price", "token",
     "enable_http", "enable_https", "http_listen_port", "https_listen_port", "bind_ip", "tls",
     "key_pass_file", "ca_file", "facilitator", "base_url", "api_key_file"}

LEMMA Singles == ASSUME NEW a \in Keys PROVE <<a>> \in Seq(Keys)
<1>1. <<a>> \in [1..1 -> Keys] /\ 1 \in Nat
  OBVIOUS
<1>2. QED
  BY <1>1, SeqDef, Zenon

LEMMA Pairs == ASSUME NEW a \in Keys, NEW b \in Keys PROVE <<a, b>> \in Seq(Keys)
<1>1. <<a, b>> \in [1..2 -> Keys] /\ 2 \in Nat
  OBVIOUS
<1>2. QED
  BY <1>1, SeqDef, Zenon

LEMMA Triples == ASSUME NEW a \in Keys, NEW b \in Keys, NEW c \in Keys PROVE <<a, b, c>> \in Seq(Keys)
<1>1. <<a, b, c>> \in [1..3 -> Keys]
  OBVIOUS
<1>2. 3 \in Nat
  OBVIOUS
<1>3. QED
  BY <1>1, <1>2, SeqDef, Zenon

LEMMA Prefixes ==
  ASSUME NEW s \in Seq(Keys), NEW t \in Seq(Keys)
  PROVE  Tuples!IsPrefix(s, t) <=> Len(s) <= Len(t) /\ \A i \in 1..Len(s) : s[i] = t[i]
BY DEF Tuples!IsPrefix

\* What it means to begin with log.level, and that this begins with log.
LEMMA LogPrefix ==
  ASSUME NEW q \in Seq(Keys), Tuples!IsPrefix(<<"log", "level">>, q)
  PROVE  Len(q) >= 2 /\ q[1] = "log" /\ q[2] = "level" /\ Tuples!IsPrefix(<<"log">>, q)
<1>1. <<"log", "level">> \in Seq(Keys) /\ <<"log">> \in Seq(Keys)
  <2>1. "log" \in Keys /\ "level" \in Keys
    BY DEF Keys
  <2>2. QED
    BY <2>1, Singles, Pairs, Zenon
<1>2. Len(<<"log", "level">>) = 2 /\ Len(<<"log">>) = 1
  OBVIOUS
<1>3. 2 <= Len(q) /\ \A i \in 1..2 : <<"log", "level">>[i] = q[i]
  BY <1>1, <1>2, Prefixes
<1>4. Len(q) >= 2 /\ q[1] = "log" /\ q[2] = "level"
  BY <1>3
<1>5. \A i \in 1..1 : <<"log">>[i] = q[i]
  BY <1>4
<1>6. QED
  BY <1>1, <1>2, <1>4, <1>5, Prefixes

LEMMA LevelIsBelowLog ==
  ASSUME NEW j, DOMAIN j \subseteq Seq(Keys), Contains(j, <<"log", "level">>)
  PROVE  Contains(j, <<"log">>)
BY LogPrefix DEF Contains

\* Where the overrides write.
LEMMA OverrideTargets ==
  ASSUME NEW o \in OverrideTable
  PROVE  \/ o.path \in {<<"server", "enable_http">>, <<"server", "enable_https">>,
                        <<"server", "http_listen_port">>, <<"server", "https_listen_port">>,
                        <<"server", "bind_ip">>, <<"server", "hostname">>}
         \/ o.path \in {<<"server", "tls", "cert_file">>, <<"server", "tls", "key_file">>,
                        <<"server", "tls", "key_pass_file">>, <<"server", "tls", "ca_file">>}
         \/ o.path \in {<<"facilitator", "type">>, <<"facilitator", "base_url">>,
                        <<"facilitator", "api_key_file">>}
         \/ o.path = <<"log", "level">> /\ o.key = "LOG_LEVEL"
         \/ o.path = <<"log", "type">> /\ o.key = "LOG_TYPE"
BY DEF OverrideTable, Override

LEMMA OverridePaths ==
  ASSUME NEW o \in OverrideTable
  PROVE  /\ o.path \in Seq(Keys)
         /\ o.path[1] # "log" \/ o.path \in {<<"log", "level">>, <<"log", "type">>}
         /\ Len(o.path) >= 2
<1>1. CASE o.path \in {<<"server", "enable_http">>, <<"server", "enable_https">>,
                       <<"server", "http_listen_port">>, <<"server", "https_listen_port">>,
                       <<"server", "bind_ip">>, <<"server", "hostname">>}
  <2>1. PICK a \in {"enable_http", "enable_https", "http_listen_port", "https_listen_port",
                    "bind_ip", "hostname"} : o.path = <<"server", a>>
    BY <1>1
  <2>2. "server" \in Keys /\ a \in Keys
    BY DEF Keys
  <2>3. QED
    BY <2>1, <2>2, Pairs
<1>2. CASE o.path \in {<<"server", "tls", "cert_file">>, <<"server", "tls", "key_file">>,
                       <<"server", "tls", "key_pass_file">>, <<"server", "tls", "ca_file">>}
  <2>1. PICK a \in {"cert_file", "key_file", "key_pass_file", "ca_file"} : o.path = <<"server", "tls", a>>
    BY <1>2
  <2>2. "server" \in Keys /\ "tls" \in Keys /\ a \in Keys
    BY DEF Keys
  <2>3. QED
    BY <2>1, <2>2, Triples
<1>3. CASE o.path \in {<<"facilitator", "type">>, <<"facilitator", "base_url">>,
                       <<"facilitator", "api_key_file">>}
  <2>1. PICK a \in {"type", "base_url", "api_key_file"} : o.path = <<"facilitator", a>>
    BY <1>3
  <2>2. "facilitator" \in Keys /\ a \in Keys
    BY DEF Keys
  <2>3. QED
    BY <2>1, <2>2, Pairs
<1>4. CASE o.path \in {<<"log", "level">>, <<"log", "type">>}
  <2>1. PICK a \in {"level", "type"} : o.path = <<"log", a>>
    BY <1>4
  <2>2. "log" \in Keys /\ a \in Keys
    BY DEF Keys
  <2>3. QED
    BY <1>4, <2>1, <2>2, Pairs
<1>5. QED
  BY <1>1, <1>2, <1>3, <1>4, OverrideTargets

LEMMA OverriddenPaths ==
  ASSUME NEW j, NEW overrides, DOMAIN j \subseteq Seq(Keys)
  PROVE  DOMAIN applyEnvOverrides(j, overrides) \subseteq Seq(Keys)
BY OverridePaths DEF applyEnvOverrides, Given

LEMMA TemplatePaths == DOMAIN kYamlTemplate \subseteq Seq(Keys)
<1>1. SUFFICES ASSUME NEW p \in DOMAIN kYamlTemplate PROVE p \in Seq(Keys)
  OBVIOUS
<1>2. \/ p \in {<<"server", "hostname">>, <<"network", "name">>, <<"network", "payment_address">>,
                <<"log", "level">>}
      \/ p \in {<<"server", "http", "enable">>, <<"server", "http", "port">>,
                <<"server", "https", "enable">>, <<"server", "https", "port">>,
                <<"server", "https", "cert_file">>, <<"server", "https", "key_file">>}
      \/ p \in {<<"resources", "0", "name">>, <<"resources", "0", "type">>,
                <<"resources", "0", "location">>, <<"resources", "0", "price">>,
                <<"resources", "0", "token">>}
      \/ p \in {<<"resources", "1", "name">>, <<"resources", "1", "type">>,
                <<"resources", "1", "location">>, <<"resources", "1", "price">>,
                <<"resources", "1", "token">>}
  BY DEF kYamlTemplate, TemplateEntries, Resource
<1>3. {"server", "http", "https", "hostname", "enable", "port", "cert_file", "key_file", "network",
       "name", "payment_address", "log", "level", "resources", "0", "1", "type", "location", "price",
       "token"} \subseteq Keys
  BY DEF Keys
<1>4. CASE p \in {<<"server", "hostname">>, <<"network", "name">>, <<"network", "payment_address">>,
                  <<"log", "level">>}
  <2>1. \E a, b \in Keys : p = <<a, b>>
    BY <1>3, <1>4
  <2>2. QED
    BY <2>1, Pairs
<1>5. CASE \E a, b, c \in Keys : p = <<a, b, c>>
  BY <1>5, Triples
<1>6. CASE p \in {<<"server", "http", "enable">>, <<"server", "http", "port">>,
                  <<"server", "https", "enable">>, <<"server", "https", "port">>,
                  <<"server", "https", "cert_file">>, <<"server", "https", "key_file">>}
  BY <1>3, <1>5, <1>6
<1>7. CASE p \in {<<"resources", "0", "name">>, <<"resources", "0", "type">>,
                  <<"resources", "0", "location">>, <<"resources", "0", "price">>,
                  <<"resources", "0", "token">>}
  BY <1>3, <1>5, <1>7
<1>8. CASE p \in {<<"resources", "1", "name">>, <<"resources", "1", "type">>,
                  <<"resources", "1", "location">>, <<"resources", "1", "price">>,
                  <<"resources", "1", "token">>}
  BY <1>3, <1>5, <1>8
<1>9. QED
  BY <1>2, <1>4, <1>6, <1>7, <1>8

\* The ports and the level of a configuration that was accepted.
LEMMA PortInForce ==
  ASSUME NEW j, NEW protocol, Enabled(j, Section(protocol)) => PortIsValid(j, Section(protocol))
  PROVE  ListenPort(j, protocol) \in Port \cup {NoPort}
<1>1. Enabled(j, Section(protocol)) => PortAt(j, Section(protocol)) \in Port
  BY Zenon DEF PortIsValid
<1>2. QED
  BY <1>1 DEF ListenPort

LEMMA PortsInForce ==
  ASSUME NEW j, NEW files, HTTPConfigIsValid(j), HTTPSConfigIsValid(j, files)
  PROVE  ListenPort(j, "http") \in Port \cup {NoPort} /\ ListenPort(j, "https") \in Port \cup {NoPort}
<1>1. \A p : Enabled(j, p) => Contains(j, p)
  BY Zenon DEF Enabled
<1>2. Enabled(j, Section("http")) => PortIsValid(j, Section("http"))
  BY <1>1, Zenon DEF HTTPConfigIsValid
<1>3. Enabled(j, Section("https")) => PortIsValid(j, Section("https"))
  BY <1>1, Zenon DEF HTTPSConfigIsValid
<1>4. QED
  BY <1>2, <1>3, PortInForce

LEMMA LevelIsKnown ==
  ASSUME NEW j, DOMAIN j \subseteq Seq(Keys), LogConfigIsValid(j)
  PROVE  SpdlogLevel(TextAt(j, <<"log", "level">>, "info"))
           \in (LogLevels \ {"error", "fatal"}) \cup {"err", "critical"}
<1> DEFINE level == TextAt(j, <<"log", "level">>, "info")
<1>1. level \in LogLevels
  <2>1. CASE Contains(j, <<"log">>)
    BY <2>1 DEF LogConfigIsValid, LogLevels
  <2>2. CASE ~Contains(j, <<"log">>)
    BY <2>2, LevelIsBelowLog DEF TextAt, LogLevels
  <2>3. QED
    BY <2>1, <2>2
<1> HIDE DEF level
<1>2. SpdlogLevel(level) \in (LogLevels \ {"error", "fatal"}) \cup {"err", "critical"}
  BY <1>1 DEF SpdlogLevel, LogLevels
<1>3. QED
  BY <1>2 DEF level

\* What the process uses of a configuration that loads: each port is one, or stands
\* for none, and the level is one that spdlog has.
LEMMA LoadedTypes ==
  ASSUME NEW found, NEW overrides, NEW files, DOMAIN found \subseteq Seq(Keys),
         Loads(found, overrides, files)
  PROVE  /\ Loaded(found, overrides).http \in Port \cup {NoPort}
         /\ Loaded(found, overrides).https \in Port \cup {NoPort}
         /\ Loaded(found, overrides).logging.level \in (LogLevels \ {"error", "fatal"}) \cup {"err", "critical"}
<1> DEFINE j == applyEnvOverrides(yamlToJson(found), overrides)
<1>1. DOMAIN j \subseteq Seq(Keys)
  BY OverriddenPaths DEF yamlToJson
<1>2. createFromJson(j, files)
  BY DEF Loads
<1> HIDE DEF j
<1>3. HTTPConfigIsValid(j) /\ HTTPSConfigIsValid(j, files) /\ LogConfigIsValid(j)
  BY <1>2 DEF createFromJson, ServerConfigIsValid
<1>4. /\ Loaded(found, overrides).http = ListenPort(j, "http")
      /\ Loaded(found, overrides).https = ListenPort(j, "https")
      /\ Loaded(found, overrides).logging.level = SpdlogLevel(TextAt(j, <<"log", "level">>, "info"))
  BY DEF Loaded, configureLogging, j
<1>5. QED
  BY <1>1, <1>3, <1>4, PortsInForce, LevelIsKnown

\* What is written below log.level is left alone by every other override.
LEMMA OthersLeaveTheLevel ==
  ASSUME NEW o \in OverrideTable, o.key # "LOG_LEVEL", NEW q \in Seq(Keys),
         Tuples!IsPrefix(<<"log", "level">>, q)
  PROVE  ~Tuples!IsPrefix(o.path, q) /\ ~Tuples!IsPrefix(q, o.path)
<1>1. Len(q) >= 2 /\ q[1] = "log" /\ q[2] = "level" /\ o.path \in Seq(Keys)
  BY LogPrefix, OverridePaths
<1>2. \/ o.path[1] # "log"
      \/ o.path[2] # "level"
  BY OverrideTargets, OverridePaths
<1>3. Len(o.path) >= 2
  BY OverridePaths
<1>4. ASSUME Tuples!IsPrefix(o.path, q) PROVE FALSE
  <2>1. o.path[1] = q[1] /\ o.path[2] = q[2]
    BY <1>1, <1>3, <1>4, Prefixes
  <2>2. QED
    BY <1>1, <1>2, <2>1
<1>5. ASSUME Tuples!IsPrefix(q, o.path) PROVE FALSE
  <2>1. o.path[1] = q[1] /\ o.path[2] = q[2]
    BY <1>1, <1>3, <1>5, Prefixes
  <2>2. QED
    BY <1>1, <1>2, <2>1
<1>6. QED
  BY <1>4, <1>5

\* Without an override of the level, what the file says of it is what is read.
LEMMA LevelOfTheFile ==
  ASSUME NEW j, NEW overrides, DOMAIN j \subseteq Seq(Keys), "LOG_LEVEL" \notin DOMAIN overrides,
         LogConfigIsValid(applyEnvOverrides(j, overrides))
  PROVE  TextAt(applyEnvOverrides(j, overrides), <<"log", "level">>, "info")
           = TextAt(j, <<"log", "level">>, "info")
<1> DEFINE p == <<"log", "level">>
           paths == {o.path : o \in Given(overrides)}
           kept == {q \in DOMAIN j : \A r \in paths : ~Tuples!IsPrefix(q, r) /\ ~Tuples!IsPrefix(r, q)}
           new == applyEnvOverrides(j, overrides)
<1>1. /\ DOMAIN new = kept \cup paths
      /\ \A q \in kept \ paths : new[q] = j[q]
  BY DEF applyEnvOverrides
<1>2. \A o \in Given(overrides) : o \in OverrideTable /\ o.key # "LOG_LEVEL"
  BY DEF Given
<1>3. ASSUME NEW q \in Seq(Keys), Tuples!IsPrefix(p, q) PROVE q \notin paths /\ (q \in DOMAIN j => q \in kept)
  <2>1. \A r \in paths : ~Tuples!IsPrefix(q, r) /\ ~Tuples!IsPrefix(r, q)
    BY <1>2, <1>3, OthersLeaveTheLevel
  <2>2. Tuples!IsPrefix(q, q)
    BY DEF Tuples!IsPrefix
  <2>3. QED
    BY <2>1, <2>2
<1>4. DOMAIN new \subseteq Seq(Keys)
  BY OverriddenPaths
<1>5. Contains(new, p) <=> Contains(j, p)
  BY <1>1, <1>3, <1>4 DEF Contains
<1>6. p \in Seq(Keys) /\ Tuples!IsPrefix(p, p)
  <2>1. "log" \in Keys /\ "level" \in Keys
    BY DEF Keys
  <2>2. p \in Seq(Keys)
    BY <2>1, Pairs, Zenon
  <2>3. QED
    BY <2>2 DEF Tuples!IsPrefix
<1> HIDE DEF p, paths, kept, new
<1>7. CASE Contains(new, p)
  <2>1. Contains(new, <<"log">>)
    BY <1>4, <1>7, LevelIsBelowLog DEF p
  <2>2. TypeAt(new, p) = "string"
    BY <1>7, <2>1, Zenon DEF LogConfigIsValid, MayContain, p, new
  <2>3. p \in DOMAIN new
    BY <2>2 DEF TypeAt
  <2>4. new[p] = j[p]
    BY <1>1, <1>3, <1>6, <2>3
  <2>5. QED
    BY <1>5, <1>7, <2>4, Zenon DEF TextAt, p, new
<1>8. CASE ~Contains(new, p)
  BY <1>5, <1>8, Zenon DEF TextAt, p, new
<1>9. QED
  BY <1>7, <1>8

LEMMA LevelOfTheOverride ==
  ASSUME NEW j, NEW overrides, "LOG_LEVEL" \in DOMAIN overrides
  PROVE  TextAt(applyEnvOverrides(j, overrides), <<"log", "level">>, "info") = overrides["LOG_LEVEL"].text
<1> DEFINE p == <<"log", "level">>
           paths == {o.path : o \in Given(overrides)}
           Written(q) == CHOOSE o \in Given(overrides) : o.path = q
           new == applyEnvOverrides(j, overrides)
<1>1. /\ paths \subseteq DOMAIN new
      /\ \A q \in paths : new[q] = Json(Written(q).type, overrides[Written(q).key])
  BY DEF applyEnvOverrides
<1>2. \E o \in Given(overrides) : o.path = p
  <2> DEFINE o == Override("LOG_LEVEL", p, "string")
  <2>1. o \in OverrideTable
    BY DEF OverrideTable
  <2>2. o.key = "LOG_LEVEL" /\ o.path = p
    BY DEF Override
  <2>3. QED
    BY <2>1, <2>2 DEF Given
<1>3. Written(p) \in Given(overrides) /\ Written(p).path = p
  BY <1>2
<1>4. \A o \in OverrideTable : o.path = p => o.key = "LOG_LEVEL"
  BY OverrideTargets
<1>5. Written(p).key = "LOG_LEVEL"
  BY <1>3, <1>4 DEF Given
<1>6. p \in Seq(Keys) /\ Tuples!IsPrefix(p, p)
  <2>1. "log" \in Keys /\ "level" \in Keys
    BY DEF Keys
  <2>2. p \in Seq(Keys)
    BY <2>1, Pairs, Zenon
  <2>3. QED
    BY <2>2 DEF Tuples!IsPrefix
<1>7. p \in DOMAIN new /\ new[p] = Json(Written(p).type, overrides["LOG_LEVEL"])
  BY <1>1, <1>2, <1>5
<1> HIDE DEF p, paths, Written, new
<1>8. new[p].text = overrides["LOG_LEVEL"].text
  BY <1>7 DEF Json
<1>9. Contains(new, p)
  BY <1>6, <1>7 DEF Contains
<1>10. QED
  BY <1>8, <1>9, Zenon DEF TextAt, p, new

\* The level in force after the configuration was loaded.
LEMMA LevelInForce ==
  ASSUME NEW found, NEW overrides, NEW files, DOMAIN found \subseteq Seq(Keys),
         Loads(found, overrides, files)
  PROVE  Loaded(found, overrides).logging.level =
           SpdlogLevel(IF "LOG_LEVEL" \in DOMAIN overrides
                       THEN overrides["LOG_LEVEL"].text
                       ELSE TextAt(yamlToJson(found), <<"log", "level">>, "info"))
<1> DEFINE j == yamlToJson(found)
           new == applyEnvOverrides(j, overrides)
<1>1. LogConfigIsValid(new) /\ DOMAIN j \subseteq Seq(Keys)
  BY DEF Loads, createFromJson, yamlToJson
<1>2. Loaded(found, overrides).logging.level = SpdlogLevel(TextAt(new, <<"log", "level">>, "info"))
  BY DEF Loaded, configureLogging
<1> HIDE DEF j
<1>3. QED
  BY <1>1, <1>2, LevelOfTheFile, LevelOfTheOverride DEF j
-----------------------------------------------------------------------------
(***************************************************************************)
(* The process                                                             *)
(***************************************************************************)
USE DEF Start

\* Every step of the process is one of the application, or leaves it alone, or ends
\* it, with all it had in memory.
LEMMA ApplicationStep == IInv /\ [ProcessNext]_processVars => IInv'
<1> SUFFICES ASSUME IInv, [ProcessNext]_processVars PROVE IInv'
  OBVIOUS
<1>1. CASE Initialize \/ Edit \/ Launch \/ Start \/ UNCHANGED processVars
  <2>1. UNCHANGED vars
    BY <1>1 DEF Initialize, Edit, Launch, ParseOverloads, FetchInternetTime, CheckSystemTime,
                LoadConfiguration, OpenDatabase, processVars
  <2>2. QED
    BY <2>1, StepKeepsIInv
<1>2. CASE \/ Runs(MainThread)
           \/ Runs(OwnerAsks)
           \/ Runs(OwnerThread)
           \/ Runs(ServerThread)
           \/ Runs(Signal)
  <2>1. Next
    BY <1>2 DEF Runs, Next
  <2>2. QED
    BY <2>1, StepKeepsIInv
<1>3. CASE MainReturns
  <2>1. Init'
    BY <1>3 DEF MainReturns, Init
  <2>2. Init' => IInv'
    BY InitIsIInv, PTL
  <2>3. QED
    BY <2>1, <2>2
<1>4. QED
  BY <1>1, <1>2, <1>3 DEF ProcessNext

\* Nothing but the generator writes into the project.
LEMMA ProjectStep == GeneratorInv /\ [ProcessNext]_processVars => GeneratorInv'
<1> SUFFICES ASSUME GeneratorInv, [ProcessNext]_processVars PROVE GeneratorInv'
  OBVIOUS
<1>1. [G!Next]_project
  BY DEF ProcessNext, Initialize, Edit, Launch, ParseOverloads, FetchInternetTime, CheckSystemTime,
         LoadConfiguration, OpenDatabase, Runs, MainReturns, processVars
<1>2. QED
  BY <1>1, GeneratorStep

\* What is outside of the application and of the project.
LaunchTypeOK ==
  /\ process \in {"down", "parsing", "fetching", "checking", "loading", "opening", "running", "exited"}
  /\ given.environment \in Environment \cup {Nothing}
  /\ given.commandLine \in CommandLine \cup {Nothing}
  /\ document \in DOMAIN Edited \cup {"generated"}
  /\ settings.http \in Port \cup {NoPort} /\ settings.https \in Port \cup {NoPort}
  /\ settings.logging.level \in (LogLevels \ {"error", "fatal"}) \cup {"err", "critical"}
  /\ flawless \in BOOLEAN /\ code \in {0, 1, NoResult}

LEMMA NoSettingsTypes ==
  /\ NoSettings.http = NoPort /\ NoSettings.https = NoPort
  /\ NoSettings.logging.level \in (LogLevels \ {"error", "fatal"}) \cup {"err", "critical"}
BY DEF NoSettings, configureLogging, SpdlogLevel, LogLevels

\* The paths of what LoadConfiguration may find.
LEMMA FoundPaths ==
  ASSUME LaunchTypeOK, NEW found \in Cut \cup {Document}
  PROVE  DOMAIN found \subseteq Seq(Keys)
<1>1. Seq(STRING) \subseteq Seq(Keys)
  <2>1. STRING \subseteq Keys
    BY DEF Keys
  <2>2. QED
    BY <2>1, SeqMonotonic, Zenon
<1>2. CASE found = kYamlTemplate
  BY <1>2, TemplatePaths
<1>3. CASE found # kYamlTemplate
  <2>1. found \in {Edited[n] : n \in DOMAIN Edited} \cup Cut
    BY <1>3 DEF Document, LaunchTypeOK
  <2>2. QED
    BY <1>1, <2>1, DocumentAssumption
<1>4. QED
  BY <1>2, <1>3

LEMMA LoadedSettings ==
  ASSUME LaunchTypeOK, LoadConfiguration, process' = "opening"
  PROVE  \E found \in IF content["config"] = "short" THEN Cut ELSE {Document} :
           LET overrides == Overloads(given.environment, given.commandLine)
           IN Loads(found, overrides, Files) /\ settings' = Loaded(found, overrides)
BY DEF LoadConfiguration, Exit

LEMMA LaunchTypeStep == LaunchTypeOK /\ [ProcessNext]_processVars => LaunchTypeOK'
<1> SUFFICES ASSUME LaunchTypeOK, [ProcessNext]_processVars PROVE LaunchTypeOK'
  OBVIOUS
<1>1. CASE Initialize \/ Edit \/ UNCHANGED processVars
  <2>1. document' \in DOMAIN Edited \cup {"generated"}
    BY <1>1 DEF Initialize, Edit, LaunchTypeOK, processVars
  <2>2. UNCHANGED <<given, settings>>
    BY <1>1 DEF Initialize, Edit, processVars, launch
  <2>3. \/ process' = "down" /\ flawless' = FALSE /\ code' = NoResult
        \/ UNCHANGED <<process, flawless, code>>
    BY <1>1 DEF Initialize, Edit, processVars, launch
  <2>4. QED
    BY <2>1, <2>2, <2>3 DEF LaunchTypeOK
<1>2. CASE Launch
  BY <1>2 DEF Launch, LaunchTypeOK
<1>3. CASE ParseOverloads \/ FetchInternetTime \/ CheckSystemTime
  <2>1. flawless' \in BOOLEAN
    BY <1>3 DEF ParseOverloads, FetchInternetTime, CheckSystemTime, LaunchTypeOK
  <2>2. UNCHANGED <<document, settings>>
    BY <1>3 DEF ParseOverloads, FetchInternetTime, CheckSystemTime
  <2>3. /\ process' \in {"fetching", "checking", "loading", "exited"} /\ code' \in {1, code}
        /\ given' \in {given, [environment |-> Nothing, commandLine |-> Nothing]}
    BY <1>3 DEF ParseOverloads, FetchInternetTime, CheckSystemTime, Exit
  <2>4. QED
    BY <2>1, <2>2, <2>3 DEF LaunchTypeOK
<1>4. CASE LoadConfiguration
  <2>1. /\ document' = "generated" /\ flawless' \in BOOLEAN
        /\ given' = [environment |-> Nothing, commandLine |-> Nothing]
        /\ \/ process' = "opening" /\ code' = code
           \/ process' = "exited" /\ code' = 1 /\ settings' = settings
    BY <1>4 DEF LoadConfiguration, Exit, LaunchTypeOK
  <2>2. /\ settings'.http \in Port \cup {NoPort} /\ settings'.https \in Port \cup {NoPort}
        /\ settings'.logging.level \in (LogLevels \ {"error", "fatal"}) \cup {"err", "critical"}
    <3>1. CASE process' = "opening"
      BY <1>4, <3>1, LoadedSettings, FoundPaths, LoadedTypes
    <3>2. CASE process' = "exited"
      BY <2>1, <3>2 DEF LaunchTypeOK
    <3>3. QED
      BY <2>1, <3>1, <3>2
  <2>3. QED
    BY <2>1, <2>2 DEF LaunchTypeOK
<1>5. CASE OpenDatabase
  <2>1. flawless' \in BOOLEAN /\ UNCHANGED document /\ settings' \in {settings, NoSettings}
    BY <1>5 DEF OpenDatabase, LaunchTypeOK
  <2>2. /\ process' \in {"running", "exited"} /\ code' \in {1, code}
        /\ given' \in {given, [environment |-> Nothing, commandLine |-> Nothing]}
    BY <1>5 DEF OpenDatabase, Exit
  <2>3. QED
    BY <2>1, <2>2, NoSettingsTypes DEF LaunchTypeOK
<1>6. CASE \/ Runs(MainThread)
           \/ Runs(OwnerAsks)
           \/ Runs(OwnerThread)
           \/ Runs(ServerThread)
           \/ Runs(Signal)
  BY <1>6 DEF Runs, LaunchTypeOK
<1>7. CASE MainReturns
  BY <1>7, NoSettingsTypes DEF MainReturns, Exit, LaunchTypeOK
<1>8. QED
  BY <1>1, <1>2, <1>3, <1>4, <1>5, <1>6, <1>7 DEF ProcessNext

\* The inductive invariant of the process.
ProcessInv ==
  /\ IInv
  /\ GeneratorInv
  /\ LaunchTypeOK

LEMMA ProcessStep == ProcessInv /\ [ProcessNext]_processVars => ProcessInv'
BY ApplicationStep, ProjectStep, LaunchTypeStep DEF ProcessInv

LEMMA ProcessStart == ProcessInit => ProcessInv
<1> SUFFICES ASSUME ProcessInit PROVE ProcessInv
  OBVIOUS
<1>1. IInv /\ GeneratorInv
  BY InitIsIInv, InitIsGeneratorInv DEF ProcessInit
<1>2. LaunchTypeOK
  BY NoSettingsTypes DEF ProcessInit, LaunchTypeOK
<1>3. QED
  BY <1>1, <1>2 DEF ProcessInv

LEMMA ProcessInvHolds == ProcessSpec => []ProcessInv
BY ProcessStart, ProcessStep, PTL DEF ProcessSpec

\* A port the process listens on is one, the level of its log is one that spdlog
\* has, and nothing else leaves its type.
THEOREM ProcessTypes == ProcessSpec => []ProcessTypeOK
<1>1. ProcessInv => ProcessTypeOK
  BY DEF ProcessInv, IInv, GeneratorInv, LaunchTypeOK, ProcessTypeOK
<1>2. QED
  BY <1>1, ProcessInvHolds, PTL

\* In every launch HTTPServer::stop is called at most once, and runUntilExit returns
\* with the server thread joined.
THEOREM EveryLaunchEndsOrderly == ProcessSpec => [](StoppedOnce /\ ServerThreadIsJoined)
<1>1. ProcessInv => StoppedOnce /\ ServerThreadIsJoined
  BY DEF ProcessInv, IInv, StopIsClaimed, StoppedOnce
<1>2. QED
  BY <1>1, ProcessInvHolds, PTL

\* Whatever fails or dies, in whatever order commands are given, the configuration
\* is written when everything it refers to is there.
THEOREM CompleteProject == ProcessSpec => []ConfigurationComesLast
<1>1. ProcessInv => ConfigurationComesLast
  BY DEF ProcessInv, GeneratorInv
<1>2. QED
  BY <1>1, ProcessInvHolds, PTL

\* At no moment may others read a secret.
THEOREM SecretsAreClosed == ProcessSpec => []SecretsAreNeverExposed
<1>1. ProcessInv => SecretsAreNeverExposed
  BY DEF ProcessInv, GeneratorInv, SecretsFolderFirst, SecretsAreNeverExposed, G!SecretsAreNeverExposed
<1>2. QED
  BY <1>1, ProcessInvHolds, PTL

\* The command line decides on the level of the log, then the environment, then the
\* file.
THEOREM LevelIsAsGiven == ProcessSpec => CommandLineWins
<1> DEFINE commandLine == given.commandLine
           environment == given.environment
           chosen == IF "LOG_LEVEL" \in DOMAIN commandLine THEN commandLine ELSE environment
           wanted == IF "LOG_LEVEL" \in DOMAIN chosen
                     THEN chosen["LOG_LEVEL"].text
                     ELSE TextAt(yamlToJson(Document), <<"log", "level">>, "info")
           overrides == Overloads(environment, commandLine)
<1>1. ASSUME ProcessInv, [ProcessNext]_processVars, process = "loading", process' = "opening",
             content["config"] \in Command
      PROVE  settings'.logging.level = SpdlogLevel(wanted)
  <2>1. LoadConfiguration
    BY <1>1 DEF ProcessNext, Initialize, Edit, Launch, ParseOverloads, FetchInternetTime,
                CheckSystemTime, OpenDatabase, Runs, MainReturns, processVars, launch
  <2>2. content["config"] # "short"
    BY <1>1, CommandAssumption
  <2>3. Loads(Document, overrides, Files) /\ settings' = Loaded(Document, overrides)
    BY <1>1, <2>1, <2>2, LoadedSettings DEF ProcessInv
  <2>4. DOMAIN Document \subseteq Seq(Keys)
    BY <1>1, FoundPaths DEF ProcessInv
  <2>5. settings'.logging.level =
          SpdlogLevel(IF "LOG_LEVEL" \in DOMAIN overrides
                      THEN overrides["LOG_LEVEL"].text
                      ELSE TextAt(yamlToJson(Document), <<"log", "level">>, "info"))
    BY <2>3, <2>4, LevelInForce
  <2>6. /\ "LOG_LEVEL" \in DOMAIN overrides <=> "LOG_LEVEL" \in DOMAIN chosen
        /\ "LOG_LEVEL" \in DOMAIN overrides => overrides["LOG_LEVEL"] = chosen["LOG_LEVEL"]
    BY DEF Overloads
  <2>7. QED
    BY <2>5, <2>6
<1>2. ProcessInv /\ [ProcessNext]_processVars =>
        [process = "loading" /\ process' = "opening" =>
           (content["config"] \in Command => settings'.logging.level = SpdlogLevel(wanted))]_processVars
  BY <1>1
<1>3. QED
  BY <1>2, ProcessInvHolds, PTL DEF ProcessSpec, CommandLineWins
-----------------------------------------------------------------------------
(***************************************************************************)
(* The configuration that `machinepal init` writes                         *)
(***************************************************************************)
Two(p, a, b) == Len(p) = 2 /\ p[1] = a /\ p[2] = b
Three(p, a, b, c) == Len(p) = 3 /\ p[1] = a /\ p[2] = b /\ p[3] = c

LEMMA TwoOf == \A e, leaf, a, b : e = <<<<a, b>>, leaf>> => Two(e[1], a, b) /\ e[2] = leaf
BY DEF Two

LEMMA ThreeOf == \A e, leaf, a, b, c : e = <<<<a, b, c>>, leaf>> => Three(e[1], a, b, c) /\ e[2] = leaf
BY DEF Three

\* The template, with its paths taken apart.
EntryServer(p, leaf) ==
  \/ Two(p, "server", "hostname") /\ leaf = Word("localhost")
  \/ Three(p, "server", "http", "enable") /\ leaf = Switch(TRUE)
  \/ Three(p, "server", "http", "port") /\ leaf = HTTPPort
  \/ Three(p, "server", "https", "enable") /\ leaf = Switch(TRUE)
  \/ Three(p, "server", "https", "port") /\ leaf = HTTPSPort
  \/ Three(p, "server", "https", "cert_file") /\ leaf = Path("cert")
  \/ Three(p, "server", "https", "key_file") /\ leaf = Path("certKey")

EntrySections(p, leaf) ==
  \/ Two(p, "network", "name") /\ leaf = Word("machinepal-easynet")
  \/ Two(p, "network", "payment_address") /\ leaf = Leaf("address", {"address"}, 0)
  \/ Two(p, "log", "level") /\ leaf = Word("trace")

EntryResources(p, leaf) ==
  \/ Three(p, "resources", "0", "name") /\ leaf = Word("hello_world")
  \/ Three(p, "resources", "0", "type") /\ leaf = Word("local_file")
  \/ Three(p, "resources", "0", "location") /\ leaf = Path("hello")
  \/ Three(p, "resources", "0", "price") /\ leaf = Leaf("1.545", {"double"}, 1)
  \/ Three(p, "resources", "0", "token") /\ leaf = Word("USDC")
  \/ Three(p, "resources", "1", "name") /\ leaf = Word("hello_world_api_rest")
  \/ Three(p, "resources", "1", "type") /\ leaf = Word("api-rest")
  \/ Three(p, "resources", "1", "location") /\ leaf = Leaf("https://...", {"url"}, 0)
  \/ Three(p, "resources", "1", "price") /\ leaf = Number("12", 12)
  \/ Three(p, "resources", "1", "token") /\ leaf = Word("USDC")

Entry(p, leaf) == EntryServer(p, leaf) \/ EntrySections(p, leaf) \/ EntryResources(p, leaf)

LEMMA TemplateEntry ==
  ASSUME NEW p \in DOMAIN kYamlTemplate
  PROVE  Entry(p, kYamlTemplate[p])
<1>1. \E e \in TemplateEntries : e[1] = p
  BY DEF kYamlTemplate
<1> DEFINE entry == CHOOSE e \in TemplateEntries : e[1] = p
<1>2. entry \in TemplateEntries /\ entry[1] = p
  BY <1>1
<1>3. kYamlTemplate[p] = entry[2]
  BY DEF kYamlTemplate
<1> HIDE DEF entry
<1>4. Entry(entry[1], entry[2])
  BY <1>2, TwoOf, ThreeOf, Zenon
     DEF TemplateEntries, Resource, Entry, EntryServer, EntrySections, EntryResources
<1>5. QED
  BY <1>2, <1>3, <1>4

IsString(v) == v.type = "string"
IsText(v, text) == v.type = "string" /\ v.text = text
IsOneOf(v, texts) == v.type = "string" /\ v.text \in texts
CanBeReadAs(v, format) == v.type = "string" /\ format \in v.reads
IsPort8080(v) == v.type = "integer" /\ v.number = 8080
IsPort8443(v) == v.type = "integer" /\ v.number = 8443
IsPrice(v) == v.type \in {"integer", "float"} /\ v.number >= 0

\* What the checks need to know of the leaf v at path p of the JSON document.
AgreeableServer(p, v) ==
  \/ Two(p, "server", "hostname") /\ CanBeReadAs(v, "hostname")
  \/ Three(p, "server", "http", "enable")
  \/ Three(p, "server", "http", "port") /\ IsPort8080(v)
  \/ Three(p, "server", "https", "enable")
  \/ Three(p, "server", "https", "port") /\ IsPort8443(v)
  \/ Three(p, "server", "https", "cert_file") /\ IsText(v, "cert")
  \/ Three(p, "server", "https", "key_file") /\ IsText(v, "certKey")

AgreeableSections(p, v) ==
  \/ Two(p, "network", "name") /\ IsText(v, "machinepal-easynet")
  \/ Two(p, "network", "payment_address") /\ CanBeReadAs(v, "address")
  \/ Two(p, "log", "level") /\ IsOneOf(v, LogLevels)
  \/ Two(p, "log", "type") /\ IsOneOf(v, LogTypes)

AgreeableResources(p, v) ==
  \/ Three(p, "resources", "0", "name") /\ IsString(v)
  \/ Three(p, "resources", "0", "type") /\ IsText(v, "local_file")
  \/ Three(p, "resources", "0", "location") /\ IsText(v, "hello")
  \/ Three(p, "resources", "0", "price") /\ IsPrice(v)
  \/ Three(p, "resources", "0", "token") /\ IsString(v)
  \/ Three(p, "resources", "1", "name") /\ IsString(v)
  \/ Three(p, "resources", "1", "type") /\ IsText(v, "api-rest")
  \/ Three(p, "resources", "1", "location") /\ CanBeReadAs(v, "url")
  \/ Three(p, "resources", "1", "price") /\ IsPrice(v)
  \/ Three(p, "resources", "1", "token") /\ IsString(v)

Agreeable(p, v) == AgreeableServer(p, v) \/ AgreeableSections(p, v) \/ AgreeableResources(p, v)

\* A leaf without a tag, read as JSON.
LEMMA LeafJson ==
  ASSUME NEW text, NEW reads, NEW number
  PROVE  LET leaf == Leaf(text, reads, number)  v == Json(JsonType(leaf), leaf)
         IN /\ v.text = text /\ v.reads = reads /\ v.number = number
            /\ v.type = IF "bool" \in reads THEN "boolean"
                        ELSE IF {"int64", "uint64"} \cap reads # {} THEN "integer"
                        ELSE IF "double" \in reads THEN "float" ELSE "string"
<1> DEFINE leaf == Leaf(text, reads, number)
<1>1. leaf.tag = "" /\ leaf.text = text /\ leaf.reads = reads /\ leaf.number = number
  BY DEF Leaf
<1> HIDE DEF leaf
<1>2. JsonType(leaf) = IF "bool" \in reads THEN "boolean"
                        ELSE IF {"int64", "uint64"} \cap reads # {} THEN "integer"
                        ELSE IF "double" \in reads THEN "float" ELSE "string"
  BY <1>1 DEF JsonType, IntegerType, FloatType
<1>3. QED
  BY <1>1, <1>2 DEF Json, leaf

\* Every leaf of the template is what the checks want at its path.
LEMMA TemplateAgrees ==
  ASSUME NEW p \in DOMAIN kYamlTemplate
  PROVE  /\ Agreeable(p, yamlToJson(kYamlTemplate)[p])
         /\ JsonType(kYamlTemplate[p]) # "throws"
<1> DEFINE leaf == kYamlTemplate[p]  v == yamlToJson(kYamlTemplate)[p]
<1>1. Entry(p, leaf) /\ v = Json(JsonType(leaf), leaf)
  BY TemplateEntry DEF yamlToJson
<1> HIDE DEF leaf, v
<1> USE DEF IsString, IsText, IsOneOf, CanBeReadAs, IsPort8080, IsPort8443, IsPrice
<1>2. \A text : leaf = Word(text) => IsString(v) /\ IsText(v, text) /\ CanBeReadAs(v, "hostname")
  BY <1>1, LeafJson DEF Word
<1>3. \A text : leaf = Path(text) => IsText(v, text)
  BY <1>1, LeafJson DEF Path
<1>4. /\ leaf = HTTPPort => IsPort8080(v)
      /\ leaf = HTTPSPort => IsPort8443(v)
      /\ leaf = Number("12", 12) => IsPrice(v)
  BY <1>1, LeafJson DEF Number, HTTPPort, HTTPSPort
<1>5. /\ leaf = Leaf("address", {"address"}, 0) => CanBeReadAs(v, "address")
      /\ leaf = Leaf("https://...", {"url"}, 0) => CanBeReadAs(v, "url")
      /\ leaf = Leaf("1.545", {"double"}, 1) => IsPrice(v)
  BY <1>1, LeafJson
<1>6. leaf = Word("trace") => IsOneOf(v, LogLevels)
  BY <1>2 DEF LogLevels
<1>7. leaf = Switch(TRUE) => v.type = "boolean"
  BY <1>1, LeafJson DEF Switch
<1> DEFINE fine == v.type \in {"string", "integer", "float", "boolean"}
<1>8. IsString(v) \/ IsPort8080(v) \/ IsPort8443(v) \/ IsPrice(v) \/ v.type = "boolean" => fine
  OBVIOUS
<1>9. IsString(v) <=> v.type = "string"
  OBVIOUS
<1>10. \A x : IsText(v, x) \/ CanBeReadAs(v, x) \/ IsOneOf(v, x) => IsString(v)
  OBVIOUS
<1> HIDE DEF IsString, IsText, IsOneOf, CanBeReadAs, IsPort8080, IsPort8443, IsPrice, fine
<1>11. Agreeable(p, v)
  <2>1. EntryServer(p, leaf) => AgreeableServer(p, v)
    BY <1>2, <1>3, <1>4, Zenon DEF EntryServer, AgreeableServer
  <2>2. EntrySections(p, leaf) => AgreeableSections(p, v)
    BY <1>2, <1>5, <1>6, Zenon DEF EntrySections, AgreeableSections
  <2>3. EntryResources(p, leaf) => AgreeableResources(p, v)
    BY <1>2, <1>3, <1>4, <1>5, Zenon DEF EntryResources, AgreeableResources
  <2>4. QED
    BY <1>1, <2>1, <2>2, <2>3, Zenon DEF Entry, Agreeable
<1>12. fine
  BY <1>1, <1>2, <1>3, <1>4, <1>5, <1>7, <1>8, <1>10, Zenon DEF Entry, EntryServer, EntrySections, EntryResources
<1>13. JsonType(leaf) = v.type
  BY <1>1 DEF Json
<1>14. QED
  BY <1>11, <1>12, <1>13 DEF leaf, v, fine

\* The keys that Harmless admits.
HarmlessKey == {"LOG_LEVEL", "LOG_TYPE", "HTTP_PORT", "HOSTNAME", "BIND_IP"}

\* Of the keys of harmless overrides, two are looked for.
LEMMA HarmlessTargets ==
  ASSUME NEW o \in OverrideTable, o.key \in HarmlessKey
  PROVE  /\ o.type = "string"
         /\ \/ o.key = "LOG_LEVEL" /\ o.path = <<"log", "level">>
            \/ o.key = "LOG_TYPE" /\ o.path = <<"log", "type">>
BY DEF OverrideTable, Override, HarmlessKey

LEMMA PathBelow ==
  ASSUME NEW p \in Seq(Keys), NEW q \in Seq(Keys), Tuples!IsPrefix(p, q) \/ Tuples!IsPrefix(q, p),
         Len(p) >= 1, Len(q) >= 1
  PROVE  p[1] = q[1] /\ (Len(p) >= 2 /\ Len(q) >= 2 => p[2] = q[2])
BY Prefixes

LEMMA SamePair ==
  ASSUME NEW p \in Seq(Keys), NEW q \in Seq(Keys), Len(p) = 2, Len(q) = 2, p[1] = q[1], p[2] = q[2]
  PROVE  p = q
<1>1. \A i \in 1..2 : p[i] = q[i]
  OBVIOUS
<1>2. QED
  BY <1>1, SeqEqual

LEMMA LogPaths ==
  /\ <<"log", "level">> \in Seq(Keys) /\ <<"log", "type">> \in Seq(Keys)
  /\ Two(<<"log", "level">>, "log", "level") /\ Two(<<"log", "type">>, "log", "type")
<1>1. "log" \in Keys /\ "level" \in Keys /\ "type" \in Keys
  BY DEF Keys
<1>2. <<"log", "level">> \in Seq(Keys) /\ <<"log", "type">> \in Seq(Keys)
  BY <1>1, Pairs, Zenon
<1>3. QED
  BY <1>2 DEF Two

\* Every path of the template has two or three keys, and only one begins with log.
LEMMA AgreeableShape ==
  ASSUME NEW p, NEW v, Agreeable(p, v)
  PROVE  /\ Len(p) \in {2, 3}
         /\ p[1] \in {"server", "network", "log", "resources"}
         /\ p[1] = "server" => p[2] \in {"hostname", "http", "https"}
         /\ p[1] = "server" /\ Len(p) = 2 => p[2] = "hostname"
         /\ p[1] = "server" /\ p[2] = "http" => p[3] \in {"enable", "port"}
         /\ p[1] = "server" /\ p[2] = "https" => p[3] \in {"enable", "port", "cert_file", "key_file"}
         /\ p[1] = "network" => p[2] \in {"name", "payment_address"}
         /\ p[1] = "log" => p[2] \in {"level", "type"} /\ Len(p) = 2
         /\ p[1] = "resources" => p[2] \in {"0", "1"} /\ Len(p) = 3
<1>1. CASE AgreeableServer(p, v)
  BY <1>1 DEF AgreeableServer, Two, Three
<1>2. CASE AgreeableSections(p, v)
  BY <1>2 DEF AgreeableSections, Two
<1>3. CASE AgreeableResources(p, v)
  BY <1>3 DEF AgreeableResources, Three
<1>4. QED
  BY <1>1, <1>2, <1>3 DEF Agreeable

\* The document that is checked: the template, with level and type of the log as the
\* overrides want them.
LEMMA OverriddenTemplate ==
  ASSUME NEW overrides, Harmless(overrides)
  PROVE  LET j == applyEnvOverrides(yamlToJson(kYamlTemplate), overrides)
         IN /\ DOMAIN kYamlTemplate \subseteq DOMAIN j
            /\ \A p \in DOMAIN j : p \in Seq(Keys) /\ Agreeable(p, j[p])
<1> DEFINE t == yamlToJson(kYamlTemplate)
           paths == {o.path : o \in Given(overrides)}
           kept == {p \in DOMAIN t : \A q \in paths : ~Tuples!IsPrefix(p, q) /\ ~Tuples!IsPrefix(q, p)}
           Written(p) == CHOOSE o \in Given(overrides) : o.path = p
           j == applyEnvOverrides(t, overrides)
<1>1. /\ DOMAIN j = kept \cup paths
      /\ \A p \in paths : j[p] = Json(Written(p).type, overrides[Written(p).key])
      /\ \A p \in kept \ paths : j[p] = t[p]
  BY DEF applyEnvOverrides
<1>2. DOMAIN t = DOMAIN kYamlTemplate
  BY DEF yamlToJson
<1>3. \A o \in Given(overrides) :
        /\ o.type = "string" /\ o.key \in DOMAIN overrides
        /\ \/ o.key = "LOG_LEVEL" /\ o.path = <<"log", "level">>
           \/ o.key = "LOG_TYPE" /\ o.path = <<"log", "type">>
  BY HarmlessTargets DEF Given, Harmless, HarmlessKey
<1> HIDE DEF t, paths, kept, j
<1>4. ASSUME NEW p \in paths PROVE p \in Seq(Keys) /\ Agreeable(p, j[p])
  <2> DEFINE o == Written(p)
  <2>1. o \in Given(overrides) /\ o.path = p
    BY <1>4 DEF paths
  <2>2. j[p] = Json(o.type, overrides[o.key])
    BY <1>1, <1>4
  <2> HIDE DEF o
  <2>3. IsOneOf(j[p], IF o.key = "LOG_LEVEL" THEN LogLevels ELSE LogTypes)
    BY <1>3, <2>1, <2>2 DEF Json, Harmless, InRange, IsOneOf
  <2>4. QED
    BY <1>3, <2>1, <2>3, LogPaths DEF Agreeable, AgreeableSections
<1>5. ASSUME NEW p \in DOMAIN kYamlTemplate, p \notin paths
      PROVE  p \in kept /\ j[p] = t[p] /\ p \in Seq(Keys) /\ Agreeable(p, j[p])
  <2>1. p \in Seq(Keys) /\ Agreeable(p, t[p])
    BY TemplatePaths, TemplateAgrees DEF t
  <2>2. ASSUME NEW q \in paths, Tuples!IsPrefix(p, q) \/ Tuples!IsPrefix(q, p) PROVE FALSE
    <3>1. q \in Seq(Keys) /\ \E a : Two(q, "log", a)
      BY <1>3, LogPaths, Zenon DEF paths
    <3>2. Len(p) \in {2, 3} /\ (p[1] = "log" => Len(p) = 2)
      BY <2>1, AgreeableShape
    <3>3. Len(q) = 2 /\ q[1] = "log"
      BY <3>1 DEF Two
    <3>4. p[1] = q[1] /\ p[2] = q[2]
      <4>1. p \in Seq(Keys) /\ q \in Seq(Keys) /\ Len(p) >= 1 /\ Len(p) >= 2 /\ Len(q) >= 1 /\ Len(q) >= 2
        BY <2>1, <3>1, <3>2, <3>3
      <4>2. QED
        BY <2>2, <4>1, PathBelow
    <3>5. p = q
      <4>1. p \in Seq(Keys) /\ q \in Seq(Keys) /\ Len(p) = 2 /\ Len(q) = 2
        BY <2>1, <3>1, <3>2, <3>3, <3>4
      <4>2. QED
        BY <3>4, <4>1, SamePair
    <3>6. QED
      BY <1>5, <3>5
  <2>3. p \in kept
    BY <1>2, <2>2 DEF kept
  <2>4. QED
    BY <1>1, <1>5, <2>1, <2>3
<1>6. /\ DOMAIN kYamlTemplate \subseteq DOMAIN j
      /\ \A p \in DOMAIN j : p \in Seq(Keys) /\ Agreeable(p, j[p])
  BY <1>1, <1>2, <1>4, <1>5 DEF kept
<1>7. QED
  BY <1>6 DEF j, t

\* A document whose every check succeeds, as OverriddenTemplate says.
FromTemplate(j) ==
  /\ DOMAIN kYamlTemplate \subseteq DOMAIN j
  /\ \A p \in DOMAIN j : p \in Seq(Keys) /\ Agreeable(p, j[p])

\* The same, path by path.
LEMMA AgreeableLeaves ==
  ASSUME NEW p, NEW v, Agreeable(p, v)
  PROVE  /\ Two(p, "server", "hostname") => CanBeReadAs(v, "hostname")
         /\ Three(p, "server", "http", "port") => IsPort8080(v)
         /\ Three(p, "server", "https", "port") => IsPort8443(v)
         /\ Three(p, "server", "https", "cert_file") => IsText(v, "cert")
         /\ Three(p, "server", "https", "key_file") => IsText(v, "certKey")
         /\ Two(p, "network", "name") => IsText(v, "machinepal-easynet")
         /\ Two(p, "network", "payment_address") => CanBeReadAs(v, "address")
         /\ Two(p, "log", "level") => IsOneOf(v, LogLevels)
         /\ Two(p, "log", "type") => IsOneOf(v, LogTypes)
         /\ \A i \in {"0", "1"} : /\ Three(p, "resources", i, "name") => IsString(v)
                                  /\ Three(p, "resources", i, "price") => IsPrice(v)
                                  /\ Three(p, "resources", i, "token") => IsString(v)
         /\ Three(p, "resources", "0", "type") => IsText(v, "local_file")
         /\ Three(p, "resources", "0", "location") => IsText(v, "hello")
         /\ Three(p, "resources", "1", "type") => IsText(v, "api-rest")
         /\ Three(p, "resources", "1", "location") => CanBeReadAs(v, "url")
<1>1. CASE AgreeableServer(p, v)
  BY <1>1 DEF AgreeableServer, Two, Three
<1>2. CASE AgreeableSections(p, v)
  BY <1>2 DEF AgreeableSections, Two, Three
<1>3. CASE AgreeableResources(p, v)
  BY <1>3 DEF AgreeableResources, Two, Three
<1>4. QED
  BY <1>1, <1>2, <1>3 DEF Agreeable

LEMMA PathOfTwo == \A p, a, b : p = <<a, b>> => Two(p, a, b)
BY DEF Two

LEMMA PathOfThree == \A p, a, b, c : p = <<a, b, c>> => Three(p, a, b, c)
BY DEF Three

\* The leaves that must be there, are.
LEMMA TemplateHas ==
  /\ <<"server", "hostname">> \in DOMAIN kYamlTemplate
  /\ <<"server", "http", "port">> \in DOMAIN kYamlTemplate
  /\ <<"server", "https", "port">> \in DOMAIN kYamlTemplate
  /\ <<"server", "https", "cert_file">> \in DOMAIN kYamlTemplate
  /\ <<"server", "https", "key_file">> \in DOMAIN kYamlTemplate
  /\ <<"network", "name">> \in DOMAIN kYamlTemplate
  /\ <<"network", "payment_address">> \in DOMAIN kYamlTemplate
  /\ <<"log", "level">> \in DOMAIN kYamlTemplate
  /\ \A i \in {"0", "1"} : /\ <<"resources", i, "name">> \in DOMAIN kYamlTemplate
                           /\ <<"resources", i, "type">> \in DOMAIN kYamlTemplate
                           /\ <<"resources", i, "location">> \in DOMAIN kYamlTemplate
                           /\ <<"resources", i, "price">> \in DOMAIN kYamlTemplate
                           /\ <<"resources", i, "token">> \in DOMAIN kYamlTemplate
<1>1. \A p, leaf : <<p, leaf>> \in TemplateEntries => p \in DOMAIN kYamlTemplate
  BY DEF kYamlTemplate
<1>2. /\ <<"server", "hostname">> \in DOMAIN kYamlTemplate
      /\ <<"server", "http", "port">> \in DOMAIN kYamlTemplate
      /\ <<"server", "https", "port">> \in DOMAIN kYamlTemplate
      /\ <<"server", "https", "cert_file">> \in DOMAIN kYamlTemplate
      /\ <<"server", "https", "key_file">> \in DOMAIN kYamlTemplate
      /\ <<"network", "name">> \in DOMAIN kYamlTemplate
      /\ <<"network", "payment_address">> \in DOMAIN kYamlTemplate
      /\ <<"log", "level">> \in DOMAIN kYamlTemplate
  <2>1. \A p \in {<<"server", "hostname">>, <<"network", "name">>, <<"network", "payment_address">>,
                  <<"log", "level">>} :
          \E leaf : <<p, leaf>> \in TemplateEntries
    BY Zenon DEF TemplateEntries
  <2>2. \A p \in {<<"server", "http", "port">>, <<"server", "https", "port">>,
                  <<"server", "https", "cert_file">>, <<"server", "https", "key_file">>} :
          \E leaf : <<p, leaf>> \in TemplateEntries
    BY Zenon DEF TemplateEntries
  <2>3. QED
    BY <1>1, <2>1, <2>2, Zenon
<1>3. ASSUME NEW i \in {"0", "1"}, NEW k \in {"name", "type", "location", "price", "token"}
      PROVE  <<"resources", i, k>> \in DOMAIN kYamlTemplate
  <2>1. \E leaf : <<Resource(i, k), leaf>> \in TemplateEntries
    BY <1>3, Zenon DEF TemplateEntries
  <2>2. QED
    BY <1>1, <2>1, Zenon DEF Resource
<1>4. QED
  BY <1>2, <1>3, Zenon

\* What it means to begin with up to three keys.
LEMMA Below ==
  ASSUME NEW q \in Seq(Keys)
  PROVE  /\ Tuples!IsPrefix(<<>>, q)
         /\ \A a : Tuples!IsPrefix(<<a>>, q) <=> Len(q) >= 1 /\ q[1] = a
         /\ \A a, b : Tuples!IsPrefix(<<a, b>>, q) <=> Len(q) >= 2 /\ q[1] = a /\ q[2] = b
         /\ \A a, b, c : Tuples!IsPrefix(<<a, b, c>>, q) <=> Len(q) >= 3 /\ q[1] = a /\ q[2] = b /\ q[3] = c
<1>1. Tuples!IsPrefix(<<>>, q)
  BY DEF Tuples!IsPrefix
<1>2. ASSUME NEW a PROVE Tuples!IsPrefix(<<a>>, q) <=> Len(q) >= 1 /\ q[1] = a
  BY DEF Tuples!IsPrefix
<1>3. ASSUME NEW a, NEW b PROVE Tuples!IsPrefix(<<a, b>>, q) <=> Len(q) >= 2 /\ q[1] = a /\ q[2] = b
  BY DEF Tuples!IsPrefix
<1>4. ASSUME NEW a, NEW b, NEW c
      PROVE  Tuples!IsPrefix(<<a, b, c>>, q) <=> Len(q) >= 3 /\ q[1] = a /\ q[2] = b /\ q[3] = c
  BY DEF Tuples!IsPrefix
<1>5. QED
  BY <1>1, <1>2, <1>3, <1>4

\* Paths put together.
LEMMA AppendNone == \A a : Append(<<>>, a) = <<a>>
OBVIOUS

LEMMA AppendOne ==
  ASSUME NEW a, NEW b
  PROVE  Append(<<a>>, b) = <<a, b>> /\ <<a>> \o <<b>> = <<a, b>>
<1> DEFINE S == {a, b}
<1>1. a \in S /\ b \in S
  OBVIOUS
<1> HIDE DEF S
<1>2. <<a>> \in Seq(S) /\ <<b>> \in Seq(S) /\ <<a, b>> \in Seq(S)
  BY <1>1
<1>3. \A i \in 1..2 : Append(<<a>>, b)[i] = <<a, b>>[i] /\ (<<a>> \o <<b>>)[i] = <<a, b>>[i]
  BY <1>1, <1>2
<1>4. /\ Append(<<a>>, b) \in Seq(S) /\ Len(Append(<<a>>, b)) = 2
      /\ <<a>> \o <<b>> \in Seq(S) /\ Len(<<a>> \o <<b>>) = 2 /\ Len(<<a, b>>) = 2
  BY <1>1, <1>2
<1>5. Append(<<a>>, b) = <<a, b>>
  BY <1>2, <1>3, <1>4, SeqEqual
<1>6. <<a>> \o <<b>> = <<a, b>>
  BY <1>2, <1>3, <1>4, SeqEqual
<1>7. QED
  BY <1>5, <1>6

LEMMA AppendTwo ==
  ASSUME NEW a, NEW b, NEW c
  PROVE  Append(<<a, b>>, c) = <<a, b, c>>
<1> DEFINE S == {a, b, c}
<1>1. a \in S /\ b \in S /\ c \in S
  OBVIOUS
<1> HIDE DEF S
<1>2. <<a, b>> \in Seq(S) /\ <<a, b, c>> \in Seq(S)
  BY <1>1
<1>3. \A i \in 1..3 : Append(<<a, b>>, c)[i] = <<a, b, c>>[i]
  BY <1>1, <1>2
<1>4. Append(<<a, b>>, c) \in Seq(S) /\ Len(Append(<<a, b>>, c)) = 3 /\ Len(<<a, b, c>>) = 3
  BY <1>1, <1>2
<1>5. QED
  BY <1>2, <1>3, <1>4, SeqEqual

\* Only these are sections of the document.
LEMMA Sections ==
  ASSUME NEW j, FromTemplate(j)
  PROVE  /\ \A a : Contains(j, <<a>>) => a \in {"server", "network", "log", "resources"}
         /\ \A b : Contains(j, <<"server", b>>) => b \in {"hostname", "http", "https"}
         /\ \A b : Contains(j, <<"network", b>>) => b \in {"name", "payment_address"}
         /\ \A b : Contains(j, <<"log", b>>) => b \in {"level", "type"}
         /\ \A b : Contains(j, <<"resources", b>>) => b \in {"0", "1"}
         /\ \A c : Contains(j, <<"server", "http", c>>) => c \in {"enable", "port"}
         /\ \A c : Contains(j, <<"server", "https", c>>) => c \in {"enable", "port", "cert_file", "key_file"}
<1>1. ASSUME NEW a, Contains(j, <<a>>) PROVE a \in {"server", "network", "log", "resources"}
  BY <1>1, Below, AgreeableShape DEF Contains, FromTemplate
<1>2. ASSUME NEW a, NEW b, Contains(j, <<a, b>>)
      PROVE  /\ a = "server" => b \in {"hostname", "http", "https"}
             /\ a = "network" => b \in {"name", "payment_address"}
             /\ a = "log" => b \in {"level", "type"}
             /\ a = "resources" => b \in {"0", "1"}
  BY <1>2, Below, AgreeableShape DEF Contains, FromTemplate
<1>3. ASSUME NEW b, NEW c, Contains(j, <<"server", b, c>>)
      PROVE  /\ b = "http" => c \in {"enable", "port"}
             /\ b = "https" => c \in {"enable", "port", "cert_file", "key_file"}
  BY <1>3, Below, AgreeableShape DEF Contains, FromTemplate
<1>4. QED
  BY <1>1, <1>2, <1>3

\* These are sections, not leaves, and no arrays.
LEMMA Objects ==
  ASSUME NEW j, FromTemplate(j)
  PROVE  /\ TypeAt(j, <<>>) = "object"
         /\ \A a \in {"server", "network", "log"} : TypeAt(j, <<a>>) = "object"
         /\ \A b \in {"http", "https"} : TypeAt(j, <<"server", b>>) = "object"
         /\ <<"resources">> \notin DOMAIN j
<1>1. \A p \in DOMAIN j : /\ Len(p) \in {2, 3}
                          /\ p[1] = "server" /\ Len(p) = 2 => p[2] = "hostname"
  BY AgreeableShape DEF FromTemplate
<1>2. <<>> \notin DOMAIN j /\ \A a : <<a>> \notin DOMAIN j
  <2>1. Len(<<>>) = 0 /\ \A a : Len(<<a>>) = 1
    OBVIOUS
  <2>2. QED
    BY <1>1, <2>1
<1>3. \A b \in {"http", "https"} : <<"server", b>> \notin DOMAIN j
  BY <1>1, PathOfTwo DEF Two
<1>4. Items(j, <<>>) = {}
  <2>1. \A i \in Index : ~Contains(j, <<i>>)
    BY Sections DEF Index
  <2>2. QED
    BY <2>1, AppendNone DEF Items
<1>5. \A a \in {"server", "network", "log"} : Items(j, <<a>>) = {}
  <2>1. \A a \in {"server", "network", "log"}, i \in Index : ~Contains(j, <<a, i>>)
    BY Sections DEF Index
  <2>2. ASSUME NEW a, NEW i PROVE Append(<<a>>, i) = <<a, i>>
    BY AppendOne
  <2>3. QED
    BY <2>1, <2>2, Zenon DEF Items
<1>6. \A b \in {"http", "https"} : Items(j, <<"server", b>>) = {}
  <2>1. \A b \in {"http", "https"}, i \in Index : ~Contains(j, <<"server", b, i>>)
    BY Sections DEF Index
  <2>2. ASSUME NEW a, NEW b, NEW i PROVE Append(<<a, b>>, i) = <<a, b, i>>
    BY AppendTwo
  <2>3. QED
    BY <2>1, <2>2, Zenon DEF Items
<1>7. QED
  BY <1>2, <1>3, <1>4, <1>5, <1>6 DEF TypeAt

\* What is in the document.
LEMMA Present ==
  ASSUME NEW j, FromTemplate(j)
  PROVE  /\ \A a \in {"server", "network", "log", "resources"} : Contains(j, <<a>>)
         /\ Contains(j, <<"server", "http">>) /\ Contains(j, <<"server", "https">>)
         /\ Contains(j, <<"resources", "0">>) /\ Contains(j, <<"resources", "1">>)
         /\ \A p \in DOMAIN j : Contains(j, p)
<1>1. \A p \in DOMAIN j : p \in Seq(Keys)
  BY DEF FromTemplate
<1>2. /\ <<"server", "http", "port">> \in DOMAIN j /\ <<"server", "https", "port">> \in DOMAIN j
      /\ <<"network", "name">> \in DOMAIN j /\ <<"log", "level">> \in DOMAIN j
      /\ <<"resources", "0", "name">> \in DOMAIN j /\ <<"resources", "1", "name">> \in DOMAIN j
  BY TemplateHas DEF FromTemplate
<1>3. \A a, b : <<a, b>> \in DOMAIN j => Contains(j, <<a>>)
  BY <1>1, Below, PathOfTwo DEF Contains, Two
<1>4. \A a, b, c : <<a, b, c>> \in DOMAIN j => Contains(j, <<a>>) /\ Contains(j, <<a, b>>)
  BY <1>1, Below, PathOfThree DEF Contains, Three
<1>5. ASSUME NEW p \in DOMAIN j PROVE Contains(j, p)
  BY <1>1, Prefixes DEF Contains
<1>6. QED
  BY <1>2, <1>3, <1>4, <1>5

\* The leaves, read.
LEMMA Leaves ==
  ASSUME NEW j, FromTemplate(j)
  PROVE  /\ CanBeReadAs(j[<<"server", "hostname">>], "hostname")
         /\ IsPort8080(j[<<"server", "http", "port">>])
         /\ IsPort8443(j[<<"server", "https", "port">>])
         /\ IsText(j[<<"server", "https", "cert_file">>], "cert")
         /\ IsText(j[<<"server", "https", "key_file">>], "certKey")
         /\ IsText(j[<<"network", "name">>], "machinepal-easynet")
         /\ CanBeReadAs(j[<<"network", "payment_address">>], "address")
         /\ IsOneOf(j[<<"log", "level">>], LogLevels)
         /\ <<"log", "type">> \in DOMAIN j => IsOneOf(j[<<"log", "type">>], LogTypes)
         /\ \A i \in {"0", "1"} : /\ IsString(j[<<"resources", i, "name">>])
                                  /\ IsPrice(j[<<"resources", i, "price">>])
                                  /\ IsString(j[<<"resources", i, "token">>])
         /\ IsText(j[<<"resources", "0", "type">>], "local_file")
         /\ IsText(j[<<"resources", "0", "location">>], "hello")
         /\ IsText(j[<<"resources", "1", "type">>], "api-rest")
         /\ CanBeReadAs(j[<<"resources", "1", "location">>], "url")
<1>1. DOMAIN kYamlTemplate \subseteq DOMAIN j /\ \A p \in DOMAIN j : Agreeable(p, j[p])
  BY DEF FromTemplate
<1>2. /\ CanBeReadAs(j[<<"server", "hostname">>], "hostname")
      /\ IsPort8080(j[<<"server", "http", "port">>])
      /\ IsPort8443(j[<<"server", "https", "port">>])
      /\ IsText(j[<<"server", "https", "cert_file">>], "cert")
      /\ IsText(j[<<"server", "https", "key_file">>], "certKey")
  BY <1>1, TemplateHas, AgreeableLeaves, PathOfTwo, PathOfThree, Zenon
<1>3. /\ IsText(j[<<"network", "name">>], "machinepal-easynet")
      /\ CanBeReadAs(j[<<"network", "payment_address">>], "address")
      /\ IsOneOf(j[<<"log", "level">>], LogLevels)
      /\ <<"log", "type">> \in DOMAIN j => IsOneOf(j[<<"log", "type">>], LogTypes)
  BY <1>1, TemplateHas, AgreeableLeaves, PathOfTwo, Zenon
<1>4. ASSUME NEW i \in {"0", "1"}
      PROVE  /\ IsString(j[<<"resources", i, "name">>])
             /\ IsPrice(j[<<"resources", i, "price">>])
             /\ IsString(j[<<"resources", i, "token">>])
  BY <1>1, <1>4, TemplateHas, AgreeableLeaves, PathOfThree, Zenon
<1>5. /\ IsText(j[<<"resources", "0", "type">>], "local_file")
      /\ IsText(j[<<"resources", "0", "location">>], "hello")
      /\ IsText(j[<<"resources", "1", "type">>], "api-rest")
      /\ CanBeReadAs(j[<<"resources", "1", "location">>], "url")
  <2>1. "0" \in {"0", "1"} /\ "1" \in {"0", "1"}
    OBVIOUS
  <2>2. QED
    BY <1>1, <2>1, TemplateHas, AgreeableLeaves, PathOfThree, Zenon
<1>6. QED
  BY <1>2, <1>3, <1>4, <1>5, Zenon

\* A leaf is there, with the type it was given.
LEMMA LeafIsThere ==
  ASSUME NEW j, FromTemplate(j), NEW p \in DOMAIN j, NEW type, j[p].type = type
  PROVE  MustContain(j, p, type) /\ MayContain(j, p, type) /\ Contains(j, p)
<1>1. Contains(j, p)
  BY Present
<1>2. TypeAt(j, p) = type
  BY DEF TypeAt
<1>3. QED
  BY <1>1, <1>2 DEF MustContain, MayContain

\* Nothing is there that the template does not know.
LEMMA NothingElse ==
  ASSUME NEW j, FromTemplate(j)
  PROVE  /\ ~Contains(j, <<"server", "bind_ip">>)
         /\ ~Contains(j, <<"server", "http", "enabled">>)
         /\ \A c \in {"enabled", "ca_file", "key_pass_file"} : ~Contains(j, <<"server", "https", c>>)
         /\ \A b \in {"facilitator", "client_wallet_key_file"} : ~Contains(j, <<"network", b>>)
         /\ \A a \in {"organizations", "passthrough", "database"} : ~Contains(j, <<a>>)
         /\ \A i : ~Contains(j, <<"organizations", i>>)
<1>1. \A a, b : Contains(j, <<a, b>>) => Contains(j, <<a>>)
  BY Below DEF Contains, FromTemplate
<1>2. \A a \in {"organizations", "passthrough", "database"} : ~Contains(j, <<a>>)
  BY Sections
<1>3. QED
  BY <1>1, <1>2, Sections

\* The sections, one by one.
LEMMA LogIsValid ==
  ASSUME NEW j, FromTemplate(j)
  PROVE  LogConfigIsValid(j)
<1>1. TypeAt(j, <<"log">>) = "object"
  BY Objects
<1>2. /\ MustContain(j, <<"log", "level">>, "string") /\ MayContain(j, <<"log", "level">>, "string")
      /\ j[<<"log", "level">>].text \in LogLevels
  BY Leaves, LeafIsThere, TemplateHas DEF IsOneOf, FromTemplate
<1>3. TextAt(j, <<"log", "level">>, "info") \in LogLevels
  BY <1>2 DEF MustContain, TextAt
<1>4. Contains(j, <<"log", "type">>) => <<"log", "type">> \in DOMAIN j
  <2>1. ASSUME NEW p \in DOMAIN j, Tuples!IsPrefix(<<"log", "type">>, p) PROVE p = <<"log", "type">>
    <3>1. p \in Seq(Keys) /\ Agreeable(p, j[p])
      BY DEF FromTemplate
    <3>2. Len(p) = 2 /\ p[1] = "log" /\ p[2] = "type"
      BY <2>1, <3>1, Below, AgreeableShape
    <3>3. QED
      BY <3>1, <3>2, LogPaths, SamePair DEF Two
  <2>2. QED
    BY <2>1 DEF Contains
<1>5. /\ MayContain(j, <<"log", "type">>, "string")
      /\ TextAt(j, <<"log", "type">>, "text") \in LogTypes
  <2>1. CASE Contains(j, <<"log", "type">>)
    <3>1. j[<<"log", "type">>].type = "string" /\ j[<<"log", "type">>].text \in LogTypes
      BY <1>4, <2>1, Leaves DEF IsOneOf
    <3>2. QED
      BY <1>4, <2>1, <3>1, LeafIsThere DEF TextAt
  <2>2. CASE ~Contains(j, <<"log", "type">>)
    BY <2>2 DEF MayContain, TextAt, LogTypes
  <2>3. QED
    BY <2>1, <2>2
<1>6. QED
  BY <1>1, <1>2, <1>3, <1>5 DEF LogConfigIsValid, LogLevels, LogTypes

LEMMA NetworkIsValid ==
  ASSUME NEW j, FromTemplate(j), NEW files
  PROVE  NetworkConfigIsValid(j, files)
<1>1. MustContain(j, <<"network">>, "object")
  BY Objects, Present DEF MustContain
<1>2. /\ MustContain(j, <<"network", "payment_address">>, "string")
      /\ ReadsAs(j, <<"network", "payment_address">>, "address")
  BY Leaves, LeafIsThere, TemplateHas DEF CanBeReadAs, FromTemplate, ReadsAs
<1>3. /\ MayContain(j, <<"network", "name">>, "string")
      /\ TextAt(j, <<"network", "name">>, "machinepal-easynet") = "machinepal-easynet"
  BY Leaves, LeafIsThere, TemplateHas DEF IsText, FromTemplate, TextAt
<1>4. /\ ~Contains(j, <<"network", "client_wallet_key_file">>)
      /\ ~MustContain(j, <<"network", "facilitator">>, "object")
  BY NothingElse DEF MustContain
<1>5. QED
  BY <1>1, <1>2, <1>3, <1>4 DEF NetworkConfigIsValid

LEMMA OrganizationsAreNone ==
  ASSUME NEW j, FromTemplate(j), NEW files
  PROVE  OrganizationsAreValid(j, files)
<1>1. Items(j, <<"organizations">>) = {}
  <2>1. ASSUME NEW i PROVE ~Contains(j, Append(<<"organizations">>, i))
    BY AppendOne, NothingElse
  <2>2. QED
    BY <2>1 DEF Items
<1>2. MayContain(j, <<"organizations">>, "array")
  BY NothingElse DEF MayContain
<1>3. QED
  BY <1>1, <1>2, Zenon DEF OrganizationsAreValid

LEMMA NoPassThrough ==
  ASSUME NEW j, FromTemplate(j)
  PROVE  PassThroughConfigIsValid(j, <<>>)
<1>1. Key(<<>>, "passthrough") = <<"passthrough">>
  BY AppendNone DEF Key
<1>2. ~Contains(j, Key(<<>>, "passthrough"))
  BY <1>1, NothingElse
<1>3. QED
  BY <1>2, Zenon DEF PassThroughConfigIsValid

\* Certificate, key and the resource of the template are there and go together.
FilesAreThere(files) ==
  /\ \A f \in {"cert", "certKey", "hello"} : checkFileExistsAndReadableAndResolve(files, f)
  /\ doThoroughKeyCertFormatCheck(files["cert"], files["certKey"])

\* A leaf that names one of the files.
LEMMA FileIsNamed ==
  ASSUME NEW j, FromTemplate(j), NEW files, FilesAreThere(files), NEW p \in DOMAIN j,
         NEW f \in {"cert", "certKey", "hello"}, IsText(j[p], f)
  PROVE  NamesFile(j, p, files)
BY LeafIsThere DEF IsText, NamesFile, FilesAreThere

LEMMA ResourceIsValid ==
  ASSUME NEW j, FromTemplate(j), NEW files, FilesAreThere(files), NEW i \in {"0", "1"}
  PROVE  ResourceConfigIsValid(j, <<"resources", i>>, files)
<1> DEFINE At(k) == <<"resources", i, k>>
<1>1. ASSUME NEW k PROVE Key(<<"resources", i>>, k) = At(k)
  BY AppendTwo DEF Key
<1>2. At("name") \in DOMAIN j /\ At("type") \in DOMAIN j /\ At("location") \in DOMAIN j
      /\ At("price") \in DOMAIN j /\ At("token") \in DOMAIN j
  BY TemplateHas DEF FromTemplate
<1>3. /\ MustContain(j, At("name"), "string") /\ MustContain(j, At("token"), "string")
      /\ \E number \in {"integer", "float"} : MustContain(j, At("price"), number)
      /\ j[At("price")].number >= 0
  <2>1. IsString(j[At("name")]) /\ IsString(j[At("token")]) /\ IsPrice(j[At("price")])
    BY Leaves
  <2> HIDE DEF At
  <2>2. QED
    BY <1>2, <2>1, LeafIsThere DEF IsString, IsPrice
<1>4. /\ MustContain(j, At("type"), "string") /\ MustContain(j, At("location"), "string")
      /\ \/ j[At("type")].text = "local_file" /\ NamesFile(j, At("location"), files)
         \/ j[At("type")].text \in {"api-jsonrpc", "api-rest"} /\ ReadsAs(j, At("location"), "url")
  <2>1. CASE i = "0"
    <3>1. IsText(j[At("type")], "local_file") /\ IsText(j[At("location")], "hello")
      BY <2>1, Leaves
    <3> HIDE DEF At
    <3>2. QED
      BY <1>2, <3>1, LeafIsThere, FileIsNamed DEF IsText
  <2>2. CASE i = "1"
    <3>1. IsText(j[At("type")], "api-rest") /\ CanBeReadAs(j[At("location")], "url")
      BY <2>2, Leaves
    <3> HIDE DEF At
    <3>2. QED
      BY <1>2, <3>1, LeafIsThere DEF IsText, CanBeReadAs, ReadsAs
  <2>3. QED
    BY <2>1, <2>2
<1> HIDE DEF At
<1>5. QED
  BY <1>1, <1>3, <1>4 DEF ResourceConfigIsValid

LEMMA TemplateResources ==
  ASSUME NEW j, FromTemplate(j), NEW files, FilesAreThere(files)
  PROVE  ResourcesAreValid(j, <<>>, files)
<1>1. Key(<<>>, "resources") = <<"resources">>
  BY AppendNone DEF Key
<1>2. ASSUME NEW i PROVE Append(<<"resources">>, i) = <<"resources", i>> /\ <<"resources">> \o <<i>> = <<"resources", i>>
  BY AppendOne
<1>3. Items(j, <<"resources">>) = {"0", "1"}
  <2>1. \A i \in Index : Contains(j, <<"resources", i>>) <=> i \in {"0", "1"}
    BY Sections, Present DEF Index
  <2>2. "0" \in Index /\ "1" \in Index
    BY DEF Index
  <2>3. \A i : Append(<<"resources">>, i) = <<"resources", i>>
    BY <1>2
  <2>4. \A i : i \in Items(j, <<"resources">>) <=> i \in {"0", "1"}
    BY <2>1, <2>2, <2>3, Zenon DEF Items
  <2>5. QED
    BY <2>4
<1>4. MayContain(j, <<"resources">>, "array")
  BY <1>3, Objects DEF MayContain, TypeAt
<1>5. \A i \in Items(j, <<"resources">>) : ResourceConfigIsValid(j, <<"resources">> \o <<i>>, files)
  BY <1>2, <1>3, ResourceIsValid
<1>6. QED
  BY <1>1, <1>4, <1>5, Zenon DEF ResourcesAreValid

\* Both servers are on, though the template calls the option by another name.
LEMMA TemplateServers ==
  ASSUME NEW j, FromTemplate(j), NEW files, FilesAreThere(files)
  PROVE  /\ ServerConfigIsValid(j, files)
         /\ ListenPort(j, "http") # ListenPort(j, "https")
<1> DEFINE http == Section("http")
           https == Section("https")
<1>1. http = <<"server", "http">> /\ https = <<"server", "https">>
  BY DEF Section
<1>2. ASSUME NEW k PROVE Key(http, k) = <<"server", "http", k>> /\ Key(https, k) = <<"server", "https", k>>
  BY AppendTwo DEF Key, Section
<1> HIDE DEF http, https
<1>3. /\ Contains(j, http) /\ TypeAt(j, http) = "object"
      /\ Contains(j, https) /\ TypeAt(j, https) = "object"
  BY <1>1, Present, Objects
<1>4. /\ ~Contains(j, Key(http, "enabled")) /\ ~Contains(j, Key(https, "enabled"))
      /\ ~Contains(j, Key(https, "ca_file")) /\ ~Contains(j, Key(https, "key_pass_file"))
  BY <1>2, NothingElse
<1>5. Enabled(j, http) /\ Enabled(j, https)
  BY <1>3, <1>4, Zenon DEF Enabled
<1>6. /\ Key(http, "port") \in DOMAIN j /\ IsPort8080(j[Key(http, "port")])
      /\ Key(https, "port") \in DOMAIN j /\ IsPort8443(j[Key(https, "port")])
      /\ Key(https, "cert_file") \in DOMAIN j /\ IsText(j[Key(https, "cert_file")], "cert")
      /\ Key(https, "key_file") \in DOMAIN j /\ IsText(j[Key(https, "key_file")], "certKey")
  BY <1>2, TemplateHas, Leaves DEF FromTemplate
<1>7. /\ PortIsValid(j, http) /\ PortAt(j, http) = 8080
      /\ PortIsValid(j, https) /\ PortAt(j, https) = 8443
  <2>1. /\ Contains(j, Key(http, "port")) /\ MayContain(j, Key(http, "port"), "integer")
        /\ Contains(j, Key(https, "port")) /\ MayContain(j, Key(https, "port"), "integer")
    BY <1>6, LeafIsThere DEF IsPort8080, IsPort8443
  <2>2. PortAt(j, http) = 8080 /\ PortAt(j, https) = 8443
    BY <1>6, <2>1 DEF PortAt, IsPort8080, IsPort8443
  <2>3. QED
    BY <2>1, <2>2 DEF PortIsValid, Port
<1>8. HTTPConfigIsValid(j)
  BY <1>3, <1>4, <1>7 DEF HTTPConfigIsValid, MayContain, http
<1>9. HTTPSConfigIsValid(j, files)
  <2>1. NamesFile(j, Key(https, "cert_file"), files) /\ NamesFile(j, Key(https, "key_file"), files)
    BY <1>6, FileIsNamed
  <2>2. doThoroughKeyCertFormatCheck(files[j[Key(https, "cert_file")].text],
                                     files[j[Key(https, "key_file")].text])
    BY <1>6 DEF IsText, FilesAreThere
  <2>3. OptionalFile(j, Key(https, "ca_file"), files) /\ OptionalFile(j, Key(https, "key_pass_file"), files)
    BY <1>4 DEF OptionalFile
  <2>4. MayContain(j, Key(https, "enabled"), "boolean")
    BY <1>4 DEF MayContain
  <2>5. PortIsValid(j, https)
    BY <1>7
  <2>6. QED
    BY <1>3, <2>1, <2>2, <2>3, <2>4, <2>5, Zenon DEF HTTPSConfigIsValid, https
<1>10. /\ MustContain(j, <<"server", "hostname">>, "string")
       /\ ReadsAs(j, <<"server", "hostname">>, "hostname")
  BY TemplateHas, Leaves, LeafIsThere DEF FromTemplate, CanBeReadAs, ReadsAs
<1>11. MustContain(j, <<"server">>, "object") /\ ~Contains(j, <<"server", "bind_ip">>)
  BY Present, Objects, NothingElse DEF MustContain
<1>12. ServerConfigIsValid(j, files)
  BY <1>5, <1>8, <1>9, <1>10, <1>11, Zenon DEF ServerConfigIsValid, MayContain, http
<1>13. ListenPort(j, "http") # ListenPort(j, "https")
  BY <1>5, <1>7 DEF ListenPort, http, https
<1>14. QED
  BY <1>12, <1>13

\* A document of which no leaf is a section, with overrides of nothing but the log.
LEMMA TemplateOverrides ==
  ASSUME NEW overrides, Harmless(overrides)
  PROVE  Converts(kYamlTemplate) /\ OverridesApply(yamlToJson(kYamlTemplate), overrides)
<1>1. Converts(kYamlTemplate)
  BY TemplateAgrees DEF Converts
<1>2. ASSUME NEW o \in Given(overrides), NEW p \in DOMAIN kYamlTemplate, Tuples!IsStrictPrefix(p, o.path)
      PROVE  FALSE
  <2>1. o.key \in HarmlessKey /\ o \in OverrideTable
    BY DEF Given, Harmless, HarmlessKey
  <2>2. o.path \in Seq(Keys) /\ Len(o.path) = 2
    BY <2>1, HarmlessTargets, LogPaths DEF Two
  <2>3. p \in Seq(Keys) /\ Len(p) >= 2
    BY TemplatePaths, TemplateAgrees, AgreeableShape
  <2>4. Tuples!IsPrefix(p, o.path) /\ p # o.path
    BY <1>2 DEF Tuples!IsStrictPrefix
  <2>5. Len(p) = 2 /\ p[1] = o.path[1] /\ p[2] = o.path[2]
    BY <2>2, <2>3, <2>4, Prefixes
  <2>6. QED
    BY <2>2, <2>3, <2>4, <2>5, SamePair
<1>3. \A o \in Given(overrides) : o.type = "string"
  BY HarmlessTargets DEF Given, Harmless, HarmlessKey
<1>4. OverridesApply(yamlToJson(kYamlTemplate), overrides)
  BY <1>2, <1>3 DEF OverridesApply, yamlToJson
<1>5. QED
  BY <1>1, <1>4

\* What the generator writes is what the reader accepts.
LEMMA TemplateLoads ==
  ASSUME NEW overrides, Harmless(overrides), NEW files, FilesAreThere(files)
  PROVE  /\ Loads(kYamlTemplate, overrides, files)
         /\ Loaded(kYamlTemplate, overrides).http # Loaded(kYamlTemplate, overrides).https
         /\ Loaded(kYamlTemplate, overrides).caFile = ""
<1> DEFINE j == applyEnvOverrides(yamlToJson(kYamlTemplate), overrides)
           loaded == Loaded(kYamlTemplate, overrides)
<1>1. FromTemplate(j)
  BY OverriddenTemplate DEF FromTemplate
<1> HIDE DEF j
<1>2. createFromJson(j, files)
  BY <1>1, TemplateServers, LogIsValid, TemplateResources, NoPassThrough, NetworkIsValid,
     OrganizationsAreNone DEF createFromJson
<1>3. resolveSecrets(j)
  BY <1>1, NothingElse DEF resolveSecrets, MustContain
<1>4. validateJson(j)
  BY <1>1, TemplateHas, Objects DEF validateJson, MayContain, FromTemplate
<1>5. Loads(kYamlTemplate, overrides, files)
  BY <1>2, <1>3, <1>4, TemplateOverrides, Zenon DEF Loads, j
<1>6. ~Contains(j, <<"server", "https", "ca_file">>)
  BY <1>1, NothingElse
<1>7. ListenPort(j, "http") # ListenPort(j, "https")
  BY <1>1, TemplateServers
<1>8. /\ loaded.http = ListenPort(j, "http")
      /\ loaded.https = ListenPort(j, "https")
      /\ loaded.caFile = TextAt(j, <<"server", "https", "ca_file">>, "")
  BY DEF Loaded, j
<1> HIDE DEF loaded
<1>9. TextAt(j, <<"server", "https", "ca_file">>, "") = ""
  BY <1>6 DEF TextAt
<1>10. loaded.http # loaded.https
  BY <1>7, <1>8, Zenon
<1>11. loaded.caFile = ""
  BY <1>8, <1>9, Zenon
<1>12. QED
  BY <1>5, <1>10, <1>11 DEF loaded

\* The launch of a complete project: nothing has failed, and nothing will.
Unharmed ==
  /\ code # 1 /\ result # 1 /\ ~failed /\ exitCode = 0 /\ server \notin {"onError", "threw"}
  /\ process \in {"fetching", "checking", "loading"} =>
       Harmless(given.environment) /\ Harmless(given.commandLine)
  /\ process \in {"opening", "running"} => PortsDiffer /\ CertificatesLoad

\* Nothing is left of an earlier launch.
NotRunning == server = "none" /\ ~failed /\ exitCode = 0 /\ result = NoResult

\* The inductive invariant, relative to ConfigurationComesLast.
StartInv ==
  /\ process # "running" => NotRunning
  /\ flawless => Unharmed

\* What is harmless in environment and command line is so together.
LEMMA HarmlessTogether ==
  ASSUME NEW environment, NEW commandLine, Harmless(environment), Harmless(commandLine)
  PROVE  Harmless(Overloads(environment, commandLine))
<1> DEFINE both == Overloads(environment, commandLine)
<1>1. /\ DOMAIN both = DOMAIN environment \cup DOMAIN commandLine
      /\ \A k \in DOMAIN both : both[k] = IF k \in DOMAIN commandLine THEN commandLine[k] ELSE environment[k]
  BY DEF Overloads
<1> HIDE DEF both
<1>2. \A k \in DOMAIN environment \cup DOMAIN commandLine : k \in {"LOG_LEVEL", "LOG_TYPE", "HTTP_PORT", "HOSTNAME", "BIND_IP"}
  BY DEF Harmless
<1>3. ASSUME NEW k, NEW range, InRange(environment, k, range), InRange(commandLine, k, range)
      PROVE  InRange(both, k, range)
  BY <1>1, <1>3 DEF InRange
<1>4. QED
  BY <1>1, <1>2, <1>3 DEF Harmless, both

LEMMA HarmlessParses ==
  ASSUME Harmless(given.environment), Harmless(given.commandLine)
  PROVE  Parses
BY HarmlessTogether DEF Harmless, Parses

\* What a complete project holds for the reader.
LEMMA ProjectFiles ==
  ASSUME ConfigurationComesLast, content["config"] \in Command, ~overlapped, shortfall = {}
  PROVE  FilesAreThere(Files) /\ Files["cert"].content = Files["certKey"].content
<1>1. /\ {"cert", "certKey", "hello", "config"} \subseteq G!File
      /\ \A f \in {"data", "secrets"} : f \notin {"cert", "certKey", "hello"}
  BY DEF G!File, G!Secret
<1>2. \A f \in G!File : content[f] = content["config"]
  BY DEF ConfigurationComesLast, G!ConfigurationComesLast
<1>3. \A f \in G!File : content[f] # "absent" /\ content[f] # "short"
  BY <1>2, CommandAssumption
<1>4. ASSUME NEW f \in {"cert", "certKey", "hello"}
      PROVE  /\ f \in DOMAIN Files /\ ~Files[f].climbs /\ Files[f].kind = "regular" /\ Files[f].readable
             /\ Files[f].content = content["config"]
  <2>1. f \in G!File /\ content[f] # "absent" /\ content[f] = content["config"]
    BY <1>1, <1>2, <1>3
  <2>2. f \notin {"data", "secrets"} /\ f # "../cert"
    OBVIOUS
  <2>3. QED
    BY <2>1, <2>2 DEF Files
<1>5. \A f \in {"cert", "certKey", "hello"} : checkFileExistsAndReadableAndResolve(Files, f)
  BY <1>4 DEF checkFileExistsAndReadableAndResolve
<1>6. doThoroughKeyCertFormatCheck(Files["cert"], Files["certKey"])
  BY <1>1, <1>3, <1>4 DEF doThoroughKeyCertFormatCheck
<1>7. QED
  BY <1>4, <1>5, <1>6 DEF FilesAreThere

\* What is read of a complete project is fit to run.
LEMMA LoadingSucceeds ==
  ASSUME LoadConfiguration, ConfigurationComesLast, flawless, Unharmed, flawless'
  PROVE  process' = "opening" /\ code' = code /\ PortsDiffer' /\ CertificatesLoad'
<1> DEFINE overrides == Overloads(given.environment, given.commandLine)
<1>1. /\ document = "generated" /\ content["config"] \in Command /\ ~overlapped /\ shortfall = {}
      /\ process = "loading"
  BY DEF LoadConfiguration
<1>2. Harmless(overrides)
  BY <1>1, HarmlessTogether DEF Unharmed
<1> HIDE DEF overrides
<1>3. FilesAreThere(Files) /\ Files["cert"].content = Files["certKey"].content
  BY <1>1, ProjectFiles
<1>4. ConfigPath(overrides) = "config"
  BY <1>2 DEF Harmless, ConfigPath
<1>5. content["config"] # "short" /\ content["config"] # "absent"
  BY <1>1, CommandAssumption
<1>6. Loads(kYamlTemplate, overrides, Files) /\ DOMAIN kYamlTemplate # {}
  BY <1>2, <1>3, TemplateLoads, TemplateHas
<1>7. Document = kYamlTemplate
  BY <1>1 DEF Document
<1>8. process' = "opening" /\ settings' = Loaded(kYamlTemplate, overrides) /\ code' = code
  BY <1>4, <1>5, <1>6, <1>7 DEF LoadConfiguration, overrides
<1>9. Files' = Files
  BY DEF LoadConfiguration, Files, project, G!File, G!Secret
<1>10. settings'.http # settings'.https /\ settings'.caFile = ""
  BY <1>2, <1>3, <1>8, TemplateLoads
<1>11. QED
  BY <1>3, <1>8, <1>9, <1>10 DEF PortsDiffer, CertificatesLoad

\* A step of the application on settings that are fit to run.
LEMMA RunningSucceeds ==
  ASSUME NEW ACTION step, Runs(step), step => [Next]_vars, flawless, Unharmed, flawless'
  PROVE  Unharmed'
<1>1. PortsDiffer /\ CertificatesLoad /\ [Next]_vars /\ process' = process /\ code' = code
  BY DEF Runs, Unharmed
<1>2. /\ ~(main = "init" /\ main' = "returned")
      /\ server = "binding" => ~failed'
  BY <1>1 DEF Runs
<1>3. result' # 1 /\ ~failed' /\ exitCode' = 0 /\ server' \notin {"onError", "threw"}
  <2>1. CASE UNCHANGED vars
    BY <2>1 DEF vars, flags, proxygen, Unharmed
  <2>2. CASE MainThread
    BY <1>2, <2>2 DEF MainThread, StartServerThread, CreateThrows, Poll, SelfTest, LeaveLoop, AfterLoop,
          MainStops, MainCallsStop, WaitForExit, Join, ProxygenStop, MainGoes, flags, proxygen, Unharmed
  <2>3. CASE OwnerAsks \/ OwnerThread
    BY <2>3 DEF OwnerAsks, OwnerThread, OwnerStops, OwnerCallsStop, ProxygenStop, flags, proxygen, Unharmed
  <2>4. CASE ServerThread
    BY <1>2, <2>4 DEF ServerThread, EnterStart, Bind, OnSuccess, LoopEnds, OnError, StartReturned, StartThrew,
          ServerGoes, SetExited, flags, proxygen, Unharmed
  <2>5. CASE Signal
    BY <2>5 DEF Signal, flags, proxygen, Unharmed
  <2>6. CASE Terminated \/ Running
    BY <2>6 DEF Terminated, Running, vars, flags, proxygen, Unharmed
  <2>7. QED
    BY <1>1, <2>1, <2>2, <2>3, <2>4, <2>5, <2>6 DEF Next
<1>4. PortsDiffer' /\ CertificatesLoad'
  <2>1. Files' = Files /\ settings' = settings
    BY DEF Runs, Files, project, G!File, G!Secret
  <2>2. QED
    BY <1>1, <2>1 DEF PortsDiffer, CertificatesLoad
<1>5. process = "running"
  BY DEF Runs
<1>6. QED
  BY <1>1, <1>3, <1>4, <1>5 DEF Unharmed

LEMMA StartStep ==
  StartInv /\ ConfigurationComesLast /\ [ProcessNext]_processVars => StartInv'
<1> SUFFICES ASSUME StartInv, ConfigurationComesLast, [ProcessNext]_processVars PROVE StartInv'
  OBVIOUS
<1> USE DEF vars, flags, proxygen
<1>1. CASE Initialize
  BY <1>1 DEF Initialize, StartInv, NotRunning
<1>2. CASE Edit \/ UNCHANGED processVars
  <2>1. UNCHANGED <<vars, project, launch>>
    BY <1>2 DEF Edit, processVars
  <2>2. Files' = Files
    BY <2>1 DEF Files, project, G!File, G!Secret
  <2>3. PortsDiffer' = PortsDiffer /\ CertificatesLoad' = CertificatesLoad
    BY <2>1, <2>2 DEF launch, PortsDiffer, CertificatesLoad
  <2>4. QED
    BY <2>1, <2>3 DEF launch, StartInv, NotRunning, Unharmed
<1>3. CASE Launch
  BY <1>3, TickAssumption DEF Launch, StartInv, NotRunning, Unharmed
<1>4. CASE ParseOverloads
  <2>1. process' # "running" /\ NotRunning'
    BY <1>4 DEF ParseOverloads, Exit, StartInv, NotRunning
  <2>2. ASSUME flawless' PROVE Unharmed'
    <3>1. flawless /\ Harmless(given.environment) /\ Harmless(given.commandLine) /\ Unharmed
      BY <1>4, <2>2 DEF ParseOverloads, StartInv
    <3>2. Parses
      BY <3>1, HarmlessParses
    <3>3. process' = "fetching" /\ given' = given /\ code' = code
      BY <1>4, <3>2 DEF ParseOverloads
    <3>4. Harmless(given.environment)' /\ Harmless(given.commandLine)'
      BY <3>1, <3>3 DEF Harmless, InRange, LogLevels, LogTypes
    <3>5. QED
      BY <1>4, <3>1, <3>3, <3>4 DEF ParseOverloads, Unharmed
  <2>3. QED
    BY <2>1, <2>2 DEF StartInv
<1>5. CASE FetchInternetTime \/ CheckSystemTime
  <2>1. process' # "running" /\ NotRunning'
    BY <1>5 DEF FetchInternetTime, CheckSystemTime, Exit, StartInv, NotRunning
  <2>2. ASSUME flawless' PROVE Unharmed'
    <3>1. /\ flawless /\ Unharmed /\ process \in {"fetching", "checking"}
          /\ process' \in {"checking", "loading"} /\ UNCHANGED <<given, code, vars>>
      BY <1>5, <2>2 DEF FetchInternetTime, CheckSystemTime, StartInv
    <3>2. Harmless(given.environment)' /\ Harmless(given.commandLine)'
      BY <3>1 DEF Unharmed, Harmless, InRange, LogLevels, LogTypes
    <3>3. QED
      BY <3>1, <3>2 DEF Unharmed
  <2>3. QED
    BY <2>1, <2>2 DEF StartInv
<1>6. CASE LoadConfiguration
  <2>1. process' # "running" /\ NotRunning'
    BY <1>6 DEF LoadConfiguration, Exit, StartInv, NotRunning
  <2>2. ASSUME flawless' PROVE Unharmed'
    <3>1. flawless /\ Unharmed /\ UNCHANGED vars
      BY <1>6, <2>2 DEF LoadConfiguration, StartInv
    <3>2. process' = "opening" /\ code' = code /\ PortsDiffer' /\ CertificatesLoad'
      BY <1>6, <2>2, <3>1, LoadingSucceeds
    <3>3. QED
      BY <3>1, <3>2 DEF Unharmed
  <2>3. QED
    BY <2>1, <2>2 DEF StartInv
<1>7. CASE OpenDatabase
  <2>1. NotRunning /\ UNCHANGED vars
    BY <1>7 DEF OpenDatabase, StartInv
  <2>2. process' # "running" => NotRunning'
    BY <2>1 DEF NotRunning
  <2>3. ASSUME flawless' PROVE Unharmed'
    <3>1. /\ flawless /\ Unharmed /\ process = "opening" /\ process' = "running"
          /\ UNCHANGED <<code, settings, project>>
      BY <1>7, <2>3 DEF OpenDatabase, Exit, StartInv
    <3>2. Files' = Files
      BY <3>1 DEF Files, project, G!File, G!Secret
    <3>3. PortsDiffer' /\ CertificatesLoad'
      BY <3>1, <3>2 DEF Unharmed, PortsDiffer, CertificatesLoad
    <3>4. QED
      BY <2>1, <3>1, <3>3 DEF Unharmed
  <2>4. QED
    BY <2>2, <2>3 DEF StartInv
<1>8. ASSUME NEW ACTION step, Runs(step), step => [Next]_vars PROVE StartInv'
  <2>1. process' = "running" /\ (flawless' => flawless)
    BY <1>8 DEF Runs
  <2>2. QED
    BY <1>8, <2>1, RunningSucceeds DEF StartInv
<1>9. CASE \/ Runs(MainThread)
           \/ Runs(OwnerAsks)
           \/ Runs(OwnerThread)
           \/ Runs(ServerThread)
           \/ Runs(Signal)
  <2>1. (MainThread \/ OwnerAsks \/ OwnerThread \/ ServerThread \/ Signal) => [Next]_vars
    BY DEF Next
  <2>2. QED
    BY <1>8, <1>9, <2>1
<1>10. CASE MainReturns
  BY <1>10, TickAssumption DEF MainReturns, Exit, StartInv, NotRunning, Unharmed
<1>11. QED
  BY <1>1, <1>2, <1>3, <1>4, <1>5, <1>6, <1>7, <1>9, <1>10 DEF ProcessNext, Start

\* What `machinepal init` made starts as it is: the template, the rules of the reader,
\* the files of the generator and what is asked of certificates and ports agree.
THEOREM ProjectStarts == ProcessSpec => []InitializedProjectStarts
<1>1. ProcessInit => StartInv
  BY DEF ProcessInit, Init, StartInv, NotRunning
<1>2. StartInv => InitializedProjectStarts
  BY DEF StartInv, Unharmed, InitializedProjectStarts
<1>3. ProcessInv => ConfigurationComesLast
  BY DEF ProcessInv, GeneratorInv
<1>4. StartInv /\ ProcessInv /\ [ProcessNext]_processVars => StartInv'
  BY <1>3, StartStep
<1>5. QED
  BY <1>1, <1>2, <1>4, ProcessInvHolds, PTL DEF ProcessSpec
=============================================================================
