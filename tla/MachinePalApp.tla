---------------------------- MODULE MachinePalApp ----------------------------
(***************************************************************************)
(* The life of the process (MachinePalApp.cpp): runUntilExit starts        *)
(* proxygen on a server thread and polls an exit flag and the last signal  *)
(* every 100 ms, with a self test of the facilitator at the tenth tick;    *)
(* after a signal it stops the server, waits for the flag and joins the    *)
(* thread.  An owner of the application (the test fixture) may call        *)
(* stopServer from a thread of its own once isStarted() is true.           *)
(*                                                                         *)
(* What proxygen does is external.  HTTPServer::start binds its sockets,   *)
(* reports a failure to onError and returns, or reports to onSuccess from  *)
(* its event loop and returns when stop has ended the loop;                *)
(* HTTPServer::stop ends the loop of a server that has entered start, and  *)
(* finds nothing to end before.                                            *)
(***************************************************************************)
EXTENDS Naturals

CONSTANTS SelfTestTick,   (* the tick of the self test: 10 *)
          NoResult        (* runUntilExit has not returned *)

ASSUME TickAssumption == SelfTestTick \in Nat \ {0} /\ NoResult \notin {0, 1}

VARIABLES
  main,              (* where runUntilExit is *)
  owner,             (* where the owner's call of stopServer is *)
  server,            (* where the server thread is *)
  counter,           (* ticks, counted up to just after the self test *)
  sigReceived,       (* the last signal *)
  isStarted,         (* MachinePalApp::isStarted_ *)
  isExited,          (* MachinePalApp::isExited_ *)
  exitCode,          (* MachinePalApp::exitCode_ *)
  serverStopCalled,  (* MachinePalApp::serverStopCalled_ *)
  stopped,           (* proxygen's loop was told to end *)
  stops,             (* history: calls of HTTPServer::stop *)
  failed,            (* history: the server failed to start *)
  result             (* what runUntilExit returned *)

flags == <<isStarted, isExited, exitCode>>
proxygen == <<server, stopped, failed>>
vars == <<main, owner, counter, sigReceived, flags, serverStopCalled, proxygen, stops, result>>

Main == {"init", "polling", "selfTest", "left", "stopping", "stopCall", "waiting",
         "joining", "returned"}
Owner == {"none", "stopping", "stopCall", "done"}
Server == {"none", "starting", "binding", "serving", "onError", "threw", "returning", "ended"}

Init ==
  /\ main = "init" /\ owner = "none" /\ server = "none"
  /\ counter = 0
  /\ sigReceived = "none"
  /\ isStarted = FALSE /\ isExited = FALSE /\ exitCode = 0
  /\ serverStopCalled = FALSE /\ stopped = FALSE
  /\ stops = 0 /\ failed = FALSE
  /\ result = NoResult

MainGoes(from, to) == main = from /\ main' = to
ServerGoes(from, to) == server = from /\ server' = to

SetExited(code) == isExited' = TRUE /\ exitCode' = code

\* SIGINT and SIGTERM: the handler stores the number, the last one wins.
Signal ==
  /\ main # "returned"
  /\ \E s \in {"SIGINT", "SIGTERM"} : sigReceived' = s
  /\ UNCHANGED <<main, owner, counter, flags, serverStopCalled, proxygen, stops, result>>
-----------------------------------------------------------------------------
(***************************************************************************)
(* The main thread                                                         *)
(***************************************************************************)

\* The server is created and its thread started.
StartServerThread ==
  /\ MainGoes("init", "polling")
  /\ server' = "starting"
  /\ UNCHANGED <<owner, counter, sigReceived, flags, serverStopCalled, stopped, failed, stops, result>>

\* createServerInstance throws: no thread was started yet.
CreateThrows ==
  /\ MainGoes("init", "returned")
  /\ result' = 1
  /\ UNCHANGED <<owner, counter, sigReceived, flags, serverStopCalled, proxygen, stops>>

\* Faulty variant: the counter is incremented twice per round.
PollCountingTwice ==
  /\ ~isExited /\ sigReceived = "none"
  /\ counter <= SelfTestTick
  /\ MainGoes("polling", IF counter + 1 = SelfTestTick THEN "selfTest" ELSE "polling")
  /\ counter' = counter + 2
  /\ UNCHANGED <<owner, sigReceived, flags, serverStopCalled, proxygen, stops, result>>

\* One round of the loop.  Once the self test is past, nothing depends on the
\* counter, which stays where it is (Running).
Poll ==
  /\ ~isExited /\ sigReceived = "none"
  /\ counter <= SelfTestTick
  /\ MainGoes("polling", IF counter + 1 = SelfTestTick THEN "selfTest" ELSE "polling")
  /\ counter' = counter + 1
  /\ UNCHANGED <<owner, sigReceived, flags, serverStopCalled, proxygen, stops, result>>

\* The self test passes, fails or throws.
SelfTest ==
  /\ MainGoes("selfTest", "polling")
  /\ UNCHANGED <<owner, counter, sigReceived, flags, serverStopCalled, proxygen, stops, result>>

LeaveLoop ==
  /\ isExited \/ sigReceived # "none"
  /\ MainGoes("polling", "left")
  /\ UNCHANGED <<owner, counter, sigReceived, flags, serverStopCalled, proxygen, stops, result>>

\* A signal that came after the loop was left for another reason counts, too.
AfterLoop ==
  /\ MainGoes("left", IF sigReceived # "none" THEN "stopping" ELSE "waiting")
  /\ UNCHANGED <<owner, counter, sigReceived, flags, serverStopCalled, proxygen, stops, result>>

\* Faulty variant: no early return.
ExchangeIgnored == serverStopCalled' = TRUE

\* serverStopCalled_.exchange( true )
Exchange == ~serverStopCalled /\ serverStopCalled' = TRUE

MainStops ==
  /\ \/ Exchange /\ MainGoes("stopping", "stopCall")
     \/ serverStopCalled /\ UNCHANGED serverStopCalled /\ MainGoes("stopping", "waiting")
  /\ UNCHANGED <<owner, counter, sigReceived, flags, proxygen, stops, result>>

\* HTTPServer::stop
ProxygenStop ==
  /\ stops' = stops + 1
  /\ stopped' = (stopped \/ server \notin {"none", "starting"})
  /\ UNCHANGED <<counter, sigReceived, flags, serverStopCalled, server, failed, result>>

MainCallsStop == MainGoes("stopCall", "waiting") /\ ProxygenStop /\ UNCHANGED owner

WaitForExit ==
  /\ isExited
  /\ MainGoes("waiting", "joining")
  /\ UNCHANGED <<owner, counter, sigReceived, flags, serverStopCalled, proxygen, stops, result>>

\* Faulty variant: detach instead of join.
ReturnWithoutJoin ==
  /\ MainGoes("joining", "returned")
  /\ result' = exitCode
  /\ UNCHANGED <<owner, counter, sigReceived, flags, serverStopCalled, proxygen, stops>>

Join ==
  /\ server = "ended"
  /\ MainGoes("joining", "returned")
  /\ result' = exitCode
  /\ UNCHANGED <<owner, counter, sigReceived, flags, serverStopCalled, proxygen, stops>>
-----------------------------------------------------------------------------
(***************************************************************************)
(* The owner's thread                                                      *)
(***************************************************************************)
OwnerAsks ==
  /\ isStarted /\ owner = "none" /\ owner' = "stopping"
  /\ UNCHANGED <<main, counter, sigReceived, flags, serverStopCalled, proxygen, stops, result>>

OwnerStops ==
  /\ owner = "stopping"
  /\ \/ Exchange /\ owner' = "stopCall"
     \/ serverStopCalled /\ UNCHANGED serverStopCalled /\ owner' = "done"
  /\ UNCHANGED <<main, counter, sigReceived, flags, proxygen, stops, result>>

OwnerCallsStop == owner = "stopCall" /\ owner' = "done" /\ ProxygenStop /\ UNCHANGED main
-----------------------------------------------------------------------------
(***************************************************************************)
(* The server thread                                                       *)
(***************************************************************************)
EnterStart ==
  /\ ServerGoes("starting", "binding")
  /\ UNCHANGED <<main, owner, counter, sigReceived, flags, serverStopCalled, stopped, failed, stops, result>>

Bind ==
  /\ \/ ServerGoes("binding", "serving") /\ UNCHANGED failed
     \/ \E to \in {"onError", "threw"} : ServerGoes("binding", to) /\ failed' = TRUE
  /\ UNCHANGED <<main, owner, counter, sigReceived, flags, serverStopCalled, stopped, stops, result>>

OnSuccess ==
  /\ server = "serving"
  /\ isStarted' = TRUE
  /\ UNCHANGED <<main, owner, counter, sigReceived, isExited, exitCode, serverStopCalled,
                 proxygen, stops, result>>

LoopEnds ==
  /\ stopped
  /\ ServerGoes("serving", "returning")
  /\ UNCHANGED <<main, owner, counter, sigReceived, flags, serverStopCalled, stopped, failed, stops, result>>

\* setExited( 1, ... ), and start returns.
OnError ==
  /\ ServerGoes("onError", "returning")
  /\ SetExited(1)
  /\ UNCHANGED <<main, owner, counter, sigReceived, isStarted, serverStopCalled, stopped, failed,
                 stops, result>>

\* Faulty variant: setExited() is forgotten.
ReturnSilently ==
  /\ ServerGoes("returning", "ended")
  /\ UNCHANGED <<main, owner, counter, sigReceived, flags, serverStopCalled, stopped, failed, stops, result>>

\* start has returned: setExited() with its default code, whatever came before.
StartReturned ==
  /\ ServerGoes("returning", "ended")
  /\ SetExited(0)
  /\ UNCHANGED <<main, owner, counter, sigReceived, isStarted, serverStopCalled, stopped, failed,
                 stops, result>>

\* The catch clause of the server thread.
StartThrew ==
  /\ ServerGoes("threw", "ended")
  /\ SetExited(1)
  /\ UNCHANGED <<main, owner, counter, sigReceived, isStarted, serverStopCalled, stopped, failed,
                 stops, result>>

Terminated ==
  /\ main = "returned"
  /\ UNCHANGED vars

MainThread ==
  \/ StartServerThread
  \/ CreateThrows
  \/ Poll
  \/ SelfTest
  \/ LeaveLoop
  \/ AfterLoop
  \/ MainStops
  \/ MainCallsStop
  \/ WaitForExit
  \/ Join

OwnerThread == OwnerStops \/ OwnerCallsStop

ServerThread ==
  \/ EnterStart
  \/ Bind
  \/ OnSuccess
  \/ LoopEnds
  \/ OnError
  \/ StartReturned
  \/ StartThrew

\* The rounds after the self test: the process runs on.
Running ==
  /\ main = "polling" /\ counter > SelfTestTick /\ ~isExited /\ sigReceived = "none"
  /\ UNCHANGED vars

Next == MainThread \/ OwnerAsks \/ OwnerThread \/ ServerThread \/ Signal \/ Terminated \/ Running

Spec == Init /\ [][Next]_vars

\* Every thread that can run runs.  The self test ends at curl's timeout; a
\* signal need never come, an owner need never ask.
FairSpec ==
  Spec /\ WF_vars(MainThread) /\ WF_vars(OwnerThread)
       /\ WF_vars(EnterStart) /\ WF_vars(Bind) /\ WF_vars(LoopEnds)
       /\ WF_vars(OnError) /\ WF_vars(StartReturned) /\ WF_vars(StartThrew)
-----------------------------------------------------------------------------
TypeOK ==
  /\ main \in Main /\ owner \in Owner /\ server \in Server
  /\ counter \in 0..SelfTestTick + 1
  /\ sigReceived \in {"none", "SIGINT", "SIGTERM"}
  /\ isStarted \in BOOLEAN /\ isExited \in BOOLEAN /\ exitCode \in {0, 1}
  /\ serverStopCalled \in BOOLEAN /\ stopped \in BOOLEAN /\ failed \in BOOLEAN
  /\ stops \in 0..2
  /\ result \in {0, 1, NoResult}

\* HTTPServer::stop, which joins proxygen's threads, is called at most once,
\* though a signal and an owner may both ask.
StoppedOnce == stops <= 1

\* runUntilExit never returns with the server thread running, which would go on
\* to use an application that is being destroyed.
ServerThreadIsJoined == main = "returned" => server \in {"none", "ended"}

\* Nobody's request to stop, made while the server runs, is forgotten: the
\* signal and the owner may race, the self test may be in progress.
ShutdownEnds ==
  isStarted /\ ~serverStopCalled /\ (sigReceived # "none" \/ owner = "stopping")
    ~> main = "returned"

\* MachinePalApp.cpp: "Error running machinepal server: {}. Server exited." and
\* the return of exitCode_: a server that failed to start ends with an error.
FailureIsReported == main = "returned" /\ failed => result # 0
=============================================================================
