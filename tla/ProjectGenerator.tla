-------------------------- MODULE ProjectGenerator --------------------------
(***************************************************************************)
(* `machinepal init` (admin/ProjectGenerator.cpp): folders, wallet,        *)
(* certificate with its key, a sample resource and, last, the              *)
(* configuration are created one after the other in an empty directory.    *)
(* A command may fail or die between any two operations on the disk; the   *)
(* code cleans up after some failures and leaves the rest to the           *)
(* operator, since a directory that is not empty is refused.               *)
(*                                                                         *)
(* What a file holds is named after the command that wrote it: its wallet  *)
(* key, the address of that key in its configuration, its certificate.     *)
(* A small file reaches the disk when the stream is closed, which nobody   *)
(* checks; so a full disk may leave the file short without a word.         *)
(***************************************************************************)
EXTENDS Naturals, Sequences

CONSTANTS Command   (* invocations of `machinepal init` *)

VARIABLES
  status,      (* of each command *)
  at,          (* index in Order of what it is creating *)
  phase,       (* "check", "create", "write" or "secure" *)
  folder,      (* "absent", "open" to others, or "owner" only *)
  content,     (* of each file: "absent", "short", or the command that wrote it *)
  mode,        (* of each file: "open" or "owner" *)
  shortfall,   (* history: files that a full disk cut short *)
  overlapped   (* history: two commands worked in the directory at once *)

disk == <<folder, content, mode>>
vars == <<status, at, phase, disk, shortfall, overlapped>>

Folder == {"certs", "data", "resources", "secrets"}
Secret == {"wallet", "certKey"}
File == Secret \cup {"cert", "hello", "config"}

\* Faulty variant: the configuration is not the last.
ConfigurationFirst ==
  <<"certs", "data", "resources", "secrets", "config", "wallet", "cert", "certKey", "hello">>

Order == <<"certs", "data", "resources", "secrets", "wallet", "cert", "certKey", "hello", "config">>

\* Faulty variant: only files are secured.
SecuredFiles == Secret \cup {"config"}

\* What is given to its owner only after it was made.
Secured == Folder \cup Secret \cup {"config"}

Init ==
  /\ status = [c \in Command |-> "idle"]
  /\ at = [c \in Command |-> 1]
  /\ phase = [c \in Command |-> "create"]
  /\ folder = [d \in Folder |-> "absent"]
  /\ content = [f \in File |-> "absent"]
  /\ mode = [f \in File |-> "open"]
  /\ shortfall = {} /\ overlapped = FALSE

Item(c) == Order[at[c]]
Running(c) == status[c] = "running"
EmptyDirectory == (\A d \in Folder : folder[d] = "absent") /\ \A f \in File : content[f] = "absent"

\* validateBaseDirEmpty; a directory that is not empty is refused.
Start(c) ==
  /\ ~Running(c) /\ EmptyDirectory
  /\ status' = [status EXCEPT ![c] = "running"]
  /\ overlapped' = (overlapped \/ \E o \in Command : Running(o))
  /\ UNCHANGED <<at, phase, disk, shortfall>>

\* What must not exist when an item is created: both files of the certificate
\* are looked for before the first is written, the sample is overwritten.
MustBeAbsent(i) ==
  CASE i \in {"wallet", "config"} -> {i}
    [] i = "cert" -> {"cert", "certKey"}
    [] OTHER -> {}

FirstPhase(i) == IF MustBeAbsent(i) = {} THEN "create" ELSE "check"

\* The operation on this item that follows, or "done".
NextPhase(i, p) ==
  CASE p = "check" -> "create"
    [] p = "create" /\ i \in File -> "write"
    [] p = "create" /\ i \in Secured \ File -> "secure"
    [] p = "write" /\ i \in Secured -> "secure"
    [] OTHER -> "done"

\* The command is over: it may be given again.
End(c) ==
  /\ status' = [status EXCEPT ![c] = "idle"]
  /\ at' = [at EXCEPT ![c] = 1]
  /\ phase' = [phase EXCEPT ![c] = "create"]
  /\ UNCHANGED overlapped

Proceed(c) ==
  LET next == NextPhase(Item(c), phase[c])
  IN IF next # "done"
     THEN phase' = [phase EXCEPT ![c] = next] /\ UNCHANGED <<status, at, overlapped>>
     ELSE IF at[c] = Len(Order) THEN End(c)
     ELSE /\ at' = [at EXCEPT ![c] = @ + 1]
          /\ phase' = [phase EXCEPT ![c] = FirstPhase(Order[at[c] + 1])]
          /\ UNCHANGED <<status, overlapped>>

Does(c, what) == Running(c) /\ phase[c] = what

\* FolderGenerator::createAndSecure
CreateFolder(c) ==
  /\ Does(c, "create") /\ Item(c) \in Folder
  /\ folder' = [folder EXCEPT ![Item(c)] = IF @ = "absent" THEN "open" ELSE @]
  /\ Proceed(c)
  /\ UNCHANGED <<content, mode, shortfall>>

Secure(c) ==
  /\ Does(c, "secure")
  /\ IF Item(c) \in Folder
     THEN folder' = [folder EXCEPT ![Item(c)] = "owner"] /\ UNCHANGED mode
     ELSE mode' = [mode EXCEPT ![Item(c)] = IF content[Item(c)] = "absent" THEN @ ELSE "owner"] /\ UNCHANGED folder
  /\ Proceed(c)
  /\ UNCHANGED <<content, shortfall>>

\* std::filesystem::exists, some time before the file is opened.
Check(c) ==
  /\ Does(c, "check")
  /\ \A f \in MustBeAbsent(Item(c)) : content[f] = "absent"
  /\ Proceed(c)
  /\ UNCHANGED <<disk, shortfall>>

\* The stream is opened, which creates the file, readable by others, or empties it.
CreateFile(c) ==
  /\ Does(c, "create") /\ Item(c) \in File
  /\ content' = [content EXCEPT ![Item(c)] = "short"]
  /\ mode' = [mode EXCEPT ![Item(c)] = IF content[Item(c)] = "absent" THEN "open" ELSE @]
  /\ Proceed(c)
  /\ UNCHANGED <<folder, shortfall>>

\* Written and closed.  Nobody asks whether close() could write the buffer.
WriteFile(c) ==
  /\ Does(c, "write")
  /\ \/ content' = [content EXCEPT ![Item(c)] = IF @ = "absent" THEN @ ELSE c] /\ UNCHANGED shortfall
     \/ UNCHANGED content /\ shortfall' = shortfall \cup {Item(c)}
  /\ Proceed(c)
  /\ UNCHANGED <<folder, mode>>

\* What is removed when an operation on an item throws.
CleanUp(i, p) ==
  CASE i = "cert" /\ p = "write" -> {"cert"}
    [] i = "certKey" -> IF p = "create" THEN {"cert"} ELSE {"cert", "certKey"}
    [] i = "config" /\ p \in {"write", "secure"} -> {"config"}
    [] OTHER -> {}

\* Creating, writing or chmod fails and is noticed, or a file that must not exist
\* does.  The sample is not looked at once it is open.
Fail(c) ==
  /\ Running(c)
  /\ ~(Item(c) = "hello" /\ phase[c] = "write")
  /\ End(c)
  /\ content' = [f \in File |-> IF f \in CleanUp(Item(c), phase[c]) THEN "absent" ELSE content[f]]
  /\ UNCHANGED <<folder, mode, shortfall>>

\* The process is killed.
Crash(c) ==
  /\ Running(c)
  /\ End(c)
  /\ UNCHANGED <<disk, shortfall>>

\* The operator empties the directory to try again.
Clean ==
  /\ \A c \in Command : ~Running(c)
  /\ ~EmptyDirectory
  /\ folder' = [d \in Folder |-> "absent"]
  /\ content' = [f \in File |-> "absent"]
  /\ mode' = [f \in File |-> "open"]
  /\ shortfall' = {} /\ overlapped' = FALSE
  /\ UNCHANGED <<status, at, phase>>

Step(c) ==
  \/ Start(c)
  \/ Check(c)
  \/ CreateFolder(c)
  \/ Secure(c)
  \/ CreateFile(c)
  \/ WriteFile(c)
  \/ Fail(c)
  \/ Crash(c)

Next == Clean \/ \E c \in Command : Step(c)
-----------------------------------------------------------------------------
TypeOK ==
  /\ status \in [Command -> {"idle", "running"}]
  /\ at \in [Command -> 1..Len(Order)]
  /\ phase \in [Command -> {"check", "create", "write", "secure"}]
  /\ folder \in [Folder -> {"absent", "open", "owner"}]
  /\ content \in [File -> {"absent", "short"} \cup Command]
  /\ mode \in [File -> {"open", "owner"}]
  /\ shortfall \subseteq File /\ overlapped \in BOOLEAN

\* A configuration on the disk is the sign of a complete project: whatever
\* failed or died before, everything it refers to was written by the same
\* command; above all the wallet holds the key of its payment address.  Only a
\* full disk, unnoticed, or two commands at once can break this.
ConfigurationComesLast ==
  content["config"] \in Command =>
    \A f \in File : content[f] = content["config"] \/ f \in shortfall \/ overlapped

\* A secret file is created with the default permissions and secured afterwards:
\* at no moment may others reach it, so its folder must be closed before.
SecretsAreNeverExposed ==
  \A f \in Secret : content[f] # "absent" => folder["secrets"] = "owner" \/ mode[f] = "owner"
=============================================================================
