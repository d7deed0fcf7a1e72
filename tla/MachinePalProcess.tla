-------------------------- MODULE MachinePalProcess --------------------------
(***************************************************************************)
(* The program from the outside (main.cpp): an operator initialises a      *)
(* project, edits its configuration and launches the process, which        *)
(* collects its overrides, checks the clock, loads the configuration,      *)
(* opens the database, runs the application and exits; then it may be      *)
(* launched again, by docker for instance.                                 *)
(*                                                                         *)
(* It composes ProjectGenerator, whose files it reads, Configuration,      *)
(* which says what they mean, and MachinePalApp, which runs on what they   *)
(* say.  As in MachinePalApp, the application may have an owner who stops  *)
(* it, as the test fixture does.                                           *)
(***************************************************************************)
EXTENDS MachinePalApp, Configuration, TLC

CONSTANTS Command,      (* invocations of `machinepal init` *)
          Edited,       (* what operators make of the template: documents by name *)
          Cut,          (* what a full disk may leave of it: a set of documents *)
          Environment,  (* possible MACHINE_PAY_ variables, without the prefix *)
          CommandLine   (* possible options, by the key they override *)

ASSUME CommandAssumption == {"absent", "short"} \cap Command = {}

\* The paths of a document are tuples of keys.
ASSUME DocumentAssumption ==
  \A d \in {Edited[n] : n \in DOMAIN Edited} \cup Cut : DOMAIN d \subseteq Seq(STRING)

VARIABLES
  status, at, phase, folder, content, mode, shortfall, overlapped,  (* ProjectGenerator *)
  process,    (* where main() is *)
  given,      (* environment and command line of this launch *)
  document,   (* the name of what the configuration file holds *)
  settings,   (* what was loaded *)
  flawless,   (* history: complete project, harmless overrides, nothing outside failed *)
  code        (* exit status of the last launch *)

G == INSTANCE ProjectGenerator

project == <<status, at, phase, folder, content, mode, shortfall, overlapped>>
launch == <<process, given, settings, flawless, code>>
processVars == <<vars, project, document, launch>>

Nothing == [x \in {} |-> {}]
NoSettings == [http |-> NoPort, https |-> NoPort, facilitator |-> <<"none", NoPort>>,
               caFile |-> "", logging |-> configureLogging("info", "text")]

ProcessInit ==
  /\ Init /\ G!Init
  /\ process = "down" /\ given = [environment |-> Nothing, commandLine |-> Nothing]
  /\ document = "generated"
  /\ settings = NoSettings /\ flawless = FALSE /\ code = NoResult

Document == IF document = "generated" THEN kYamlTemplate ELSE Edited[document]

\* What FileManager finds in the project.
Files ==
  LET There == {f \in G!File : content[f] # "absent"}
  IN [p \in There \cup {f \in {"data", "secrets"} : folder[f] # "absent"} \cup {"../cert"} |->
        [ kind |-> IF p \in {"data", "secrets"} THEN "directory" ELSE "regular",
          climbs |-> p = "../cert", readable |-> TRUE,
          content |-> IF p \in There THEN content[p] ELSE "short" ] ]
-----------------------------------------------------------------------------
(***************************************************************************)
(* The operator                                                            *)
(***************************************************************************)

\* One at a time: nobody launches into a project that is being made.
Initialize ==
  /\ process \in {"down", "exited"}
  /\ G!Next
  /\ document' = IF content'["config"] = content["config"] THEN document ELSE "generated"
  /\ process' = "down" /\ flawless' = FALSE /\ code' = NoResult
  /\ UNCHANGED <<vars, given, settings>>

Edit ==
  /\ process \in {"down", "parsing", "fetching", "checking", "loading", "exited"}
  /\ content["config"] \in Command /\ ~overlapped
  /\ document' \in DOMAIN Edited \cup {"generated"}
  /\ UNCHANGED <<vars, project, launch>>

\* Who gave two commands at once empties the directory first.
Launch ==
  /\ process \in {"down", "exited"}
  /\ \A c \in Command : status[c] # "running"
  /\ ~overlapped
  /\ process' = "parsing" /\ flawless' = TRUE /\ code' = NoResult
  /\ \E e \in Environment, c \in CommandLine : given' = [environment |-> e, commandLine |-> c]
  /\ UNCHANGED <<vars, project, document, settings>>
-----------------------------------------------------------------------------
(***************************************************************************)
(* main() before the application runs                                      *)
(***************************************************************************)
Exit(number) ==
  /\ process' = "exited" /\ code' = number
  /\ given' = [environment |-> Nothing, commandLine |-> Nothing]

\* Faulty variant: the environment is collected last.
EnvironmentWins(environment, commandLine) == environment @@ commandLine

Overloads(environment, commandLine) ==
  [key \in DOMAIN environment \cup DOMAIN commandLine |->
     IF key \in DOMAIN commandLine THEN commandLine[key] ELSE environment[key]]

LogLevels == {"trace", "debug", "info", "warn", "error", "fatal"}
LogTypes == {"text", "json"}
InRange(values, key, range) == key \in DOMAIN values => values[key].text \in range

\* The options of the command line are checked, and the level of the environment;
\* its type is not.
Parses ==
  /\ InRange(given.commandLine, "LOG_LEVEL", LogLevels)
  /\ InRange(given.commandLine, "LOG_TYPE", LogTypes)
  /\ InRange(Overloads(given.environment, given.commandLine), "LOG_LEVEL", LogLevels)

Harmless(overrides) ==
  /\ DOMAIN overrides \subseteq {"LOG_LEVEL", "LOG_TYPE", "HTTP_PORT", "HOSTNAME", "BIND_IP"}
  /\ InRange(overrides, "LOG_LEVEL", LogLevels) /\ InRange(overrides, "LOG_TYPE", LogTypes)

ParseOverloads ==
  /\ process = "parsing"
  /\ IF Parses THEN process' = "fetching" /\ UNCHANGED <<given, code>> ELSE Exit(1)
  /\ flawless' = (flawless /\ Harmless(given.environment) /\ Harmless(given.commandLine))
  /\ UNCHANGED <<vars, project, document, settings>>

\* An internet time that cannot be had, or not be read, is no error.
FetchInternetTime ==
  /\ process = "fetching"
  /\ process' \in {"checking", "loading"}
  /\ UNCHANGED <<vars, project, document, given, settings, flawless, code>>

\* A clock that is more than 5 seconds off is one.
CheckSystemTime ==
  /\ process = "checking"
  /\ \/ process' = "loading" /\ UNCHANGED <<given, flawless, code>>
     \/ Exit(1) /\ flawless' = FALSE
  /\ UNCHANGED <<vars, project, document, settings>>

ConfigPath(overrides) == IF "CONFIG" \in DOMAIN overrides THEN overrides["CONFIG"].text ELSE "config"

\* The constructor of MachinePalApp: configuration, logging, database.  What is left
\* of a file that was cut short may still be a document.  The configuration is loaded
\* once; what the operator made of it may be forgotten, to be written again by Edit.
LoadConfiguration ==
  LET overrides == Overloads(given.environment, given.commandLine)
      path == ConfigPath(overrides)
  IN /\ process = "loading"
     /\ \E found \in IF content["config"] = "short" THEN Cut ELSE {Document} :
          IF /\ path = "config" /\ content["config"] # "absent" /\ DOMAIN found # {}
             /\ Loads(found, overrides, Files)
          THEN /\ process' = "opening" /\ settings' = Loaded(found, overrides)
               /\ given' = [environment |-> Nothing, commandLine |-> Nothing]
               /\ UNCHANGED code
          ELSE Exit(1) /\ UNCHANGED settings
     /\ flawless' = (flawless /\ document = "generated" /\ content["config"] \in Command
                     /\ ~overlapped /\ shortfall = {})
     /\ document' = "generated"
     /\ UNCHANGED <<vars, project>>

\* The database file is a directory, locked, or not ours.
OpenDatabase ==
  /\ process = "opening"
  /\ \/ process' = "running" /\ UNCHANGED <<given, flawless, code>>
     \/ Exit(1) /\ flawless' = FALSE
  /\ settings' = IF process' = "exited" THEN NoSettings ELSE settings
  /\ UNCHANGED <<vars, project, document>>
-----------------------------------------------------------------------------
(***************************************************************************)
(* The application                                                         *)
(***************************************************************************)

\* createServerInstance validates the certificate again; the file of authorities
\* must hold certificates.
CertificatesLoad ==
  settings.https # NoPort =>
    /\ Files["cert"].content = Files["certKey"].content
    /\ settings.caFile \in {"", "cert"}

PortsDiffer == settings.http # settings.https

\* A step of MachinePalApp, on these settings.  A server that could be created and
\* bound may fail for a reason of the machine: no file of authorities, a port in use.
Runs(step) ==
  /\ process = "running"
  /\ step
  /\ main = "init" /\ main' = "polling" => CertificatesLoad
  /\ server = "binding" /\ server' = "serving" => PortsDiffer
  /\ flawless' = (flawless /\ (main = "init" /\ main' = "returned" => ~CertificatesLoad)
                           /\ (server = "binding" /\ failed' => ~PortsDiffer))
  /\ UNCHANGED <<project, document, process, given, settings, code>>

\* Whatever runUntilExit returned, the status is 0.  With the process ends what it
\* had in memory.
MainReturns ==
  /\ process = "running" /\ main = "returned"
  /\ Exit(0)
  /\ main' = "init" /\ owner' = "none" /\ server' = "none"
  /\ counter' = 0 /\ sigReceived' = "none"
  /\ isStarted' = FALSE /\ isExited' = FALSE /\ exitCode' = 0
  /\ serverStopCalled' = FALSE /\ stopped' = FALSE
  /\ stops' = 0 /\ failed' = FALSE /\ result' = NoResult
  /\ settings' = NoSettings
  /\ UNCHANGED <<project, document, flawless>>

Start == ParseOverloads \/ FetchInternetTime \/ CheckSystemTime \/ LoadConfiguration \/ OpenDatabase

ProcessNext ==
  \/ Initialize
  \/ Edit
  \/ Launch
  \/ Start
  \/ Runs(MainThread)
  \/ Runs(OwnerAsks)
  \/ Runs(OwnerThread)
  \/ Runs(ServerThread)
  \/ Runs(Signal)
  \/ MainReturns

ProcessSpec == ProcessInit /\ [][ProcessNext]_processVars

\* The threads of MachinePalApp run; nobody need initialise, edit or launch.
FairProcessSpec ==
  /\ ProcessSpec
  /\ WF_processVars(Runs(MainThread)) /\ WF_processVars(Runs(OwnerThread))
  /\ WF_processVars(Runs(EnterStart)) /\ WF_processVars(Runs(Bind))
  /\ WF_processVars(Runs(LoopEnds)) /\ WF_processVars(Runs(OnError))
  /\ WF_processVars(Runs(StartReturned)) /\ WF_processVars(Runs(StartThrew))
-----------------------------------------------------------------------------
ProcessTypeOK ==
  /\ TypeOK /\ G!TypeOK
  /\ process \in {"down", "parsing", "fetching", "checking", "loading", "opening", "running", "exited"}
  /\ given.environment \in Environment \cup {Nothing}
  /\ given.commandLine \in CommandLine \cup {Nothing}
  /\ document \in DOMAIN Edited \cup {"generated"}
  /\ {settings.http, settings.https} \ {NoPort} \subseteq Port
  /\ settings.logging.level \in (LogLevels \ {"error", "fatal"}) \cup {"err", "critical"}
  /\ flawless \in BOOLEAN /\ code \in {0, 1, NoResult}

\* A configuration on the disk is the sign of a complete project, whatever failed
\* or died before it was written; only a full disk, unnoticed, or two commands at
\* once can break this (ProjectGenerator.cpp, generateProject).
ConfigurationComesLast == G!ConfigurationComesLast

\* A secret file is created with the default permissions and secured afterwards: at
\* no moment may others reach it (ProjectGenerator.cpp, FolderGenerator.cpp).
SecretsAreNeverExposed == G!SecretsAreNeverExposed

\* A project that `machinepal init` completed starts as it is: nothing the generator
\* wrote is refused by the configuration, the certificate check or the bind, though
\* template, schema and reader were written apart.
InitializedProjectStarts == flawless => code # 1 /\ result # 1 /\ ~failed

\* The level in force is that of the command line, else that of the environment,
\* else that of the file (main.cpp: "Command line takes precedence over environment.").
CommandLineWins ==
  [][process = "loading" /\ process' = "opening" =>
       LET overrides == IF "LOG_LEVEL" \in DOMAIN given.commandLine
                        THEN given.commandLine ELSE given.environment
           wanted == IF "LOG_LEVEL" \in DOMAIN overrides
                     THEN overrides["LOG_LEVEL"].text
                     ELSE TextAt(yamlToJson(Document), <<"log", "level">>, "info")
       IN content["config"] \in Command => settings'.logging.level = SpdlogLevel(wanted)]_processVars
=============================================================================
