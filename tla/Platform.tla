------------------------------- MODULE Platform -------------------------------
(***************************************************************************)
(* Deployment: the commands /install, /start, /stop and /cleanup           *)
(* (src/src/cli/commands), the files they hand to Compose                  *)
(* (cli/utils/docker-files.ts), the containers of the platform, and the    *)
(* start of the API server in one of them (src/src/app.ts, startServer),   *)
(* which creates its tables in the metadata database while /start may be   *)
(* dropping and creating them too.                                         *)
(*                                                                         *)
(* One command runs at a time.  Its end, by a key or by a signal, ends the *)
(* programs it has started.  The container runtime, Compose, MySQL and     *)
(* Orchestrator are external.                                              *)
(***************************************************************************)
EXTENDS Naturals, Sequences

CONSTANTS
  Host,         \* the machines, see HostType
  MaxVersion,   \* bound: releases of ClawSQL that are installed in turn
  MaxCommands,  \* bound on the commands
  MaxFailures   \* bound on failing programs and crashes

(* runtime: detectRuntime().  compose: what the Compose command goes by,   *)
(* the name of a project (docker compose, docker-compose) or the names of  *)
(* the containers (podman-compose).  external: METADATA_DB_HOST is set.    *)
HostType == [runtime : {"docker", "podman"}, compose : {"project", "names"},
             external : BOOLEAN]

ASSUME PlatformAssumption ==
  /\ Host \subseteq HostType
  /\ \A h \in Host : h.compose = "names" => h.runtime = "podman"
  /\ {MaxVersion, MaxCommands, MaxFailures} \subseteq Nat /\ MaxVersion > 0

VARIABLES
  host,
  version,       \* of the package that is installed
  files,         \* files[p]: the version of a part of ~/.clawsql/docker; 0: absent or torn
  stamp,         \* the content of its .version, 0: absent
  command,       \* the command under way, and the step it is at
  answer,        \* what the last command said in the end
  db,            \* the container metadata-mysql: "none", "starts", "ready"
  orchestrator,  \* that of Orchestrator: "none", "starts", "healthy"
  api,           \* that of the API server: the step of startServer() it is at
  tables,        \* ClawSQL's tables in the metadata database
  templates,     \* topology_templates holds the predefined templates
  commands, failures

containers == <<db, orchestrator, api>>
data       == <<tables, templates>>
extracted  == <<files, stamp>>
vars == <<host, version, extracted, command, answer, containers, data, commands, failures>>

(* Four of the tables stand for all: two that both sides create, in        *)
(* opposite orders, one they create in the same order, and one that only   *)
(* the server creates.                                                     *)
ApiOrder   == <<"schema_metadata", "instance_metadata", "proxysql_servers", "topology_templates">>
StartOrder == <<"instance_metadata", "schema_metadata", "proxysql_servers">>
Drops == Len(StartOrder)
Tables == {ApiOrder[i] : i \in 1 .. Len(ApiOrder)}

(* What ensureDockerFiles() copies, in its order.                          *)
Parts == <<"docker", "compose", "dist">>
Part  == {Parts[i] : i \in 1 .. Len(Parts)}

Idle == [kind |-> "none", at |-> "none", n |-> 0, clean |-> TRUE, raced |-> FALSE]
Kind == {"install", "start", "stop", "cleanup"}
NoApi == [at |-> "none", n |-> 0, persistent |-> FALSE]
Boot  == [at |-> "connects", n |-> 0, persistent |-> FALSE]

Init ==
  /\ host \in Host
  /\ version = 1 /\ stamp = 0
  /\ files = [p \in Part |-> 0]
  /\ command = Idle /\ answer = "none"
  /\ db = "none" /\ orchestrator = "none" /\ api = NoApi
  /\ tables = {} /\ templates = FALSE
  /\ commands = 0 /\ failures = 0

-------------------------------------------------------------------------------
(* The steps a command consists of.                                        *)

At(kinds, at) == command.kind \in kinds /\ command.at = at
GoTo(at) == command' = [command EXCEPT !.at = at, !.n = 0]
GoOnTo(at) == command' = [command EXCEPT !.at = at, !.n = 0, !.clean = FALSE]
Return(text) == command' = Idle /\ answer' = text

(* A program fails, or a process crashes.                                  *)
Failing == failures < MaxFailures /\ failures' = failures + 1
Working == UNCHANGED failures

Begin(kind) ==
  /\ command = Idle /\ commands < MaxCommands
  /\ commands' = commands + 1
  /\ command' = [Idle EXCEPT !.kind = kind,
                   !.at = IF kind = "cleanup" THEN "confirm" ELSE "prerequisites"]
  /\ UNCHANGED <<answer, extracted, containers, data>> /\ Working

Confirm ==
  /\ At({"cleanup"}, "confirm")
  /\ \/ GoTo("prerequisites") /\ UNCHANGED answer
     \/ Return("cancelled")
  /\ UNCHANGED <<extracted, containers, data, commands>> /\ Working

(* Where a command goes on once the files are there.                       *)
WithFiles == [install |-> "pull", start |-> "up", stop |-> "down", cleanup |-> "containers"]

NeedsExtraction == stamp # version

(* checkDockerPrerequisites(), and the decision of ensureDockerFiles().    *)
Prerequisites ==
  /\ At(Kind, "prerequisites")
  /\ \/ Return("failed")
     \/ /\ GoTo(IF NeedsExtraction THEN "copy" ELSE WithFiles[command.kind])
        /\ UNCHANGED answer
  /\ UNCHANGED <<extracted, containers, data, commands>> /\ Working

CopyPart ==
  /\ command.n < Len(Parts)
  /\ files' = [files EXCEPT ![Parts[command.n + 1]] = version]
  /\ command' = [command EXCEPT !.n = @ + 1]
  /\ UNCHANGED stamp

WriteStamp ==
  /\ command.n = Len(Parts)
  /\ stamp' = version
  /\ GoTo(WithFiles[command.kind])
  /\ UNCHANGED files

(* A plausible mistake: the version is written when the copying begins.    *)
StampAndCopy ==
  /\ command.n < Len(Parts)
  /\ files' = [files EXCEPT ![Parts[command.n + 1]] = version]
  /\ command' = [command EXCEPT !.n = @ + 1]
  /\ stamp' = version

ExtractStampFirst ==
  /\ At(Kind, "copy")
  /\ StampAndCopy \/ WriteStamp
  /\ UNCHANGED <<answer, containers, data, commands>> /\ Working

Extract ==
  /\ At(Kind, "copy")
  /\ CopyPart \/ WriteStamp
  /\ UNCHANGED <<answer, containers, data, commands>> /\ Working

(* Copying throws: /stop and /cleanup use the directory as it is.          *)
ExtractFails ==
  /\ At(Kind, "copy")
  /\ Failing
  /\ \/ UNCHANGED files
     \/ command.n < Len(Parts) /\ files' = [files EXCEPT ![Parts[command.n + 1]] = 0]
  /\ IF command.kind \in {"install", "start"}
       THEN Return("failed")
       ELSE GoOnTo(WithFiles[command.kind]) /\ UNCHANGED answer
  /\ UNCHANGED <<stamp, containers, data, commands>>

Pull ==
  /\ At({"install"}, "pull")
  /\ \/ Return("installed") /\ Working
     \/ Return("failed") /\ Failing
  /\ UNCHANGED <<extracted, containers, data, commands>>

-------------------------------------------------------------------------------
(* /start                                                                  *)

(* Compose creates what is not there and leaves alone what runs.           *)
CreatedDb == IF db = "none" /\ ~host.external THEN "starts" ELSE db
CreatedOrchestrator == IF orchestrator = "none" THEN "starts" ELSE orchestrator
CreatedApi == IF api = NoApi THEN Boot ELSE api

ComposeUp ==
  /\ At({"start"}, "up")
  /\ db' = CreatedDb /\ orchestrator' = CreatedOrchestrator /\ api' = CreatedApi
  /\ GoTo(IF host.external THEN "orchestrator" ELSE "metadata")
  /\ UNCHANGED <<answer, extracted, data, commands>> /\ Working

ComposeUpFails ==
  /\ At({"start"}, "up")
  /\ Failing
  /\ db' \in {db, CreatedDb} /\ orchestrator' \in {orchestrator, CreatedOrchestrator}
  /\ api' \in {api, CreatedApi}
  /\ Return("failed")
  /\ UNCHANGED <<extracted, data, commands>>

(* waitForMetadataMySQL(), always through podman; an answer and the end of *)
(* its 60 seconds lead on alike.  MySQL answers the ping before it accepts *)
(* connections.  applyOrchestratorSchema() touches no table of ClawSQL.    *)
MetadataAnswers == host.runtime = "podman" /\ db # "none"
WaitForMetadata ==
  /\ At({"start"}, "metadata")
  /\ GoTo("orchestrator")
  /\ UNCHANGED <<answer, extracted, containers, data, commands>> /\ Working

Booting == api.at \in {"connects", "creates", "templates"}

(* createClawSQLTables() feeds one script to "podman exec metadata-mysql". *)
ScriptReachesDb == MetadataAnswers /\ db = "ready"

WaitForOrchestrator ==
  /\ At({"start"}, "orchestrator")
  /\ \/ /\ orchestrator = "healthy"
        /\ command' = [command EXCEPT !.at = "tables", !.n = 0,
                         !.raced = ScriptReachesDb /\ Booting]
        /\ UNCHANGED answer
     \/ Return("failed")
  /\ UNCHANGED <<extracted, containers, data, commands>> /\ Working

(* A plausible mistake: a table that is dropped, since its columns have    *)
(* changed, and created in another place.                                  *)
StatementDropsMore(n) ==
  IF n <= Drops THEN tables \ {StartOrder[n], "topology_templates"}
                ELSE tables \cup {StartOrder[n - Drops]}

(* Statement n of the script: all DROPs, then all CREATEs; a CREATE of a   *)
(* table that exists is an error, and mysql ends at the first error.       *)
Statement(n) ==
  IF n <= Drops THEN tables \ {StartOrder[n]} ELSE tables \cup {StartOrder[n - Drops]}

StatementFails(n) == n > Drops /\ StartOrder[n - Drops] \in tables

CreateTables ==
  /\ At({"start"}, "tables")
  /\ LET n == command.n + 1
     IN IF n > 2 * Drops \/ ~ScriptReachesDb \/ StatementFails(n)
          THEN GoTo("api") /\ UNCHANGED tables
          ELSE tables' = Statement(n) /\ command' = [command EXCEPT !.n = n]
  /\ UNCHANGED <<answer, extracted, containers, templates, commands>> /\ Working

(* A gateway of OpenClaw that is not known to be there is waited for.      *)
WaitForAPI ==
  /\ At({"start"}, "api")
  /\ \/ api.at = "serves" /\ Return("ready")
     \/ api.at = "serves" /\ GoTo("gateway") /\ UNCHANGED answer
     \/ Return("failed")
  /\ UNCHANGED <<extracted, containers, data, commands>> /\ Working

(* After 60 seconds without it the platform is ready all the same.         *)
WaitForOpenClaw ==
  /\ At({"start"}, "gateway")
  /\ Return("ready")
  /\ UNCHANGED <<extracted, containers, data, commands>> /\ Working

-------------------------------------------------------------------------------
(* /stop and /cleanup                                                      *)

(* "down" names no project.  Run in ~/.clawsql/docker it is about project  *)
(* "docker", whereas /start has created project "clawsql".  Where Compose  *)
(* goes by names it finds what no profile hides, which metadata-mysql is.  *)
ComposeDown ==
  /\ At({"stop"}, "down")
  /\ IF files["compose"] # 0 /\ host.compose = "names"
       THEN orchestrator' = "none" /\ api' = NoApi
       ELSE UNCHANGED <<orchestrator, api>>
  /\ Return(IF files["compose"] # 0 THEN "stopped" ELSE "failed")
  /\ UNCHANGED <<extracted, db, data, commands>> /\ Working

ComposeDownFails ==
  /\ At({"stop"}, "down")
  /\ Failing
  /\ IF host.compose = "names"
       THEN orchestrator' \in {orchestrator, "none"} /\ api' \in {api, NoApi}
       ELSE UNCHANGED <<orchestrator, api>>
  /\ Return("failed")
  /\ UNCHANGED <<extracted, db, data, commands>>

(* A plausible mistake: the volumes are removed before the containers.     *)
StopContainersLast ==
  /\ At({"cleanup"}, "containers")
  /\ GoTo("volumes")
  /\ UNCHANGED <<answer, extracted, containers, data, commands>> /\ Working

(* stopContainers(): by parts of their names.  (So are other containers    *)
(* and, below, volumes of the machine, which are no part of this model.)   *)
StopContainers ==
  /\ At({"cleanup"}, "containers")
  /\ db' = "none" /\ orchestrator' = "none" /\ api' = NoApi
  /\ GoTo("volumes")
  /\ UNCHANGED <<answer, extracted, data, commands>> /\ Working

StopContainersFails ==
  /\ At({"cleanup"}, "containers")
  /\ Failing
  /\ db' \in {db, "none"} /\ orchestrator' \in {orchestrator, "none"} /\ api' \in {api, NoApi}
  /\ GoOnTo("volumes")
  /\ UNCHANGED <<answer, extracted, data, commands>>

(* removeVolumes(), and the image and the empty data directories after it. *)
(* A volume in use stays, and no outcome is looked at.                     *)
RemoveVolumes ==
  /\ At({"cleanup"}, "volumes")
  /\ IF db = "none" /\ ~host.external
       THEN tables' = {} /\ templates' = FALSE
       ELSE UNCHANGED data
  /\ Return("cleaned")
  /\ UNCHANGED <<extracted, containers, commands>> /\ Working

RemoveVolumesFails ==
  /\ At({"cleanup"}, "volumes")
  /\ Failing
  /\ Return("partly cleaned")
  /\ UNCHANGED <<extracted, containers, data, commands>>

-------------------------------------------------------------------------------
(* The containers                                                          *)

DbReachable == host.external \/ db = "ready"

DbStarts ==
  /\ db = "starts" /\ db' = "ready"
  /\ UNCHANGED <<orchestrator, api, data, command>> /\ Working

OrchestratorStarts ==
  /\ orchestrator = "starts" /\ DbReachable
  /\ orchestrator' = "healthy"
  /\ UNCHANGED <<db, api, data, command>> /\ Working

(* startServer(): whatever happens in the database, the server starts.     *)
Unpersistent == api' = [at |-> "listens", n |-> 0, persistent |-> FALSE]

ApiConnects ==
  /\ api.at = "connects"
  /\ IF DbReachable THEN api' = [Boot EXCEPT !.at = "creates"] ELSE Unpersistent
  /\ UNCHANGED <<db, orchestrator, data, command>> /\ Working

(* initializeSchema(): CREATE TABLE IF NOT EXISTS, one after the other.    *)
ApiCreates ==
  /\ api.at = "creates"
  /\ IF ~DbReachable THEN Unpersistent /\ UNCHANGED tables
     ELSE IF api.n = Len(ApiOrder) THEN api' = [api EXCEPT !.at = "templates"] /\ UNCHANGED tables
     ELSE tables' = tables \cup {ApiOrder[api.n + 1]} /\ api' = [api EXCEPT !.n = @ + 1]
  /\ UNCHANGED <<db, orchestrator, templates, command>> /\ Working

(* initializePredefinedTemplates(); its failure is no failure.             *)
ApiFillsTemplates ==
  /\ api.at = "templates"
  /\ templates' = (templates \/ (DbReachable /\ "topology_templates" \in tables))
  /\ api' = [at |-> "listens", n |-> 0, persistent |-> TRUE]
  /\ UNCHANGED <<db, orchestrator, tables, command>> /\ Working

ApiListens ==
  /\ api.at = "listens" /\ api' = [api EXCEPT !.at = "serves"]
  /\ UNCHANGED <<db, orchestrator, data, command>> /\ Working

(* The server exits, for instance as its port is taken, or MySQL does, and *)
(* its container is restarted ("restart: unless-stopped").                 *)
Restarts ==
  /\ Failing
  /\ \/ db = "ready" /\ db' = "starts" /\ UNCHANGED api
     \/ api # NoApi /\ api' = Boot /\ UNCHANGED db
  /\ command' = IF command = Idle THEN Idle ELSE [command EXCEPT !.clean = FALSE]
  /\ UNCHANGED <<orchestrator, data>>

Container ==
  /\ DbStarts \/ OrchestratorStarts \/ ApiConnects \/ ApiCreates \/ ApiFillsTemplates
     \/ ApiListens \/ Restarts
  /\ UNCHANGED <<version, extracted, answer, commands>>

-------------------------------------------------------------------------------
CommandStep ==
  /\ \/ \E kind \in Kind : Begin(kind)
     \/ Confirm \/ Prerequisites \/ Extract \/ ExtractFails \/ Pull
     \/ ComposeUp \/ ComposeUpFails \/ WaitForMetadata \/ WaitForOrchestrator
     \/ CreateTables \/ WaitForAPI \/ WaitForOpenClaw
     \/ ComposeDown \/ ComposeDownFails
     \/ StopContainers \/ StopContainersFails \/ RemoveVolumes \/ RemoveVolumesFails
  /\ UNCHANGED version

(* The user ends the command, with whatever it has got done.               *)
Kill ==
  /\ command # Idle /\ Return("killed")
  /\ UNCHANGED <<version, extracted, containers, data, commands, failures>>

(* The package is updated between two commands.                            *)
Upgrade ==
  /\ command = Idle /\ version < MaxVersion /\ version' = version + 1
  /\ UNCHANGED <<command, answer, extracted, containers, data, commands, failures>>

Next == (CommandStep \/ Container \/ Kill \/ Upgrade) /\ UNCHANGED host

Spec == Init /\ [][Next]_vars

-------------------------------------------------------------------------------
CommandStage == {"none", "confirm", "prerequisites", "copy", "pull", "up", "metadata",
                 "orchestrator", "tables", "api", "gateway", "down", "containers", "volumes"}
CommandType == [kind : Kind \cup {"none"}, at : CommandStage, n : Nat,
                clean : BOOLEAN, raced : BOOLEAN]

Answer == {"none", "ready", "failed", "installed", "stopped", "cancelled", "cleaned",
           "partly cleaned", "killed"}

ApiStage == {"none", "connects", "creates", "templates", "listens", "serves"}
ApiType  == [at : ApiStage, n : Nat, persistent : BOOLEAN]

PlatformTypeOK ==
  /\ host \in Host
  /\ version \in 1 .. MaxVersion /\ stamp \in 0 .. MaxVersion
  /\ files \in [Part -> 0 .. MaxVersion]
  /\ command \in CommandType
  /\ answer \in Answer
  /\ db \in {"none", "starts", "ready"}
  /\ orchestrator \in {"none", "starts", "healthy"}
  /\ api \in ApiType
  /\ tables \subseteq Tables /\ templates \in BOOLEAN
  /\ commands \in 0 .. MaxCommands /\ failures \in 0 .. MaxFailures

(* However the copying was interrupted, by an error, by the user or by an  *)
(* upgrade in between, /install and /start never run Compose on a          *)
(* half-copied or mixed set of files: the stamp vouches for the parts      *)
(* (needsExtraction, docker-files.ts).  Nor does a /stop during which      *)
(* nothing has failed; one whose own extraction has failed runs "down" on  *)
(* whatever is there (stop.ts:44), and nothing is claimed of it.  The      *)
(* types of the state are part of the statement.                           *)
ComposeUsesWholeFiles ==
  /\ PlatformTypeOK
  /\ command.at \in {"up", "pull"} \/ (command.at = "down" /\ command.clean) =>
       \A p \in Part : files[p] = version

(* "ClawSQL platform is ready!": if no program has failed, the server that *)
(* reached its database at its start has all its tables and templates,     *)
(* though /start drops tables of a running server.  It need not have them  *)
(* if the script of /start met a server that was just creating them.       *)
ReadyHasItsTables ==
  [][(answer' = "ready" /\ command # Idle /\ command' = Idle
        /\ failures = 0 /\ api.persistent /\ ~command.raced)
       => tables = Tables /\ templates]_vars

(* "Cleanup complete!": if no program has failed during the command, no    *)
(* container runs and no volume is left, whatever earlier commands, that   *)
(* failed, were killed or stopped half of the platform, have left behind.  *)
CleanupIsComplete ==
  [][(answer' = "cleaned" /\ command # Idle /\ command' = Idle /\ command.clean)
       => /\ db = "none" /\ orchestrator = "none" /\ api = NoApi
          /\ ~host.external => tables' = {} /\ ~templates']_vars
===============================================================================
