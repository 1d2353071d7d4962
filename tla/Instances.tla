------------------------------ MODULE Instances ------------------------------
(***************************************************************************)
(* The operator's side of the servers: the /instances commands of the CLI  *)
(* (src/src/cli/commands/instances.ts, with the scanner of                 *)
(* src/src/core/discovery/scanner.ts) and the instance routes of the API   *)
(* (src/src/api/routes/instances.ts).                                      *)
(*                                                                         *)
(* The CLI runs one command at a time; most are one call to Orchestrator.  *)
(* The API keeps rows of its own, which it shares with nobody; its         *)
(* handlers overlap, and each of them reads a row and later writes it.     *)
(* read_only is left out: nothing modelled here reads it.                  *)
(***************************************************************************)
EXTENDS Orchestrator, FiniteSetsExt

CONSTANTS
  Width,         \* bits of an address (32)
  Address,       \* Address[s]
  MaxHosts,      \* the scanner stops after so many hosts (256)
  Request,       \* API requests
  Target,        \* bound: the servers that commands and requests are about
  Network        \* bound: the networks that are scanned, each with base and prefix

PowerOfTwo[n \in 0 .. Width] == IF n = 0 THEN 1 ELSE 2 * PowerOfTwo[n - 1]
Addresses == 0 .. PowerOfTwo[Width] - 1

ASSUME InstancesAssumption ==
  /\ Width \in Nat /\ MaxHosts \in Nat
  /\ Address \in [Server -> Addresses]
  /\ Target \subseteq Server
  /\ Network \subseteq [base : Addresses, prefix : 0 .. Width]

VARIABLES
  command,   \* the command under way, or None
  rows,      \* rows[s]: the instance_metadata of s: "none", "plain" or "maintenance"
  request    \* request[q]: what API request q has read and means to write, or its answer

operatorVars == <<command, rows, request>>
instanceVars == <<worldVars, operatorVars>>

RowState == {"none", "plain", "maintenance"}

OperatorInit ==
  /\ command = None
  /\ request = [q \in Request |-> None]

-------------------------------------------------------------------------------
(* scanner.ts, expandNetwork(): the hosts of base/prefix, as far as they   *)
(* are scanned.                                                            *)
NetworkOf(base, prefix) == base - (base % PowerOfTwo[Width - prefix])
Broadcast(base, prefix) == NetworkOf(base, prefix) + PowerOfTwo[Width - prefix] - 1

\* Mutant: the broadcast address is taken for a host.
HostsAndBroadcast(base, prefix) ==
  IF prefix = Width THEN {base}
  ELSE {NetworkOf(base, prefix) + i :
          i \in 1 .. Min({Broadcast(base, prefix) - NetworkOf(base, prefix), MaxHosts})}

Hosts(base, prefix) ==
  IF prefix = Width THEN {base}
  ELSE {NetworkOf(base, prefix) + i :
          i \in 1 .. Min({Broadcast(base, prefix) - NetworkOf(base, prefix) - 1, MaxHosts})}

-------------------------------------------------------------------------------
(* The operator enters a command, which then runs to its end before the    *)
(* next one is read.                                                       *)
Idle == command = None
Running(kind) == ~Idle /\ command.kind = kind

Enter(c) ==
  /\ Idle /\ command' = c
  /\ Event
  /\ UNCHANGED <<up, source, started, seen, maintained, downtimed, rows, request>>

Done == command' = None /\ UNCHANGED <<rows, request>>

(* Most commands are one call to Orchestrator.                             *)
OneCall == {"start-slave", "stop-slave", "reset-slave", "begin-maintenance",
            "end-maintenance", "remove", "register"}

EnterOneCall(kind, s) ==
  /\ kind = "register" => s \in up  \* it is probed first
  /\ Enter([kind |-> kind, server |-> s])

EnterRelocate(s, m) == s # m /\ Enter([kind |-> "relocate", server |-> s, master |-> m])

StartSlave       == Running("start-slave")       /\ \E ok \in BOOLEAN : startSlave(command.server, ok)
StopSlave        == Running("stop-slave")        /\ \E ok \in BOOLEAN : stopSlave(command.server, ok)
ResetSlave       == Running("reset-slave")       /\ \E ok \in BOOLEAN : resetSlave(command.server, ok)
BeginMaintenance == Running("begin-maintenance") /\ \E ok \in BOOLEAN : beginMaintenance(command.server, ok)
EndMaintenance   == Running("end-maintenance")   /\ \E ok \in BOOLEAN : endMaintenance(command.server, ok)
RemoveInstance   == Running("remove")            /\ \E ok \in BOOLEAN : forgetInstance(command.server, ok)
RegisterInstance == Running("register")          /\ \E ok \in BOOLEAN : discoverInstance(command.server, ok)
RelocateReplica  ==
  Running("relocate") /\ \E ok \in BOOLEAN : relocateReplicas(command.server, command.master, ok)

OneCallRuns ==
  /\ StartSlave \/ StopSlave \/ ResetSlave \/ BeginMaintenance \/ EndMaintenance
     \/ RemoveInstance \/ RegisterInstance \/ RelocateReplica
  /\ Done

(* discover --auto-register: the network is scanned, then what was found   *)
(* is registered, one server after the other; failures are passed over.    *)
DiscoverInstances(base, prefix) ==
  LET found == {s \in up : Address[s] \in Hosts(base, prefix)} IN
  found # {} /\ Enter([kind |-> "discover", base |-> base, prefix |-> prefix, left |-> found])

DiscoverNext ==
  /\ Running("discover")
  /\ \E s \in command.left :
       /\ \E ok \in BOOLEAN : discoverInstance(s, ok)
       /\ command' = IF command.left = {s} THEN None
                     ELSE [command EXCEPT !.left = @ \ {s}]
  /\ UNCHANGED <<rows, request>>

(* setup-replication: the user on the master, then three statements on the *)
(* replica.  Any of them may fail and ends the command; nothing is undone. *)
EnterSetup(s, m) ==
  s # m /\ m \in up /\ Enter([kind |-> "setup", at |-> "STOP SLAVE", server |-> s, master |-> m])

Setup(at) == Running("setup") /\ command.at = at /\ command.server \in up
SetupGoes(at) == command' = [command EXCEPT !.at = at] /\ UNCHANGED <<rows, request>>

SetupStops ==
  /\ Setup("STOP SLAVE")
  /\ started' = started \ {command.server}
  /\ SetupGoes("CHANGE MASTER")
  /\ Undisturbed /\ UNCHANGED <<up, source, seen, maintained, downtimed>>

(* MySQL refuses while the threads run: somebody may have started them.    *)
SetupChanges ==
  /\ Setup("CHANGE MASTER") /\ command.server \notin started
  /\ source' = [source EXCEPT ![command.server] = command.master]
  /\ SetupGoes("START SLAVE")
  /\ Undisturbed /\ UNCHANGED <<up, started, seen, maintained, downtimed>>

SetupStarts ==
  /\ Setup("START SLAVE")
  /\ started' = started \cup {command.server}
  /\ Done
  /\ Undisturbed /\ UNCHANGED <<up, source, seen, maintained, downtimed>>

SetupFails ==
  /\ Running("setup")
  /\ IF command.server \notin up \/ (command.at = "CHANGE MASTER" /\ command.server \in started)
       THEN Undisturbed ELSE Event
  /\ Done
  /\ UNCHANGED <<up, source, started, seen, maintained, downtimed>>

-------------------------------------------------------------------------------
(* The API.  A request reads the row of its instance, is refused or goes   *)
(* on, and writes what it made of the row it has read.                     *)

Reads(q, s, refused, kind, to) ==
  /\ request[q] = None /\ Event
  /\ request' = [request EXCEPT ![q] =
                   IF refused THEN [kind |-> "refused"]
                   ELSE [kind |-> kind, instance |-> s, to |-> to]]
  /\ UNCHANGED <<up, source, started, seen, maintained, downtimed, command, rows>>

RegisterReads(q, s)         == Reads(q, s, rows[s] # "none", "register", "plain")
DeregisterReads(q, s)       == Reads(q, s, rows[s] = "none", "delete", "none")
SetMaintenanceReads(q, s)   == Reads(q, s, rows[s] = "none", "write", "maintenance")
UnsetMaintenanceReads(q, s) == Reads(q, s, rows[s] # "maintenance", "write", "plain")

(* saveInstanceMetadata() inserts or updates; deleteInstanceMetadata().    *)
Writes(q) ==
  /\ request[q] # None /\ request[q].kind \in {"register", "write", "delete"}
  /\ rows' = [rows EXCEPT ![request[q].instance] = request[q].to]
  /\ request' = [request EXCEPT ![q].kind = IF @ = "register" THEN "discover" ELSE "answered"]
  /\ UNCHANGED <<worldVars, command>>

(* A registration lets Orchestrator discover the server; failures are      *)
(* logged.  The answer needs the row, which may be gone.                   *)
RegisterDiscovers(q) ==
  /\ request[q] # None /\ request[q].kind = "discover"
  /\ \E ok \in BOOLEAN : discoverInstance(request[q].instance, ok)
  /\ request' = [request EXCEPT ![q].kind = "read back"]
  /\ UNCHANGED <<command, rows>>

RegisterAnswers(q) ==
  /\ request[q] # None /\ request[q].kind = "read back"
  /\ request' = [request EXCEPT ![q].kind =
                   IF rows[request[q].instance] = "none" THEN "crashed" ELSE "answered"]
  /\ UNCHANGED <<worldVars, command, rows>>

CommandStep ==
  OneCallRuns \/ DiscoverNext \/ SetupStops \/ SetupChanges \/ SetupStarts \/ SetupFails

RequestStep(q) ==
  \/ \E s \in Target : \/ RegisterReads(q, s) \/ DeregisterReads(q, s)
                       \/ SetMaintenanceReads(q, s) \/ UnsetMaintenanceReads(q, s)
  \/ Writes(q) \/ RegisterDiscovers(q) \/ RegisterAnswers(q)

OperatorNext ==
  \/ \E s \in Target, kind \in OneCall : EnterOneCall(kind, s)
  \/ \E s \in Target, m \in Server : EnterRelocate(s, m) \/ EnterSetup(s, m)
  \/ \E net \in Network : DiscoverInstances(net.base, net.prefix)
  \/ CommandStep
  \/ \E q \in Request : RequestStep(q)

OneCallCommand  == [kind : OneCall, server : Server]
RelocateCommand == [kind : {"relocate"}, server : Server, master : Server]
DiscoverCommand == [kind : {"discover"}, base : Addresses, prefix : 0 .. Width, left : SUBSET Server]
SetupCommand    == [kind : {"setup"}, at : {"STOP SLAVE", "CHANGE MASTER", "START SLAVE"},
                    server : Server, master : Server]
Command == OneCallCommand \cup RelocateCommand \cup DiscoverCommand \cup SetupCommand

Asking == [kind : {"register", "delete", "write", "discover", "read back", "crashed", "answered"},
           instance : Server, to : RowState]

OperatorTypeOK ==
  /\ command \in Command \cup {None}
  /\ rows \in [Server -> RowState]
  /\ request \in [Request -> Asking \cup [kind : {"refused"}] \cup {None}]

(* Nobody but the program and its callers is in the middle of anything.    *)
NothingUnderWay ==
  Idle /\ \A q \in Request : request[q] # None => request[q].kind \in {"refused", "answered"}

(* The scanner looks at every host of the network that it has room for:    *)
(* the addresses with the network's prefix, without the first and the last.*)
ScanCoversNetwork ==
  Running("discover") =>
    LET size  == PowerOfTwo[Width - command.prefix]
        same  == {a \in Addresses : a \div size = command.base \div size}
        hosts == IF size = 1 THEN same ELSE same \ {Min(same), Max(same)}
        scan  == Hosts(command.base, command.prefix)
    IN  scan \subseteq hosts /\ (hosts # scan => Cardinality(scan) = MaxHosts)
=============================================================================
