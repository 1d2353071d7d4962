---------------------------- MODULE SyncCoordinator ----------------------------
(***************************************************************************)
(* src/src/core/sync/sync-coordinator.ts: every request to bring ProxySQL  *)
(* in line with a cluster's topology passes through sync(), which keeps    *)
(* per cluster a debounce timer, a lock (the promise of the running sync), *)
(* a cooldown and the hash of the topology last synced.                    *)
(*                                                                         *)
(* A member of Call is one outstanding invocation of sync(); it is free    *)
(* again once its caller has received the answer.  Its phase:              *)
(*   debouncing  its promise waits for the timer it set                    *)
(*   running     doSync is retrying proxysql.syncCluster                   *)
(*   settled     doSync has returned, executeSync's finally has not run    *)
(*   joined      it was handed the promise of the call holding the lock    *)
(*   answered    its promise is resolved, the caller has not resumed       *)
(* A topology stands for what computeTopologyHash distinguishes, so the    *)
(* hash of a topology is the topology.  Time enters only through cooling:  *)
(* a cluster cools from a successful sync until the cooldown has elapsed.  *)
(***************************************************************************)
EXTENDS Integers, FiniteSets

CONSTANTS
  Cluster,     \* cluster ids
  Topo,        \* topologies a caller may pass
  EmptyTopo,   \* those with neither a primary nor a replica
  Call,        \* outstanding invocations of sync(): bounds concurrency only
  MaxRetries,  \* settings.sync.maxRetries
  None,        \* no call, no topology
  Partial      \* what a syncCluster leaves while it runs, or when it fails

ASSUME SyncAssumption ==
  /\ EmptyTopo \subseteq Topo
  /\ MaxRetries \in Nat \ {0}
  /\ None \notin Topo \cup Call \cup [cluster : Cluster, topo : Topo, force : BOOLEAN]
  /\ Partial \notin Topo
  /\ Partial # None

VARIABLES
  enabled,           \* settings.sync.enabled, fixed when the object is built
  phase,             \* phase[k]: see above
  args,              \* args[k]: cluster, topology and force of call k, or None
  attempt,           \* attempt[k]: the retry loop's counter, 0 outside it
  joinedTo,          \* joinedTo[k]: the call whose promise k was handed
  result,            \* result[k]: the SyncResult of call k
  pendingDebounces,  \* pendingDebounces[c]: the call whose timer is armed
  locks,             \* locks[c]: the call whose promise is the lock
  cooling,           \* cooling[c]: now - lastSyncTime < cooldownMs
  lastTopologyHash,  \* lastTopologyHash[c]: topology of the last success
  openSyncs,         \* stats.totalSyncs - successfulSyncs - failedSyncs
  synced             \* synced[c]: what the syncCluster calls for c have left

callVars == <<phase, args, attempt, joinedTo, result>>
syncVars == <<enabled, callVars, pendingDebounces, locks, cooling,
              lastTopologyHash, openSyncs, synced>>

Args    == [cluster : Cluster, topo : Topo, force : BOOLEAN]
Phase   == {"unused", "debouncing", "running", "settled", "joined", "answered"}
Skipped == {"invalid_input", "disabled", "cooldown", "no_change"}
Result  == Skipped \cup {"ok", "failed", "none"}

Init ==
  /\ enabled \in BOOLEAN
  /\ phase    = [k \in Call |-> "unused"]
  /\ args     = [k \in Call |-> None]
  /\ attempt  = [k \in Call |-> 0]
  /\ joinedTo = [k \in Call |-> None]
  /\ result   = [k \in Call |-> "none"]
  /\ pendingDebounces = [c \in Cluster |-> None]
  /\ locks            = [c \in Cluster |-> None]
  /\ cooling          = [c \in Cluster |-> FALSE]
  /\ lastTopologyHash = [c \in Cluster |-> None]
  /\ openSyncs = 0
  /\ synced  = [c \in Cluster |-> None]

-------------------------------------------------------------------------------
(* sync(): validation, then the timer of an earlier call is cleared before *)
(* the lock is looked at.  The promise of a call whose timer is cleared    *)
(* stays pending: nothing else resolves it.                                *)

RejectInvalid(k, c, t, f) ==
  /\ t \in EmptyTopo
  /\ phase'  = [phase EXCEPT ![k] = "answered"]
  /\ result' = [result EXCEPT ![k] = "invalid_input"]
  /\ UNCHANGED <<args, joinedTo, pendingDebounces>>

JoinLock(k, c, t, f) ==
  /\ t \notin EmptyTopo
  /\ phase'    = [phase EXCEPT ![k] = "joined"]
  /\ args'     = [args EXCEPT ![k] = [cluster |-> c, topo |-> t, force |-> f]]
  /\ joinedTo' = [joinedTo EXCEPT ![k] = locks[c]]
  /\ pendingDebounces' = [pendingDebounces EXCEPT ![c] = None]
  /\ UNCHANGED result

ArmTimer(k, c, t, f) ==
  /\ t \notin EmptyTopo
  /\ phase' = [phase EXCEPT ![k] = "debouncing"]
  /\ args'  = [args EXCEPT ![k] = [cluster |-> c, topo |-> t, force |-> f]]
  /\ pendingDebounces' = [pendingDebounces EXCEPT ![c] = k]
  /\ UNCHANGED <<joinedTo, result>>

\* Mutant: sync() arms a timer without looking at the lock.
SyncWithoutLock(k, c, t, f) ==
  /\ phase[k] = "unused"
  /\ RejectInvalid(k, c, t, f) \/ ArmTimer(k, c, t, f)
  /\ UNCHANGED <<enabled, attempt, locks, cooling, lastTopologyHash,
                 openSyncs, synced>>

Sync(k, c, t, f) ==
  /\ phase[k] = "unused"
  /\ \/ RejectInvalid(k, c, t, f)
     \/ locks[c] # None /\ JoinLock(k, c, t, f)
     \/ locks[c] = None /\ ArmTimer(k, c, t, f)
  /\ UNCHANGED <<enabled, attempt, locks, cooling, lastTopologyHash,
                 openSyncs, synced>>

-------------------------------------------------------------------------------
(* The timer's callback: executeSync and doSync up to its first await run  *)
(* without interruption.                                                   *)

Fires(k) == args[k] # None /\ pendingDebounces[args[k].cluster] = k
InCooldown(k) == ~args[k].force /\ cooling[args[k].cluster]
Unchanged(k)  == ~args[k].force /\ lastTopologyHash[args[k].cluster] = args[k].topo
SkipReason(k) == IF InCooldown(k) THEN "cooldown" ELSE "no_change"

ExecuteDisabled(k) ==
  /\ Fires(k)
  /\ ~enabled
  /\ pendingDebounces' = [pendingDebounces EXCEPT ![args[k].cluster] = None]
  /\ phase'  = [phase EXCEPT ![k] = "answered"]
  /\ args'   = [args EXCEPT ![k] = None]
  /\ result' = [result EXCEPT ![k] = "disabled"]
  /\ UNCHANGED <<enabled, attempt, joinedTo, locks, cooling,
                 lastTopologyHash, openSyncs, synced>>

ExecuteSkipped(k) ==
  /\ Fires(k)
  /\ enabled
  /\ InCooldown(k) \/ Unchanged(k)
  /\ pendingDebounces' = [pendingDebounces EXCEPT ![args[k].cluster] = None]
  /\ locks'  = [locks EXCEPT ![args[k].cluster] = k]
  /\ phase'  = [phase EXCEPT ![k] = "settled"]
  /\ result' = [result EXCEPT ![k] = SkipReason(k)]
  /\ UNCHANGED <<enabled, args, attempt, joinedTo, cooling, lastTopologyHash,
                 openSyncs, synced>>

ExecuteStarts(k) ==
  /\ Fires(k)
  /\ enabled
  /\ ~InCooldown(k) /\ ~Unchanged(k)
  /\ pendingDebounces' = [pendingDebounces EXCEPT ![args[k].cluster] = None]
  /\ locks'     = [locks EXCEPT ![args[k].cluster] = k]
  /\ phase'     = [phase EXCEPT ![k] = "running"]
  /\ attempt'   = [attempt EXCEPT ![k] = 1]
  /\ openSyncs' = openSyncs + 1
  /\ synced'  = [synced EXCEPT ![args[k].cluster] = Partial]
  /\ UNCHANGED <<enabled, args, joinedTo, result, cooling, lastTopologyHash>>

-------------------------------------------------------------------------------
(* The answers of proxysql.syncCluster, and executeSync's finally.         *)

\* Mutant: a forced sync does not record what it has written.
ForcedIsNotRecorded(k) ==
  /\ phase[k] = "running"
  /\ phase'   = [phase EXCEPT ![k] = "settled"]
  /\ attempt' = [attempt EXCEPT ![k] = 0]
  /\ result'  = [result EXCEPT ![k] = "ok"]
  /\ cooling' = [cooling EXCEPT ![args[k].cluster] = TRUE]
  /\ lastTopologyHash' = IF args[k].force THEN lastTopologyHash ELSE
       [lastTopologyHash EXCEPT ![args[k].cluster] = args[k].topo]
  /\ synced'  = [synced EXCEPT ![args[k].cluster] = args[k].topo]
  /\ openSyncs' = openSyncs - 1
  /\ UNCHANGED <<enabled, args, joinedTo, pendingDebounces, locks>>

AttemptSucceeds(k) ==
  /\ phase[k] = "running"
  /\ phase'   = [phase EXCEPT ![k] = "settled"]
  /\ attempt' = [attempt EXCEPT ![k] = 0]
  /\ result'  = [result EXCEPT ![k] = "ok"]
  /\ cooling' = [cooling EXCEPT ![args[k].cluster] = TRUE]
  /\ lastTopologyHash' = [lastTopologyHash EXCEPT ![args[k].cluster] = args[k].topo]
  /\ synced'  = [synced EXCEPT ![args[k].cluster] = args[k].topo]
  /\ openSyncs' = openSyncs - 1
  /\ UNCHANGED <<enabled, args, joinedTo, pendingDebounces, locks>>

AttemptFails(k) ==
  /\ phase[k] = "running"
  /\ attempt[k] < MaxRetries
  /\ attempt' = [attempt EXCEPT ![k] = @ + 1]
  /\ UNCHANGED <<enabled, phase, args, joinedTo, result, pendingDebounces,
                 locks, cooling, lastTopologyHash, openSyncs, synced>>

\* Mutant: the retry loop runs one time too many.
RetriesOffByOne(k) ==
  /\ phase[k] = "running"
  /\ attempt[k] = MaxRetries
  /\ attempt' = [attempt EXCEPT ![k] = @ + 1]
  /\ UNCHANGED <<enabled, phase, args, joinedTo, result, pendingDebounces,
                 locks, cooling, lastTopologyHash, openSyncs, synced>>

\* Mutant: the hash is recorded whether or not the sync succeeded.
ExhaustedRecordsHash(k) ==
  /\ phase[k] = "running"
  /\ attempt[k] = MaxRetries
  /\ phase'   = [phase EXCEPT ![k] = "settled"]
  /\ attempt' = [attempt EXCEPT ![k] = 0]
  /\ result'  = [result EXCEPT ![k] = "failed"]
  /\ lastTopologyHash' = [lastTopologyHash EXCEPT ![args[k].cluster] = args[k].topo]
  /\ openSyncs' = openSyncs - 1
  /\ UNCHANGED <<enabled, args, joinedTo, pendingDebounces, locks, cooling, synced>>

\* Mutant: a sync that fails is not counted as failed.
FailureIsNotCounted(k) ==
  /\ phase[k] = "running"
  /\ attempt[k] = MaxRetries
  /\ phase'   = [phase EXCEPT ![k] = "settled"]
  /\ attempt' = [attempt EXCEPT ![k] = 0]
  /\ result'  = [result EXCEPT ![k] = "failed"]
  /\ UNCHANGED <<enabled, args, joinedTo, pendingDebounces, locks, cooling,
                 lastTopologyHash, openSyncs, synced>>

RetriesExhausted(k) ==
  /\ phase[k] = "running"
  /\ attempt[k] = MaxRetries
  /\ phase'   = [phase EXCEPT ![k] = "settled"]
  /\ attempt' = [attempt EXCEPT ![k] = 0]
  /\ result'  = [result EXCEPT ![k] = "failed"]
  /\ openSyncs' = openSyncs - 1
  /\ UNCHANGED <<enabled, args, joinedTo, pendingDebounces, locks, cooling,
                 lastTopologyHash, synced>>

\* Mutant: only the call that holds the lock is answered.
HolderOnly(k) == {k}

Waiters(k) == {k} \cup {j \in Call : joinedTo[j] = k}

Release(k) ==
  /\ phase[k] = "settled"
  /\ locks'    = [locks EXCEPT ![args[k].cluster] = None]
  /\ phase'    = [j \in Call |-> IF j \in Waiters(k) THEN "answered" ELSE phase[j]]
  /\ result'   = [j \in Call |-> IF j \in Waiters(k) THEN result[k] ELSE result[j]]
  /\ joinedTo' = [j \in Call |-> IF j \in Waiters(k) THEN None ELSE joinedTo[j]]
  /\ args'     = [j \in Call |-> IF j \in Waiters(k) THEN None ELSE args[j]]
  /\ UNCHANGED <<enabled, attempt, pendingDebounces, cooling,
                 lastTopologyHash, openSyncs, synced>>

(* The caller resumes with result[k]; the id is free for another call.     *)
Receive(k) ==
  /\ phase[k] = "answered"
  /\ phase'  = [phase EXCEPT ![k] = "unused"]
  /\ result' = [result EXCEPT ![k] = "none"]
  /\ UNCHANGED <<enabled, args, attempt, joinedTo, pendingDebounces, locks, cooling,
                 lastTopologyHash, openSyncs, synced>>

-------------------------------------------------------------------------------
(* The cooldown elapses; resetCooldown(c) has the same effect at once.     *)
CooldownElapses(c) ==
  /\ cooling[c]
  /\ cooling' = [cooling EXCEPT ![c] = FALSE]
  /\ UNCHANGED <<enabled, callVars, pendingDebounces, locks,
                 lastTopologyHash, openSyncs, synced>>

ClearCache ==
  /\ lastTopologyHash' = [c \in Cluster |-> None]
  /\ cooling' = [c \in Cluster |-> FALSE]
  /\ UNCHANGED <<enabled, callVars, pendingDebounces, locks, openSyncs, synced>>

-------------------------------------------------------------------------------
(* Specification.  Fairness: the event loop runs expired timers and the    *)
(* continuations of resolved promises, and a syncCluster issued to         *)
(* ProxySQL is answered, with success or with an error.  Nothing obliges a *)
(* caller to call, nor a sync to succeed.                                  *)

SyncStep(k) ==
  \/ ExecuteDisabled(k)
  \/ ExecuteSkipped(k)
  \/ ExecuteStarts(k)
  \/ AttemptSucceeds(k)
  \/ AttemptFails(k)
  \/ RetriesExhausted(k)
  \/ Release(k)

Next ==
  \/ \E k \in Call, c \in Cluster, t \in Topo, f \in BOOLEAN : Sync(k, c, t, f)
  \/ \E k \in Call : SyncStep(k) \/ Receive(k)
  \/ \E c \in Cluster : CooldownElapses(c)
  \/ ClearCache

Spec == Init /\ [][Next]_syncVars /\ \A k \in Call : WF_syncVars(SyncStep(k))

-------------------------------------------------------------------------------
Executing(k) == phase[k] \in {"running", "settled"}
WritesOrFailed(k) ==
  phase[k] = "running" \/ (phase[k] = "settled" /\ result[k] = "failed")
OwnsTimer(k) == phase[k] = "debouncing" /\ pendingDebounces[args[k].cluster] = k
Superseded(k) == phase[k] = "debouncing" /\ ~OwnsTimer(k)

(* Types of the coordinator's maps; the retry counter stays in its range.  *)
TypeOK ==
  /\ enabled \in BOOLEAN
  /\ phase \in [Call -> Phase]
  /\ args \in [Call -> Args \cup {None}]
  /\ attempt \in [Call -> 0..MaxRetries]
  /\ joinedTo \in [Call -> Call \cup {None}]
  /\ result \in [Call -> Result]
  /\ pendingDebounces \in [Cluster -> Call \cup {None}]
  /\ locks \in [Cluster -> Call \cup {None}]
  /\ cooling \in [Cluster -> BOOLEAN]
  /\ lastTopologyHash \in [Cluster -> Topo \cup {None}]
  /\ openSyncs \in Int
  /\ synced \in [Cluster -> Topo \cup {None, Partial}]

(* A cluster is never synced by two calls at once, although a timer armed  *)
(* before a lock was taken fires without looking at the lock               *)
(* (sync-coordinator.ts:57, "to prevent concurrent syncs").                *)
MutualExclusion ==
  \A j, k \in Call :
    Executing(j) /\ Executing(k) /\ args[j].cluster = args[k].cluster => j = k

(* Cooldown and hash are tested when the timer fires and never again.  Yet *)
(* as long as an unforced sync writes to ProxySQL, and after it has failed *)
(* until its lock is released, it is still due: no other sync of the       *)
(* cluster has completed meanwhile (docs/failover.md:1008, "Minimum time   *)
(* between syncs per cluster"), and the failure leaves neither a cooldown  *)
(* nor a hash that would suppress the next request for this topology.      *)
UnforcedSyncIsDue ==
  \A k \in Call : WritesOrFailed(k) /\ ~args[k].force =>
    /\ ~cooling[args[k].cluster]
    /\ lastTopologyHash[args[k].cluster] # args[k].topo

(* The statistics balance: totalSyncs exceeds successes plus failures by   *)
(* the syncs that are running.                                             *)
StatsBalance == openSyncs = Cardinality({k \in Call : phase[k] = "running"})

(* Every call is answered, except one whose timer a later call cleared:    *)
(* executing and joined calls never wait on each other forever.            *)
LiveCallsAnswered ==
  \A k \in Call :
    (OwnsTimer(k) \/ Executing(k) \/ phase[k] = "joined")
      ~> (phase[k] = "answered" \/ Superseded(k))

(* Per cluster the coordinator serialises writes to ProxySQL and records   *)
(* exactly the completed ones.                                             *)
Serial == INSTANCE SerialSync WITH
  writing  <- [c \in Cluster |->
                 IF locks[c] # None /\ phase[locks[c]] = "running"
                 THEN args[locks[c]].topo ELSE None],
  routed   <- synced,
  recorded <- lastTopologyHash

ImplementsSerialSync == Serial!Spec
===============================================================================
