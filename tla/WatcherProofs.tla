----------------------------- MODULE WatcherProofs -----------------------------
(***************************************************************************)
(* Proofs about SyncCoordinator, for every set of clusters, topologies and *)
(* calls, every number of retries and both values of sync.enabled, and     *)
(* about TopologyWatcher: the coordinator inside the API server, with      *)
(* polls and webhooks as its callers, handlers that never resume and a     *)
(* process that crashes and starts again.                                  *)
(***************************************************************************)
EXTENDS TopologyWatcher, FiniteSetTheorems, TLAPS

-------------------------------------------------------------------------------
(* The coordinator by itself.                                              *)

(* What timers and locks say about the calls they belong to; with TypeOK   *)
(* it is inductive.  An armed timer and a held lock exclude each other,    *)
(* which is why a firing timer need not look at the lock.                  *)
TimerXorLock == \A c \in Cluster : pendingDebounces[c] = None \/ locks[c] = None

TimerIsDebouncing ==
  \A c \in Cluster : pendingDebounces[c] # None =>
    /\ phase[pendingDebounces[c]] = "debouncing"
    /\ args[pendingDebounces[c]] \in Args
    /\ args[pendingDebounces[c]].cluster = c

ExecutorHoldsLock ==
  \A k \in Call : Executing(k) => args[k] \in Args /\ locks[args[k].cluster] = k

HolderExecutes ==
  \A c \in Cluster : locks[c] # None =>
    Executing(locks[c]) /\ args[locks[c]].cluster = c

OnlyJoinedWait == \A k \in Call : joinedTo[k] # None => phase[k] = "joined"

TimersAndLocks ==
  /\ TimerXorLock
  /\ TimerIsDebouncing
  /\ ExecutorHoldsLock
  /\ HolderExecutes
  /\ OnlyJoinedWait

LockInv == TypeOK /\ TimersAndLocks

(* The sentinel for "no call" is none of the values it is compared with.   *)
LEMMA NoneIsOther == None \notin Args /\ None \notin Call /\ None \notin Topo
  BY SyncAssumption DEF Args

(* The constructor's maps are empty and well typed.                        *)
LEMMA InitTypeOK == Init => TypeOK
  BY SyncAssumption DEF Init, TypeOK, Phase, Result

(* Every step keeps the types; that a running call has arguments comes     *)
(* from ExecutorHoldsLock, which is why the two are proved together.       *)
LEMMA NextTypeOK == LockInv /\ [Next]_syncVars => TypeOK'
<1> SUFFICES ASSUME LockInv, [Next]_syncVars PROVE TypeOK'
  OBVIOUS
<1> USE SyncAssumption DEF LockInv, TypeOK
<1>1. ASSUME NEW k \in Call, NEW c \in Cluster, NEW t \in Topo, NEW f \in BOOLEAN,
             Sync(k, c, t, f)
      PROVE  TypeOK'
  <2>1. [cluster |-> c, topo |-> t, force |-> f] \in Args
    BY DEF Args
  <2>2. CASE RejectInvalid(k, c, t, f)
    BY <1>1, <2>2 DEF Sync, RejectInvalid, Phase, Result, Skipped
  <2>3. CASE JoinLock(k, c, t, f) /\ locks[c] # None
    BY <1>1, <2>1, <2>3 DEF Sync, JoinLock, Phase
  <2>4. CASE ArmTimer(k, c, t, f)
    BY <1>1, <2>1, <2>4 DEF Sync, ArmTimer, Phase
  <2> QED
    BY <1>1, <2>2, <2>3, <2>4 DEF Sync
<1>2. ASSUME NEW k \in Call, SyncStep(k) PROVE TypeOK'
  <2>1. CASE ExecuteDisabled(k)
    BY <2>1 DEF ExecuteDisabled, Fires, Phase, Result, Skipped
  <2>2. CASE ExecuteSkipped(k)
    BY <2>2 DEF ExecuteSkipped, Fires, SkipReason, Phase, Result, Skipped
  <2>3. CASE ExecuteStarts(k)
    <3>1. args[k] \in Args /\ args[k].cluster \in Cluster
      BY <2>3 DEF ExecuteStarts, Fires, Args
    <3> QED
      BY <2>3, <3>1 DEF ExecuteStarts, Phase
  <2>4. CASE AttemptSucceeds(k)
    <3>1. args[k].topo \in Topo /\ args[k].cluster \in Cluster
      BY <2>4 DEF AttemptSucceeds, TimersAndLocks, ExecutorHoldsLock, Executing, Args
    <3>2. /\ phase' \in [Call -> Phase]
          /\ attempt' \in [Call -> 0..MaxRetries]
          /\ result' \in [Call -> Result]
      BY <2>4 DEF AttemptSucceeds, Phase, Result
    <3>3. /\ lastTopologyHash' \in [Cluster -> Topo \cup {None}]
          /\ synced' \in [Cluster -> Topo \cup {None, Partial}]
      BY <2>4, <3>1 DEF AttemptSucceeds
    <3>4. cooling' \in [Cluster -> BOOLEAN] /\ openSyncs' \in Int
      BY <2>4, <3>1 DEF AttemptSucceeds
    <3> QED
      BY <2>4, <3>2, <3>3, <3>4 DEF AttemptSucceeds
  <2>5. CASE AttemptFails(k)
    BY <2>5 DEF AttemptFails
  <2>6. CASE RetriesExhausted(k)
    BY <2>6 DEF RetriesExhausted, Phase, Result
  <2>7. CASE Release(k)
    BY <2>7 DEF Release, Phase
  <2> QED
    BY <1>2, <2>1, <2>2, <2>3, <2>4, <2>5, <2>6, <2>7 DEF SyncStep
<1>3. ASSUME NEW k \in Call, Receive(k) PROVE TypeOK'
  BY <1>3 DEF Receive, callVars, Phase, Result
<1>4. ASSUME NEW c \in Cluster, CooldownElapses(c) PROVE TypeOK'
  BY <1>4 DEF CooldownElapses, callVars
<1>5. CASE ClearCache
  BY <1>5 DEF ClearCache, callVars
<1>6. CASE UNCHANGED syncVars
  BY <1>6 DEF syncVars, callVars
<1> QED
  BY <1>1, <1>2, <1>3, <1>4, <1>5, <1>6 DEF Next

-------------------------------------------------------------------------------
(* At the start there is neither a timer nor a lock.                       *)
LEMMA InitLocks == Init => TimersAndLocks
  BY DEF Init, TimersAndLocks, TimerXorLock, TimerIsDebouncing,
         ExecutorHoldsLock, HolderExecutes, OnlyJoinedWait, Executing

(* A call to sync() clears or replaces the timer of its cluster and takes  *)
(* no lock; it arms a timer only where no lock is held.                    *)
LEMMA SyncKeepsLocks ==
  ASSUME LockInv, NEW k \in Call, NEW c \in Cluster, NEW t \in Topo,
         NEW f \in BOOLEAN, Sync(k, c, t, f)
  PROVE  TimersAndLocks'
<1> USE DEF LockInv, TypeOK, TimersAndLocks, Executing
<1>1. [cluster |-> c, topo |-> t, force |-> f] \in Args
  BY DEF Args
<1>2. k \notin {pendingDebounces[d] : d \in Cluster} \cup {locks[d] : d \in Cluster}
  BY NoneIsOther DEF Sync, TimerIsDebouncing, HolderExecutes
<1>3. CASE RejectInvalid(k, c, t, f)
  BY <1>2, <1>3, NoneIsOther DEF Sync, RejectInvalid, TimerXorLock, TimerIsDebouncing,
     ExecutorHoldsLock, HolderExecutes, OnlyJoinedWait
<1>4. CASE locks[c] # None /\ JoinLock(k, c, t, f)
  BY <1>1, <1>2, <1>4, NoneIsOther DEF Sync, JoinLock, TimerXorLock, TimerIsDebouncing,
     ExecutorHoldsLock, HolderExecutes, OnlyJoinedWait
<1>5. CASE locks[c] = None /\ ArmTimer(k, c, t, f)
  BY <1>1, <1>2, <1>5, NoneIsOther DEF Sync, ArmTimer, TimerXorLock, TimerIsDebouncing,
     ExecutorHoldsLock, HolderExecutes, OnlyJoinedWait
<1> QED
  BY <1>3, <1>4, <1>5 DEF Sync

(* A timer that fires takes the lock for its call and disarms itself; the  *)
(* lock is free because an armed timer excludes it.                        *)
LEMMA ExecuteKeepsLocks ==
  ASSUME LockInv, NEW k \in Call,
         ExecuteDisabled(k) \/ ExecuteSkipped(k) \/ ExecuteStarts(k)
  PROVE  TimersAndLocks'
<1> USE DEF LockInv, TypeOK, TimersAndLocks, Executing
<1>1. /\ args[k] \in Args
      /\ args[k].cluster \in Cluster
      /\ pendingDebounces[args[k].cluster] = k
      /\ phase[k] = "debouncing"
  BY NoneIsOther DEF ExecuteDisabled, ExecuteSkipped, ExecuteStarts, Fires, Args,
     TimerIsDebouncing
<1>2. locks[args[k].cluster] = None
  BY <1>1, NoneIsOther DEF TimerXorLock
<1>3. \A c \in Cluster : locks[c] # k
  BY <1>1, NoneIsOther DEF HolderExecutes
<1>4. CASE ExecuteDisabled(k)
  BY <1>1, <1>3, <1>4, NoneIsOther DEF ExecuteDisabled, TimerXorLock, TimerIsDebouncing,
     ExecutorHoldsLock, HolderExecutes, OnlyJoinedWait
<1>5. CASE ExecuteSkipped(k)
  BY <1>1, <1>2, <1>3, <1>5, NoneIsOther DEF ExecuteSkipped, TimerXorLock,
     TimerIsDebouncing, ExecutorHoldsLock, HolderExecutes, OnlyJoinedWait
<1>6. CASE ExecuteStarts(k)
  BY <1>1, <1>2, <1>3, <1>6, NoneIsOther DEF ExecuteStarts, TimerXorLock,
     TimerIsDebouncing, ExecutorHoldsLock, HolderExecutes, OnlyJoinedWait
<1> QED
  BY <1>4, <1>5, <1>6

(* The answers of syncCluster keep the lock where it is.                   *)
LEMMA AttemptKeepsLocks ==
  ASSUME LockInv, NEW k \in Call,
         AttemptSucceeds(k) \/ AttemptFails(k) \/ RetriesExhausted(k)
  PROVE  TimersAndLocks'
<1> USE DEF LockInv, TypeOK, TimersAndLocks, Executing, TimerXorLock,
        TimerIsDebouncing, ExecutorHoldsLock, HolderExecutes, OnlyJoinedWait
<1>1. CASE AttemptSucceeds(k)
  BY <1>1 DEF AttemptSucceeds
<1>2. CASE AttemptFails(k)
  BY <1>2 DEF AttemptFails
<1>3. CASE RetriesExhausted(k)
  BY <1>3 DEF RetriesExhausted
<1> QED
  BY <1>1, <1>2, <1>3

(* Releasing the lock answers the holder and those that joined it, none of *)
(* which owns a timer or another lock.                                     *)
LEMMA ReleaseKeepsLocks ==
  ASSUME LockInv, NEW k \in Call, Release(k)
  PROVE  TimersAndLocks'
<1> USE DEF LockInv, TypeOK, TimersAndLocks, Executing
<1>1. args[k] \in Args /\ args[k].cluster \in Cluster /\ locks[args[k].cluster] = k
  BY DEF Release, ExecutorHoldsLock, Args
<1>2. k \in Waiters(k)
  BY DEF Waiters
<1>3. \A j \in Waiters(k) : (phase[j] = "settled" /\ j = k) \/ phase[j] = "joined"
  BY NoneIsOther DEF Waiters, Release, OnlyJoinedWait
<1>4. TimerXorLock' /\ TimerIsDebouncing'
  BY <1>1, <1>3, NoneIsOther DEF Release, TimerXorLock, TimerIsDebouncing
<1>5. ExecutorHoldsLock'
  BY <1>1, <1>2, <1>3, NoneIsOther DEF Release, ExecutorHoldsLock
<1>6. HolderExecutes'
  BY <1>1, <1>2, <1>3, NoneIsOther DEF Release, HolderExecutes
<1>7. OnlyJoinedWait'
  BY <1>1, <1>2, <1>3, NoneIsOther DEF Release, OnlyJoinedWait
<1> QED
  BY <1>4, <1>5, <1>6, <1>7

(* Every step of the coordinator keeps the discipline of timers and locks. *)
LEMMA NextLocks == LockInv /\ [Next]_syncVars => TimersAndLocks'
<1> SUFFICES ASSUME LockInv, [Next]_syncVars PROVE TimersAndLocks'
  OBVIOUS
<1>1. ASSUME NEW k \in Call, Receive(k) PROVE TimersAndLocks'
  BY <1>1, NoneIsOther DEF Receive, LockInv, TypeOK, TimersAndLocks, Executing,
     TimerXorLock, TimerIsDebouncing, ExecutorHoldsLock, HolderExecutes, OnlyJoinedWait
<1>2. CASE UNCHANGED <<callVars, pendingDebounces, locks>>
  BY <1>2 DEF callVars, LockInv, TimersAndLocks, Executing, TimerXorLock,
     TimerIsDebouncing, ExecutorHoldsLock, HolderExecutes, OnlyJoinedWait
<1>3. ASSUME NEW k \in Call, SyncStep(k) PROVE TimersAndLocks'
  BY <1>3, ExecuteKeepsLocks, AttemptKeepsLocks, ReleaseKeepsLocks DEF SyncStep
<1>4. ASSUME NEW c \in Cluster, CooldownElapses(c) PROVE TimersAndLocks'
  BY <1>2, <1>4 DEF CooldownElapses
<1>5. CASE ClearCache
  BY <1>2, <1>5 DEF ClearCache
<1>6. CASE UNCHANGED syncVars
  BY <1>2, <1>6 DEF syncVars
<1> QED
  BY <1>1, <1>3, <1>4, <1>5, <1>6, SyncKeepsLocks DEF Next

(* Types and locks are invariants of the coordinator.                      *)
THEOREM LockInvariant == Spec => []LockInv
<1>1. Init => LockInv
  BY InitTypeOK, InitLocks DEF LockInv
<1>2. LockInv /\ [Next]_syncVars => LockInv'
  BY NextTypeOK, NextLocks DEF LockInv
<1> QED
  BY <1>1, <1>2, PTL DEF Spec

(* The coordinator's maps keep their types, and the retry counter of every *)
(* call stays within maxRetries, for every configuration.                  *)
THEOREM TypeCorrect == Spec => []TypeOK
<1>1. LockInv => TypeOK
  BY DEF LockInv
<1> QED
  BY <1>1, LockInvariant, PTL

(* No interleaving of calls, timers and answers lets two calls sync one    *)
(* cluster at the same time.                                               *)
THEOREM MutuallyExclusive == Spec => []MutualExclusion
<1>1. LockInv => MutualExclusion
  BY DEF LockInv, TimersAndLocks, ExecutorHoldsLock, MutualExclusion
<1> QED
  BY <1>1, LockInvariant, PTL

-------------------------------------------------------------------------------
(* The decision to sync stays valid while the sync runs and after it has   *)
(* failed: only the holder of the lock starts a cooldown or records a hash.*)
LEMMA DueIsKept == LockInv /\ UnforcedSyncIsDue /\ [Next]_syncVars => UnforcedSyncIsDue'
<1> SUFFICES ASSUME LockInv, UnforcedSyncIsDue, [Next]_syncVars
             PROVE  UnforcedSyncIsDue'
  OBVIOUS
<1> USE DEF LockInv, TypeOK, UnforcedSyncIsDue, WritesOrFailed, Executing
<1>1. ASSUME NEW k \in Call, NEW c \in Cluster, NEW t \in Topo, NEW f \in BOOLEAN,
             Sync(k, c, t, f)
      PROVE  UnforcedSyncIsDue'
  BY <1>1 DEF Sync, RejectInvalid, JoinLock, ArmTimer
<1>2. ASSUME NEW k \in Call, SyncStep(k) PROVE UnforcedSyncIsDue'
  <2>1. CASE ExecuteDisabled(k)
    BY <2>1 DEF ExecuteDisabled
  <2>2. CASE ExecuteSkipped(k)
    BY <2>2 DEF ExecuteSkipped, SkipReason
  <2>3. CASE ExecuteStarts(k)
    BY <2>3 DEF ExecuteStarts, InCooldown, Unchanged
  <2>4. CASE AttemptSucceeds(k)
    <3>1. \A j \in Call \ {k} : Executing(j) => args[j].cluster # args[k].cluster
      BY <2>4 DEF AttemptSucceeds, TimersAndLocks, ExecutorHoldsLock, Executing
    <3>2. args[k] \in Args /\ args[k].cluster \in Cluster
      BY <2>4 DEF AttemptSucceeds, TimersAndLocks, ExecutorHoldsLock, Executing, Args
    <3> QED
      BY <2>4, <3>1, <3>2 DEF AttemptSucceeds
  <2>5. CASE AttemptFails(k)
    BY <2>5 DEF AttemptFails
  <2>6. CASE RetriesExhausted(k)
    BY <2>6 DEF RetriesExhausted
  <2>7. CASE Release(k)
    BY <2>7 DEF Release
  <2> QED
    BY <1>2, <2>1, <2>2, <2>3, <2>4, <2>5, <2>6, <2>7 DEF SyncStep
<1>3. ASSUME NEW k \in Call, Receive(k) PROVE UnforcedSyncIsDue'
  BY <1>3 DEF Receive
<1>4. ASSUME NEW c \in Cluster, CooldownElapses(c) PROVE UnforcedSyncIsDue'
  BY <1>4 DEF CooldownElapses, callVars
<1>5. CASE ClearCache
  <2>1. \A k \in Call : Executing(k) =>
          args[k].cluster \in Cluster /\ args[k].topo \in Topo
    BY DEF TimersAndLocks, ExecutorHoldsLock, Executing, Args
  <2> QED
    BY <1>5, <2>1, NoneIsOther DEF ClearCache, callVars
<1>6. CASE UNCHANGED syncVars
  BY <1>6 DEF syncVars, callVars
<1> QED
  BY <1>1, <1>2, <1>3, <1>4, <1>5, <1>6 DEF Next

(* What the tests of cooldown and hash established when the timer fired    *)
(* still holds while the sync writes to ProxySQL and after it has failed.  *)
THEOREM UnforcedSyncStaysDue == Spec => []UnforcedSyncIsDue
<1>1. Init => UnforcedSyncIsDue
  BY DEF Init, UnforcedSyncIsDue, WritesOrFailed
<1> QED
  BY <1>1, DueIsKept, LockInvariant, PTL DEF Spec

-------------------------------------------------------------------------------
(* Refinement: the topology being written to a cluster is that of the call *)
(* holding its lock while that call runs.                                  *)
Written(c) == IF locks[c] # None /\ phase[locks[c]] = "running"
              THEN args[locks[c]].topo ELSE None

(* Calls that neither start nor end a run leave every write in place.      *)
LEMMA WritingUnchanged ==
  ASSUME LockInv, NEW k \in Call, NEW c \in Cluster,
         ~Executing(k),
         phase' = [phase EXCEPT ![k] = phase'[k]], ~Executing(k)',
         \A j \in Call \ {k} : args'[j] = args[j],
         locks' = locks
  PROVE  Written(c)' = Written(c)
  BY DEF LockInv, TypeOK, TimersAndLocks, HolderExecutes, Executing, Written

(* ExecuteStarts begins a write, AttemptSucceeds commits it,               *)
(* RetriesExhausted aborts it, ClearCache forgets; the rest stutters.      *)
LEMMA StepSimulation == LockInv /\ [Next]_syncVars => [Serial!Next]_(Serial!serialVars)
<1> SUFFICES ASSUME LockInv, [Next]_syncVars
             PROVE  Serial!Next \/ UNCHANGED Serial!serialVars
  OBVIOUS
<1> DEFINE writing == [c \in Cluster |-> Written(c)]
<1> USE DEF LockInv, TypeOK
<1>1. ASSUME UNCHANGED <<synced, lastTopologyHash>>,
             \A c \in Cluster : Written(c)' = Written(c)
      PROVE  UNCHANGED Serial!serialVars
  BY <1>1 DEF Written, Serial!serialVars
<1>2. ASSUME NEW k \in Call, NEW c \in Cluster, NEW t \in Topo, NEW f \in BOOLEAN,
             Sync(k, c, t, f)
      PROVE  UNCHANGED Serial!serialVars
  <2>1. \A d \in Cluster : Written(d)' = Written(d)
    BY <1>2, WritingUnchanged DEF Sync, RejectInvalid, JoinLock, ArmTimer, Executing
  <2> QED
    BY <1>1, <1>2, <2>1 DEF Sync
<1>3. ASSUME NEW k \in Call, SyncStep(k)
      PROVE  Serial!Next \/ UNCHANGED Serial!serialVars
  <2>1. CASE ExecuteDisabled(k)
    <3>1. phase[k] = "debouncing"
      BY <2>1, NoneIsOther DEF ExecuteDisabled, Fires, Args, TimersAndLocks,
         TimerIsDebouncing
    <3>2. \A d \in Cluster : Written(d)' = Written(d)
      BY <2>1, <3>1, WritingUnchanged DEF ExecuteDisabled, Executing
    <3> QED
      BY <1>1, <2>1, <3>2 DEF ExecuteDisabled
  <2>2. CASE ExecuteSkipped(k)
    <3>1. /\ args[k].cluster \in Cluster
          /\ locks[args[k].cluster] = None
          /\ \A c \in Cluster : locks[c] # k
      BY <2>2, NoneIsOther DEF ExecuteSkipped, Fires, Args, TimersAndLocks,
         TimerXorLock, TimerIsDebouncing, HolderExecutes, Executing
    <3>2. \A d \in Cluster : Written(d)' = Written(d)
      BY <2>2, <3>1, NoneIsOther DEF ExecuteSkipped, Written
    <3> QED
      BY <1>1, <2>2, <3>2 DEF ExecuteSkipped
  <2>3. CASE ExecuteStarts(k)
    <3>0. PICK c \in Cluster : c = args[k].cluster
      BY <2>3 DEF ExecuteStarts, Fires, Args
    <3>1. /\ args[k] \in Args
          /\ locks[c] = None
          /\ \A d \in Cluster : locks[d] # k
      BY <2>3, <3>0, NoneIsOther DEF ExecuteStarts, Fires, Args, TimersAndLocks,
         TimerXorLock, TimerIsDebouncing, HolderExecutes, Executing
    <3>2. args[k].topo \in Topo
      BY <3>1 DEF Args
    <3>3. \A d \in Cluster \ {c} : Written(d)' = Written(d)
      BY <2>3, <3>0, <3>1, NoneIsOther DEF ExecuteStarts, Written
    <3>4. Written(c) = None /\ Written(c)' = args[k].topo
      BY <2>3, <3>0, <3>1, NoneIsOther DEF ExecuteStarts, Written
    <3>5. writing' = [writing EXCEPT ![c] = args[k].topo]
      BY <3>3, <3>4
    <3>6. Serial!Begin(c)
      BY <2>3, <3>0, <3>1, <3>2, <3>4, <3>5 DEF ExecuteStarts, Serial!Begin, Written
    <3> QED
      BY <3>6 DEF Serial!Next
  <2>4. CASE AttemptSucceeds(k) \/ RetriesExhausted(k)
    <3>0. PICK c \in Cluster : c = args[k].cluster
      BY <2>4 DEF AttemptSucceeds, RetriesExhausted, Args, TimersAndLocks,
         ExecutorHoldsLock, Executing
    <3>1. args[k] \in Args /\ locks[c] = k
      BY <2>4, <3>0 DEF AttemptSucceeds, RetriesExhausted, Args, TimersAndLocks,
         ExecutorHoldsLock, Executing
    <3>2. \A d \in Cluster \ {c} : locks[d] # k
      BY <3>0, <3>1, NoneIsOther DEF TimersAndLocks, HolderExecutes
    <3>3. Written(c) = args[k].topo /\ args[k].topo \in Topo
      BY <2>4, <3>0, <3>1, NoneIsOther DEF AttemptSucceeds, RetriesExhausted, Written, Args
    <3>4. Written(c)' = None
      BY <2>4, <3>0, <3>1 DEF AttemptSucceeds, RetriesExhausted, Written
    <3>5. \A d \in Cluster \ {c} : Written(d)' = Written(d)
      BY <2>4, <3>2 DEF AttemptSucceeds, RetriesExhausted, Written
    <3>6. writing' = [writing EXCEPT ![c] = None]
      BY <3>4, <3>5
    <3>7. CASE AttemptSucceeds(k)
      <4>1. Serial!Commit(c)
        BY <3>0, <3>1, <3>3, <3>6, <3>7 DEF AttemptSucceeds, Serial!Commit, Written
      <4> QED
        BY <4>1 DEF Serial!Next
    <3>8. CASE RetriesExhausted(k)
      <4>1. Serial!Abort(c)
        BY <3>0, <3>1, <3>3, <3>6, <3>8 DEF RetriesExhausted, Serial!Abort, Written
      <4> QED
        BY <4>1 DEF Serial!Next
    <3> QED
      BY <2>4, <3>7, <3>8
  <2>5. CASE AttemptFails(k)
    BY <1>1, <2>5 DEF AttemptFails, Written
  <2>6. CASE Release(k)
    <3>1. args[k].cluster \in Cluster /\ locks[args[k].cluster] = k
      BY <2>6 DEF Release, Args, TimersAndLocks, ExecutorHoldsLock, Executing
    <3>2. \A j \in Waiters(k) : j \in Call /\ phase[j] # "running"
      BY <2>6, NoneIsOther DEF Release, Waiters, TimersAndLocks, OnlyJoinedWait
    <3>3. \A d \in Cluster : Written(d)' = Written(d)
      BY <2>6, <3>1, <3>2 DEF Release, Written
    <3> QED
      BY <1>1, <2>6, <3>3 DEF Release
  <2> QED
    BY <1>3, <2>1, <2>2, <2>3, <2>4, <2>5, <2>6 DEF SyncStep
<1>4. ASSUME NEW k \in Call, Receive(k) PROVE UNCHANGED Serial!serialVars
  <2>1. \A d \in Cluster : Written(d)' = Written(d)
    BY <1>4, WritingUnchanged DEF Receive, Executing
  <2> QED
    BY <1>1, <1>4, <2>1 DEF Receive
<1>5. ASSUME NEW c \in Cluster, CooldownElapses(c) PROVE UNCHANGED Serial!serialVars
  BY <1>1, <1>5 DEF CooldownElapses, callVars, Written
<1>6. CASE ClearCache
  <2>1. writing' = writing
    BY <1>6 DEF ClearCache, callVars, Written
  <2>2. Serial!Forget
    BY <1>6, <2>1 DEF ClearCache, Serial!Forget, Written
  <2> QED
    BY <2>2 DEF Serial!Next
<1>7. CASE UNCHANGED syncVars
  BY <1>1, <1>7 DEF syncVars, callVars, Written
<1> QED
  BY <1>2, <1>3, <1>4, <1>5, <1>6, <1>7 DEF Next

(* The coordinator implements the serial writer: per cluster its writes to *)
(* ProxySQL never overlap, and exactly the completed ones are recorded.    *)
THEOREM CoordinatorIsSerial == Spec => ImplementsSerialSync
<1>1. Init => Serial!Init
  BY DEF Init, Serial!Init
<1> QED
  BY <1>1, StepSimulation, LockInvariant, PTL DEF Spec, ImplementsSerialSync, Serial!Spec

-------------------------------------------------------------------------------
Running == {k \in Call : phase[k] = "running"}

(* Every step but the start and the end of a doSync keeps the running set. *)
LEMMA BalanceIsKept ==
  ASSUME IsFiniteSet(Call), LockInv, StatsBalance, [Next]_syncVars
  PROVE  StatsBalance'
<1> USE DEF LockInv, TypeOK
<1>1. IsFiniteSet(Running)
  BY FS_Subset DEF Running
<1>2. ASSUME Running' = Running, openSyncs' = openSyncs PROVE StatsBalance'
  BY <1>2 DEF StatsBalance, Running
<1>3. ASSUME NEW k \in Call, SyncStep(k) PROVE StatsBalance'
  <2>1. CASE ExecuteStarts(k)
    <3>1. phase[k] = "debouncing"
      BY <2>1, NoneIsOther DEF ExecuteStarts, Fires, Args, TimersAndLocks,
         TimerIsDebouncing
    <3>2. Running' = Running \cup {k} /\ k \notin Running
      BY <2>1, <3>1 DEF ExecuteStarts, Running
    <3>3. Cardinality(Running \cup {k}) = Cardinality(Running) + 1
      BY <1>1, <3>2, FS_AddElement
    <3> QED
      BY <2>1, <3>2, <3>3 DEF ExecuteStarts, StatsBalance, Running
  <2>2. CASE AttemptSucceeds(k) \/ RetriesExhausted(k)
    <3>1. Running' = Running \ {k} /\ k \in Running
      BY <2>2 DEF AttemptSucceeds, RetriesExhausted, Running
    <3>2. Cardinality(Running \ {k}) = Cardinality(Running) - 1
      BY <1>1, <3>1, FS_RemoveElement
    <3> QED
      BY <2>2, <3>1, <3>2 DEF AttemptSucceeds, RetriesExhausted, StatsBalance, Running
  <2>3. CASE ExecuteDisabled(k) \/ ExecuteSkipped(k)
    <3>1. phase[k] = "debouncing"
      BY <2>3, NoneIsOther DEF ExecuteDisabled, ExecuteSkipped, Fires, Args,
         TimersAndLocks, TimerIsDebouncing
    <3> QED
      BY <1>2, <2>3, <3>1 DEF ExecuteDisabled, ExecuteSkipped, Running
  <2>4. CASE AttemptFails(k)
    BY <1>2, <2>4 DEF AttemptFails, Running
  <2>5. CASE Release(k)
    <3>1. \A j \in Waiters(k) : phase[j] # "running"
      BY <2>5, NoneIsOther DEF Release, Waiters, TimersAndLocks, OnlyJoinedWait
    <3> QED
      BY <1>2, <2>5, <3>1 DEF Release, Running
  <2> QED
    BY <1>3, <2>1, <2>2, <2>3, <2>4, <2>5 DEF SyncStep
<1>4. ASSUME NEW k \in Call, NEW c \in Cluster, NEW t \in Topo, NEW f \in BOOLEAN,
             Sync(k, c, t, f)
      PROVE  StatsBalance'
  BY <1>2, <1>4 DEF Sync, RejectInvalid, JoinLock, ArmTimer, Running
<1>5. ASSUME NEW k \in Call, Receive(k) PROVE StatsBalance'
  BY <1>2, <1>5 DEF Receive, Running
<1>6. ASSUME NEW c \in Cluster, CooldownElapses(c) PROVE StatsBalance'
  BY <1>2, <1>6 DEF CooldownElapses, callVars, Running
<1>7. CASE ClearCache \/ UNCHANGED syncVars
  BY <1>2, <1>7 DEF ClearCache, syncVars, callVars, Running
<1> QED
  BY <1>3, <1>4, <1>5, <1>6, <1>7 DEF Next

(* The statistics never lose or double-count a sync, whichever way it      *)
(* ended, provided finitely many calls are outstanding.                    *)
THEOREM StatsStayBalanced == ASSUME IsFiniteSet(Call) PROVE Spec => []StatsBalance
<1>1. Init => StatsBalance
  <2>1. Init => {k \in Call : phase[k] = "running"} = {}
    BY DEF Init
  <2> QED
    BY <2>1, FS_EmptySet DEF Init, StatsBalance
<1>2. LockInv /\ StatsBalance /\ [Next]_syncVars => StatsBalance'
  BY BalanceIsKept
<1> QED
  BY <1>1, <1>2, LockInvariant, PTL DEF Spec

-------------------------------------------------------------------------------
(* The coordinator in the API server.                                      *)

(* A call of sync() is made, and awaited, by a handler that has fetched.   *)
CallersHaveFetched == \A k \in Call : phase[k] # "unused" => fetched[k] # None

ServerInv == WatcherTypeOK /\ LockInv /\ UnforcedSyncIsDue /\ CallersHaveFetched

LEMMA NothingIsFetched == None \notin Fetched
  BY WatcherAssumption DEF Fetched

LEMMA ServerInit == WatcherInit => ServerInv
<1> SUFFICES ASSUME WatcherInit PROVE ServerInv
  OBVIOUS
<1>1. LockInv /\ UnforcedSyncIsDue
  BY InitTypeOK, InitLocks DEF WatcherInit, Init, LockInv, UnforcedSyncIsDue, WritesOrFailed
<1>2. WatcherTypeOK
  BY <1>1, WatcherAssumption DEF WatcherInit, WatcherTypeOK, LockInv, CallsHave, ClustersHave
<1>3. CallersHaveFetched
  BY DEF WatcherInit, Init, CallersHaveFetched
<1>. QED
  BY <1>1, <1>2, <1>3 DEF ServerInv

(* What the coordinator's part of a step has to be.                        *)
LEMMA CoordinatorKeeps ==
  ASSUME ServerInv, [Next]_syncVars PROVE LockInv' /\ UnforcedSyncIsDue'
  BY NextTypeOK, NextLocks, DueIsKept DEF ServerInv, LockInv

(* Polls and webhooks call sync() and receive its answers, and leave the   *)
(* rest to the coordinator.                                                *)
LEMMA Callers ==
  ASSUME ServerInv, NEW p \in Call,
         PollSyncs(p) \/ PollResumes(p) \/ WebhookSyncs(p) \/ WebhookReplies(p)
  PROVE  Next
<1>2. CASE PollSyncs(p) \/ WebhookSyncs(p)
  <2>1. fetched[p] \in Fetched
    BY <1>2 DEF PollSyncs, WebhookSyncs, Arrived, ServerInv, WatcherTypeOK
  <2>2. fetched[p].cluster \in Cluster /\ fetched[p].topo \in Topo
    BY <2>1 DEF Fetched
  <2>3. Sync(p, fetched[p].cluster, fetched[p].topo, FALSE)
    BY <1>2 DEF PollSyncs, WebhookSyncs
  <2>. QED
    BY <2>2, <2>3 DEF Next
<1>3. CASE PollResumes(p) \/ WebhookReplies(p)
  BY <1>3 DEF PollResumes, WebhookReplies, Next
<1>. QED
  BY <1>2, <1>3

LEMMA CoordinatorPart ==
  ASSUME ServerInv, WatcherNext
  PROVE  [Next]_syncVars \/ (\E k \in Call : Abandoned(k)) \/ Restart
<1>1. CASE \E p \in Poll : StartWatcher(p) \/ IntervalFires(p)
  BY <1>1 DEF StartWatcher, IntervalFires
<1>2. CASE \E p \in Poll : PollStep(p)
  <2>1. PICK p \in Poll : PollStep(p)
    BY <1>2
  <2>2. p \in Call
    BY WatcherAssumption
  <2>3. CASE PollSyncs(p) \/ PollResumes(p)
    BY <2>2, <2>3, Callers
  <2>4. CASE (\E c \in Cluster : Fetch(p, c) \/ FetchFails(p, c)) \/ PollUnchanged(p) \/ PollEnds(p)
    BY <2>4 DEF Fetch, FetchFails, PollUnchanged, PollEnds
  <2>. QED
    BY <2>1, <2>3, <2>4 DEF PollStep
<1>3. CASE \E k \in Call \ Poll : (\E c \in Cluster : WebhookFetches(k, c)) \/ WebhookStep(k)
  BY <1>3, Callers DEF WebhookFetches, WebhookStep
<1>4. CASE \E k \in Call : CoordinatorStep(k)
  BY <1>4 DEF CoordinatorStep, Next
<1>5. CASE \E c \in Cluster : CooldownEnds(c) \/ RecoveryEnds(c) \/ LagChanges(c)
  BY <1>5 DEF CooldownEnds, RecoveryEnds, LagChanges, Next
<1>6. CASE \E c \in Cluster, t \in Topo : TopologyChanges(c, t)
  BY <1>6 DEF TopologyChanges
<1>. QED
  BY <1>1, <1>2, <1>3, <1>4, <1>5, <1>6 DEF WatcherNext

(* A promise that never resolves belongs to a call without timer and lock. *)
LEMMA AbandonedKeeps ==
  ASSUME ServerInv, NEW k \in Call, Abandoned(k) PROVE LockInv' /\ UnforcedSyncIsDue'
<1>1. /\ phase' = [phase EXCEPT ![k] = "unused"] /\ args' = [args EXCEPT ![k] = None]
      /\ phase[k] = "debouncing" /\ ~OwnsTimer(k)
      /\ UNCHANGED <<enabled, attempt, joinedTo, result, pendingDebounces, locks, cooling,
                     lastTopologyHash, openSyncs, synced>>
  BY DEF Abandoned, Superseded
<1> USE DEF ServerInv, LockInv, TypeOK
<1>2. TypeOK'
  BY <1>1 DEF Phase
<1>3. \A c \in Cluster : pendingDebounces[c] # k /\ locks[c] # k
  <2> SUFFICES ASSUME NEW c \in Cluster PROVE pendingDebounces[c] # k /\ locks[c] # k
    OBVIOUS
  <2>1. k # None
    BY NoneIsOther
  <2>2. pendingDebounces[c] = k => OwnsTimer(k)
    BY <1>1, <2>1 DEF TimersAndLocks, TimerIsDebouncing, OwnsTimer
  <2>3. locks[c] = k => Executing(k)
    BY <2>1 DEF TimersAndLocks, HolderExecutes
  <2>. QED
    BY <1>1, <2>2, <2>3 DEF Executing
<1>4. TimersAndLocks'
  BY <1>1, <1>3 DEF TimersAndLocks, TimerXorLock, TimerIsDebouncing, ExecutorHoldsLock, HolderExecutes,
     OnlyJoinedWait, Executing
<1>5. UnforcedSyncIsDue'
  BY <1>1 DEF UnforcedSyncIsDue, WritesOrFailed
<1>. QED
  BY <1>2, <1>4, <1>5

(* A new process has neither calls nor timers nor locks.                   *)
LEMMA RestartKeeps == ASSUME ServerInv, Restart PROVE LockInv' /\ UnforcedSyncIsDue'
<1>1. /\ phase' = [k \in Call |-> "unused"] /\ args' = [k \in Call |-> None]
      /\ attempt' = [k \in Call |-> 0] /\ joinedTo' = [k \in Call |-> None]
      /\ result' = [k \in Call |-> "none"]
      /\ pendingDebounces' = [c \in Cluster |-> None] /\ locks' = [c \in Cluster |-> None]
      /\ cooling' = [c \in Cluster |-> FALSE] /\ lastTopologyHash' = [c \in Cluster |-> None]
      /\ openSyncs' = 0 /\ UNCHANGED <<enabled, synced>>
  BY DEF Restart, CallsHave, ClustersHave
<1>2. TypeOK'
  BY <1>1, SyncAssumption DEF ServerInv, LockInv, TypeOK, Phase, Result
<1>3. TimersAndLocks'
  BY <1>1 DEF TimersAndLocks, TimerXorLock, TimerIsDebouncing, ExecutorHoldsLock, HolderExecutes,
     OnlyJoinedWait, Executing
<1>4. UnforcedSyncIsDue'
  BY <1>1 DEF UnforcedSyncIsDue, WritesOrFailed
<1>. QED
  BY <1>2, <1>3, <1>4 DEF LockInv

-------------------------------------------------------------------------------
(* The steps, and what they do to the watcher's own state.                 *)

Own ==
  /\ topology \in [Cluster -> Topo]
  /\ watcher \in {"off", "starting", "watching", "stuck"}
  /\ polls \subseteq Poll
  /\ todo \in [Poll -> SUBSET Cluster]
  /\ fetched \in [Call -> Fetched \cup {None}]
  /\ lastTopologyHashes \in [Cluster -> Topo \cup {None}]
  /\ recovering \in [Cluster -> BOOLEAN]
  /\ events \in 0..MaxEvents

LEMMA EventKeeps == ASSUME ServerInv, Event PROVE events' \in 0..MaxEvents
  BY WatcherAssumption DEF Event, ServerInv, WatcherTypeOK

LEMMA HasFetched ==
  ASSUME ServerInv, NEW k \in Call, fetched[k] # None
  PROVE  /\ fetched[k] \in Fetched /\ fetched[k].cluster \in Cluster /\ fetched[k].topo \in Topo
  BY DEF ServerInv, WatcherTypeOK, Fetched

(* While the coordinator works, it answers calls and makes none.           *)
LEMMA CoordinatorCallsNone ==
  ASSUME ServerInv, NEW k \in Call, SyncStep(k), NEW j \in Call, phase'[j] # "unused"
  PROVE  phase[j] # "unused"
<1> USE DEF ServerInv, LockInv, TypeOK
<1>1. CASE ExecuteDisabled(k) \/ ExecuteSkipped(k) \/ ExecuteStarts(k)
  <2>1. args[k] \in Args /\ pendingDebounces[args[k].cluster] = k
    BY <1>1, NoneIsOther DEF ExecuteDisabled, ExecuteSkipped, ExecuteStarts, Fires
  <2>2. phase[k] = "debouncing"
    BY <2>1, NoneIsOther DEF TimersAndLocks, TimerIsDebouncing, Args
  <2>. QED
    BY <1>1, <2>2 DEF ExecuteDisabled, ExecuteSkipped, ExecuteStarts
<1>2. CASE AttemptSucceeds(k) \/ AttemptFails(k) \/ RetriesExhausted(k)
  BY <1>2 DEF AttemptSucceeds, AttemptFails, RetriesExhausted
<1>3. CASE Release(k)
  BY <1>3, NoneIsOther DEF Release, Waiters, TimersAndLocks, OnlyJoinedWait
<1>. QED
  BY <1>1, <1>2, <1>3 DEF SyncStep

LEMMA PollKeeps ==
  ASSUME ServerInv, NEW p \in Poll, StartWatcher(p) \/ IntervalFires(p) \/ PollStep(p)
  PROVE  Own' /\ CallersHaveFetched'
<1> USE DEF ServerInv, WatcherTypeOK, Own, CallersHaveFetched
<1>0. p \in Call
  BY WatcherAssumption
<1>1. CASE StartWatcher(p) \/ IntervalFires(p)
  BY <1>1 DEF StartWatcher, IntervalFires, BeginPoll, syncVars, callVars
<1>2. CASE \E c \in Cluster : Fetch(p, c) \/ FetchFails(p, c)
  <2>1. PICK c \in Cluster : Fetch(p, c) \/ FetchFails(p, c)
    BY <1>2
  <2>2. CASE Fetch(p, c)
    <3>1. [cluster |-> c, topo |-> topology[c]] \in Fetched
      BY DEF Fetched
    <3>. QED
      BY <1>0, <2>2, <3>1, NothingIsFetched DEF Fetch, Visits, syncVars, callVars
  <2>3. CASE FetchFails(p, c)
    BY <2>3 DEF FetchFails, Visits, syncVars, callVars
  <2>. QED
    BY <2>1, <2>2, <2>3
<1>3. CASE PollUnchanged(p)
  <2>1. fetched[p].cluster \in Cluster /\ phase[p] = "unused"
    BY <1>0, <1>3, HasFetched DEF PollUnchanged, Arrived
  <2>. QED
    BY <1>0, <1>3, <2>1 DEF PollUnchanged, AttemptReplicaRecovery, syncVars, callVars
<1>4. CASE PollSyncs(p)
  <2>1. fetched[p].cluster \in Cluster /\ fetched[p] # None
    BY <1>0, <1>4, HasFetched DEF PollSyncs, Arrived
  <2>2. \A j \in Call \ {p} : phase'[j] = phase[j]
    BY <1>0, <1>4 DEF PollSyncs, Sync, RejectInvalid, JoinLock, ArmTimer, LockInv, TypeOK
  <2>. QED
    BY <1>0, <1>4, <2>1, <2>2 DEF PollSyncs, AttemptReplicaRecovery
<1>5. CASE PollResumes(p)
  <2>1. fetched[p].cluster \in Cluster /\ fetched[p].topo \in Topo
    BY <1>0, <1>5, HasFetched DEF PollResumes, Receive
  <2>2. phase' = [phase EXCEPT ![p] = "unused"]
    BY <1>5 DEF PollResumes, Receive
  <2>. QED
    BY <1>0, <1>5, <2>1, <2>2 DEF PollResumes, LockInv, TypeOK
<1>6. CASE PollEnds(p)
  BY <1>6 DEF PollEnds, syncVars, callVars
<1>. QED
  BY <1>1, <1>2, <1>3, <1>4, <1>5, <1>6 DEF PollStep

LEMMA WebhookKeeps ==
  ASSUME ServerInv, NEW k \in Call,
         (\E c \in Cluster : WebhookFetches(k, c)) \/ WebhookStep(k) \/ CoordinatorStep(k)
           \/ Abandoned(k)
  PROVE  Own' /\ CallersHaveFetched'
<1> USE DEF ServerInv, WatcherTypeOK, Own, CallersHaveFetched
<1>1. CASE \E c \in Cluster : WebhookFetches(k, c)
  <2>1. PICK c \in Cluster : WebhookFetches(k, c)
    BY <1>1
  <2>2. [cluster |-> c, topo |-> topology[c]] \in Fetched
    BY DEF Fetched
  <2>3. events' \in 0..MaxEvents
    BY <2>1, EventKeeps DEF WebhookFetches
  <2>. QED
    BY <2>1, <2>2, <2>3, NothingIsFetched DEF WebhookFetches, syncVars, callVars
<1>2. CASE WebhookSyncs(k)
  <2>1. \A j \in Call \ {k} : phase'[j] = phase[j]
    BY <1>2 DEF WebhookSyncs, Sync, RejectInvalid, JoinLock, ArmTimer, LockInv, TypeOK
  <2>. QED
    BY <1>2, <2>1 DEF WebhookSyncs, Arrived, watcherVars
<1>3. CASE WebhookReplies(k)
  <2>1. phase' = [phase EXCEPT ![k] = "unused"]
    BY <1>3 DEF WebhookReplies, Receive
  <2>. QED
    BY <1>3, <2>1 DEF WebhookReplies, LockInv, TypeOK
<1>4. CASE CoordinatorStep(k)
  BY <1>4, CoordinatorCallsNone DEF CoordinatorStep, KeepWatcher, watcherVars
<1>5. CASE Abandoned(k)
  BY <1>5 DEF Abandoned, LockInv, TypeOK
<1>. QED
  BY <1>1, <1>2, <1>3, <1>4, <1>5 DEF WebhookStep

LEMMA RestKeeps ==
  ASSUME ServerInv,
         \/ \E c \in Cluster : CooldownEnds(c) \/ RecoveryEnds(c) \/ LagChanges(c)
         \/ \E c \in Cluster, t \in Topo : TopologyChanges(c, t)
         \/ Restart
         \/ UNCHANGED allVars
  PROVE  Own' /\ CallersHaveFetched'
<1> USE DEF ServerInv, WatcherTypeOK, Own, CallersHaveFetched
<1>1. CASE \E c \in Cluster : CooldownEnds(c) \/ RecoveryEnds(c) \/ LagChanges(c)
  BY <1>1 DEF CooldownEnds, CooldownElapses, KeepWatcher, watcherVars, RecoveryEnds, LagChanges,
     syncVars, callVars
<1>2. CASE \E c \in Cluster, t \in Topo : TopologyChanges(c, t)
  BY <1>2, EventKeeps DEF TopologyChanges, syncVars, callVars, watcherVars
<1>3. CASE Restart
  BY <1>3, EventKeeps DEF Restart, CallsHave, ClustersHave
<1>4. CASE UNCHANGED allVars
  BY <1>4 DEF allVars, syncVars, callVars, watcherVars
<1>. QED
  BY <1>1, <1>2, <1>3, <1>4

LEMMA ServerNext == ServerInv /\ [WatcherNext]_allVars => ServerInv'
<1> SUFFICES ASSUME ServerInv, [WatcherNext]_allVars PROVE ServerInv'
  OBVIOUS
<1>1. LockInv' /\ UnforcedSyncIsDue'
  <2>1. CASE WatcherNext
    BY <2>1, CoordinatorPart, CoordinatorKeeps, AbandonedKeeps, RestartKeeps
  <2>2. CASE UNCHANGED allVars
    BY <2>2, CoordinatorKeeps DEF allVars
  <2>. QED
    BY <2>1, <2>2
<1>2. Own' /\ CallersHaveFetched'
  BY PollKeeps, WebhookKeeps, RestKeeps DEF WatcherNext
<1>3. WatcherTypeOK'
  BY <1>1, <1>2 DEF Own, WatcherTypeOK, LockInv
<1>. QED
  BY <1>1, <1>2, <1>3 DEF ServerInv

LEMMA ServerAlways == WatcherSpec => []ServerInv
  BY ServerInit, ServerNext, PTL DEF WatcherSpec

-------------------------------------------------------------------------------
(* Polls, webhooks, lost handlers and crashes keep every map well typed;   *)
(* with it, whoever awaits sync() has fetched what it syncs.               *)
THEOREM WatcherTypes == WatcherSpec => []WatcherTypeOK
<1>1. ServerInv => WatcherTypeOK
  BY DEF ServerInv
<1>. QED
  BY <1>1, ServerAlways, PTL

(* Inside the server, where polls overlap, handlers are lost and the       *)
(* process crashes in the middle of a sync, a cluster still has one writer *)
(* at a time (sync-coordinator.ts:57).                                     *)
THEOREM ServerHasOneWriter == WatcherSpec => []MutualExclusion
<1>1. ServerInv => MutualExclusion
  BY DEF ServerInv, LockInv, TimersAndLocks, ExecutorHoldsLock, MutualExclusion
<1>. QED
  BY <1>1, ServerAlways, PTL

(* Inside the server, too, no unforced sync writes that is not due.        *)
THEOREM ServerSyncsWhenDue == WatcherSpec => []UnforcedSyncIsDue
<1>1. ServerInv => UnforcedSyncIsDue
  BY DEF ServerInv
<1>. QED
  BY <1>1, ServerAlways, PTL

-------------------------------------------------------------------------------
(* The refinement, inside the server.                                      *)
LEMMA AbandonedStutters ==
  ASSUME ServerInv, NEW k \in Call, Abandoned(k) PROVE UNCHANGED Serial!serialVars
<1>1. /\ phase' = [phase EXCEPT ![k] = "unused"] /\ args' = [args EXCEPT ![k] = None]
      /\ phase[k] = "debouncing" /\ UNCHANGED <<locks, synced, lastTopologyHash>>
  BY DEF Abandoned, Superseded
<1>2. /\ phase' = [phase EXCEPT ![k] = phase'[k]] /\ ~Executing(k) /\ ~Executing(k)'
      /\ \A j \in Call \ {k} : args'[j] = args[j]
  BY <1>1 DEF ServerInv, LockInv, TypeOK, Executing
<1>3. \A c \in Cluster : Written(c)' = Written(c)
  BY <1>1, <1>2, WritingUnchanged DEF ServerInv
<1>. QED
  BY <1>1, <1>3 DEF Written, Serial!serialVars

LEMMA RestartCrashes == ASSUME Restart PROVE Serial!Crash
<1>1. /\ locks' = [c \in Cluster |-> None] /\ lastTopologyHash' = [c \in Cluster |-> None]
      /\ UNCHANGED synced
  BY DEF Restart, ClustersHave
<1>. QED
  BY <1>1 DEF Serial!Crash

(* Polls, webhooks, lost handlers and crashes of the process included, the *)
(* server's coordinator writes to a cluster serially, and what it records  *)
(* is what a completed write has left.                                     *)
THEOREM ServerIsSerial == WatcherSpec => ServerImplementsSerialSync
<1>1. WatcherInit => Serial!Init
  BY DEF WatcherInit, Init, Serial!Init
<1>2. ServerInv /\ [WatcherNext]_allVars => [Serial!Next \/ Serial!Crash]_(Serial!serialVars)
  <2> SUFFICES ASSUME ServerInv, [WatcherNext]_allVars
               PROVE  Serial!Next \/ Serial!Crash \/ UNCHANGED Serial!serialVars
    OBVIOUS
  <2>1. [Next]_syncVars \/ (\E k \in Call : Abandoned(k)) \/ Restart
    BY CoordinatorPart DEF allVars
  <2>2. CASE [Next]_syncVars
    BY <2>2, StepSimulation DEF ServerInv
  <2>. QED
    BY <2>1, <2>2, AbandonedStutters, RestartCrashes
<1>. QED
  BY <1>1, <1>2, ServerAlways, PTL DEF WatcherSpec, ServerImplementsSerialSync, Serial!ServerSpec
===============================================================================
