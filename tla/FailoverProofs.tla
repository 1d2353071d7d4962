---------------------------- MODULE FailoverProofs ----------------------------
(***************************************************************************)
(* Proofs about FailoverExecutor, for any servers, any operations and any  *)
(* number of events.  The properties hold together or not at all: that     *)
(* history and current operation agree needs to know where the code of an  *)
(* operation stands, and what is pending needs what a finished operation   *)
(* was.  Inv adds, for each operation, what OpInv says.                    *)
(***************************************************************************)
EXTENDS FailoverExecutor, TLAPS

(* What the record of an operation may say at each step of its code: until *)
(* it is carried out nothing; a failover is carried out only if its        *)
(* primary was down; what follows the promotion follows a promotion.       *)
OpInv(o) ==
  /\ step[o] \in {"unused", "fetched"} =>
       state[o] = "IDLE" /\ promoted[o] = None /\ cancelled[o] = FALSE
  /\ Running(o) /\ kind[o] = "failover" => snapshot[o].primary \notin snapshot[o].online
  /\ step[o] \in {"demoting", "routing"} => promoted[o] # None
  /\ state[o] \in {"RECONFIGURING", "COMPLETED"} => promoted[o] # None

Operations == \A o \in Op : OpInv(o)

(* Without a promotion the routing is what it was at the start.            *)
Untouched ==
  (\A o \in Op : promoted[o] = None) =>
    \E s \in Server : routed = Installed([primary |-> s, replicas |-> Server \ {s}])

Inv ==
  /\ TypeOK /\ Operations /\ RecordedOnce /\ CurrentIsRunning
  /\ PendingIsOldPrimary /\ Untouched

(* What syncCluster installs are rows of the two hostgroups.               *)
LEMMA InstalledIsRows ==
  ASSUME NEW p \in Server \cup {None}, NEW r \in SUBSET Server
  PROVE  Installed([primary |-> p, replicas |-> r]) \subseteq Row
  BY DEF Installed, Expected, W, R, Row

LEMMA InitInv == Init => Inv
<1> SUFFICES ASSUME Init PROVE Inv
  OBVIOUS
<1>1. TypeOK
  <2>1. NoSnapshot \in Snapshots
    BY DEF NoSnapshot, Snapshots
  <2>2. routed \subseteq Row
    BY InstalledIsRows DEF Init
  <2>. QED
    BY <2>1, <2>2, FailoverAssumption DEF Init, TypeOK, Step, State
<1>2. Operations
  BY DEF Init, Operations, OpInv, Running
<1>3. RecordedOnce /\ CurrentIsRunning
  BY DEF Init, RecordedOnce, CurrentIsRunning, Finished
<1>4. PendingIsOldPrimary
  BY DEF Init, PendingIsOldPrimary
<1>5. Untouched
  BY DEF Init, Untouched
<1>. QED
  BY <1>1, <1>2, <1>3, <1>4, <1>5 DEF Inv

(* An operation that has finished keeps its record, so that what is        *)
(* pending keeps its reason.                                               *)
LEMMA ReasonsRemain ==
  ASSUME PendingIsOldPrimary, UNCHANGED pending,
         \A o \in Op : Finished(o) => /\ Finished(o)'
                                      /\ state'[o] = state[o] /\ kind'[o] = kind[o]
                                      /\ snapshot'[o] = snapshot[o]
                                      /\ newPrimary'[o] = newPrimary[o]
  PROVE  PendingIsOldPrimary'
  BY DEF PendingIsOldPrimary

(* The steps that touch no operation: servers, Orchestrator, recoveries.   *)
LEMMA OthersKeep ==
  ASSUME Inv, UNCHANGED <<process, step, operation, current, history, routed, promoted, cancelled>>,
         TypeOK', PendingIsOldPrimary'
  PROVE  Inv'
<1>. UNCHANGED <<kind, snapshot, newPrimary, state>>
  BY DEF operation
<1>1. Operations' /\ RecordedOnce' /\ CurrentIsRunning' /\ Untouched'
  BY DEF Inv, Operations, OpInv, Running, RecordedOnce, Finished, CurrentIsRunning, Untouched
<1>. QED
  BY <1>1 DEF Inv

LEMMA EnvironmentInv == ASSUME Inv, Environment PROVE Inv'
<1>. UNCHANGED <<process, step, operation, current, history, routed, promoted, cancelled,
                 pending, recovering>>
  BY DEF Environment, ServerFails, ServerReturns, OrchestratorRecovers
<1>. UNCHANGED <<kind, snapshot, newPrimary, state>>
  BY DEF operation
<1>1. events' \in 0 .. MaxEvents
  BY FailoverAssumption DEF Environment, ServerFails, ServerReturns, OrchestratorRecovers, Event,
     Inv, TypeOK
<1>2. master' \in Server /\ online' \subseteq Server /\ replicating' \subseteq online'
  BY DEF Environment, ServerFails, ServerReturns, OrchestratorRecovers, Inv, TypeOK
<1>3. TypeOK'
  BY <1>1, <1>2 DEF Inv, TypeOK
<1>4. PendingIsOldPrimary'
  BY ReasonsRemain DEF Inv, Finished
<1>. QED
  BY <1>3, <1>4, OthersKeep

LEMMA RecoveryInv ==
  ASSUME Inv, (\E s \in Server : RecoverStarts(s)) \/ RecoverVerifies PROVE Inv'
<1>. UNCHANGED <<process, step, operation, current, history, routed, promoted, cancelled>>
  BY DEF RecoverStarts, RecoverVerifies
<1>. UNCHANGED <<kind, snapshot, newPrimary, state>>
  BY DEF operation
<1>1. CASE \E s \in Server : RecoverStarts(s)
  <2>1. TypeOK'
    BY <1>1 DEF RecoverStarts, Inv, TypeOK
  <2>2. PendingIsOldPrimary'
    BY <1>1, ReasonsRemain DEF RecoverStarts, Inv, Finished
  <2>. QED
    BY <2>1, <2>2, OthersKeep
<1>2. CASE RecoverVerifies
  <2>1. TypeOK'
    BY <1>2 DEF RecoverVerifies, cluster, Inv, TypeOK
  <2>2. \A s \in Server : pending'[s] # None => pending'[s] = pending[s]
    BY <1>2 DEF RecoverVerifies, Inv, TypeOK
  <2>3. PendingIsOldPrimary'
    BY <2>2 DEF Inv, PendingIsOldPrimary, Finished
  <2>. QED
    BY <2>1, <2>3, OthersKeep
<1>. QED
  BY <1>1, <1>2

(* A step of one operation o, which has not finished: what is to be shown  *)
(* is about o and about what o makes current.                              *)
LEMMA OneMoves ==
  ASSUME Inv, TypeOK', NEW o \in Op, ~Finished(o), OpInv(o)',
         \A p \in Op \ {o} : /\ step'[p] = step[p] /\ state'[p] = state[p] /\ kind'[p] = kind[p]
                             /\ snapshot'[p] = snapshot[p] /\ newPrimary'[p] = newPrimary[p]
                             /\ history'[p] = history[p] /\ promoted'[p] = promoted[p]
                             /\ cancelled'[p] = cancelled[p],
         history'[o] = (IF Finished(o)' THEN 1 ELSE 0) + (IF cancelled'[o] THEN 1 ELSE 0),
         \/ current' = None
         \/ current' = o /\ Running(o)' /\ ~cancelled'[o]
         \/ current' = current /\ current # o,
         PendingIsOldPrimary', Untouched'
  PROVE  Inv'
<1>1. Operations'
  <2> SUFFICES ASSUME NEW p \in Op PROVE OpInv(p)'
    BY DEF Operations
  <2>1. CASE p = o
    BY <2>1
  <2>2. CASE p # o
    BY <2>2 DEF Inv, Operations, OpInv, Running
  <2>. QED
    BY <2>1, <2>2
<1>2. RecordedOnce'
  <2> SUFFICES ASSUME NEW p \in Op
               PROVE  (history[p] = (IF Finished(p) THEN 1 ELSE 0)
                                      + (IF cancelled[p] THEN 1 ELSE 0))'
    BY DEF RecordedOnce
  <2>1. CASE p = o
    BY <2>1
  <2>2. CASE p # o
    BY <2>2 DEF Inv, RecordedOnce, Finished
  <2>. QED
    BY <2>1, <2>2
<1>3. CurrentIsRunning'
  BY DEF Inv, TypeOK, CurrentIsRunning, Running
<1>. QED
  BY <1>1, <1>2, <1>3 DEF Inv

(* And what is pending and routed, if the step leaves both alone.          *)
LEMMA QuietMove ==
  ASSUME Inv, NEW o \in Op, ~Finished(o), UNCHANGED <<pending, routed>>,
         \A p \in Op \ {o} : /\ step'[p] = step[p] /\ state'[p] = state[p] /\ kind'[p] = kind[p]
                             /\ snapshot'[p] = snapshot[p] /\ newPrimary'[p] = newPrimary[p]
                             /\ promoted'[p] = promoted[p],
         promoted[o] # None => promoted'[o] # None
  PROVE  PendingIsOldPrimary' /\ Untouched'
<1>1. PendingIsOldPrimary'
  BY ReasonsRemain DEF Inv, Finished
<1>2. Untouched'
  BY DEF Inv, Untouched
<1>. QED
  BY <1>1, <1>2

(* What is known of an operation whose code is at a step.                  *)
LEMMA Known ==
  ASSUME Inv, NEW o \in Op
  PROVE  /\ OpInv(o) /\ step[o] \in Step /\ cancelled[o] \in BOOLEAN
         /\ history[o] = (IF Finished(o) THEN 1 ELSE 0) + (IF cancelled[o] THEN 1 ELSE 0)
         /\ current = o => Running(o) /\ ~cancelled[o]
         /\ promoted[o] \in Server \cup {None}
  BY FailoverAssumption DEF Inv, Operations, RecordedOnce, CurrentIsRunning, TypeOK

LEMMA RequestInv ==
  ASSUME Inv, NEW o \in Op, NEW k \in {"failover", "switchover"}, NEW t \in Server \cup {None},
         Request(o, k, t)
  PROVE  Inv'
<1>1. TypeOK'
  <2>1. [primary |-> master, replicas |-> Server \ {master}, online |-> online] \in Snapshots
    BY DEF Inv, TypeOK, Snapshots
  <2>2. "fetched" \in Step
    BY DEF Step
  <2>. QED
    BY <2>1, <2>2 DEF Request, cluster, Inv, TypeOK
<1>2. /\ step[o] = "unused" /\ step'[o] = "fetched"
      /\ UNCHANGED <<state, promoted, cancelled, history, current, pending, routed>>
  BY DEF Request, Inv, TypeOK
<1>3. OpInv(o)' /\ ~Finished(o) /\ ~Finished(o)' /\ current # o
  BY <1>2, Known DEF OpInv, Running, Finished
<1>4. history'[o] = (IF Finished(o)' THEN 1 ELSE 0) + (IF cancelled'[o] THEN 1 ELSE 0)
  BY <1>2, <1>3, Known
<1>5. \A p \in Op \ {o} : /\ step'[p] = step[p] /\ kind'[p] = kind[p]
                          /\ snapshot'[p] = snapshot[p] /\ newPrimary'[p] = newPrimary[p]
  BY DEF Request, Inv, TypeOK
<1>. QED
  BY <1>1, <1>2, <1>3, <1>4, <1>5, QuietMove, OneMoves

(* An operation ends without having been carried out, or fails.            *)
LEMMA EndInv ==
  ASSUME Inv, NEW o \in Op, TypeOK', ~Finished(o), UNCHANGED <<kind, snapshot, pending, routed, cancelled>>,
         step' = [step EXCEPT ![o] = "finished"], state' = [state EXCEPT ![o] = "FAILED"],
         history' = [history EXCEPT ![o] = @ + 1],
         \A p \in Op \ {o} : newPrimary'[p] = newPrimary[p] /\ promoted'[p] = promoted[p],
         current' = None \/ (current' = current /\ current # o),
         promoted[o] # None => promoted'[o] # None
  PROVE  Inv'
<1>1. /\ step'[o] = "finished" /\ state'[o] = "FAILED" /\ history'[o] = history[o] + 1
      /\ \A p \in Op \ {o} : step'[p] = step[p] /\ state'[p] = state[p] /\ history'[p] = history[p]
  BY DEF Inv, TypeOK
<1>2. OpInv(o)' /\ Finished(o)'
  BY <1>1 DEF OpInv, Running, Finished
<1>3. history'[o] = (IF Finished(o)' THEN 1 ELSE 0) + (IF cancelled'[o] THEN 1 ELSE 0)
  BY <1>1, <1>2, Known
<1>. QED
  BY <1>1, <1>2, <1>3, QuietMove, OneMoves

(* history is a number that can be counted up once more.                   *)
LEMMA Counted ==
  ASSUME Inv, NEW o \in Op, ~Finished(o)
  PROVE  [history EXCEPT ![o] = @ + 1] \in [Op -> 0 .. 2]
<1>1. history[o] \in {0, 1} /\ history \in [Op -> 0 .. 2]
  BY Known DEF Inv, TypeOK
<1>. QED
  BY <1>1

LEMMA RefusedInv ==
  ASSUME Inv, NEW o \in Op, Reject(o) \/ NoCandidate(o) PROVE Inv'
<1>0. /\ step[o] = "fetched" /\ ~Finished(o) /\ current # o
  BY Known DEF Reject, NoCandidate, Finished, Running
<1>1. /\ step' = [step EXCEPT ![o] = "finished"] /\ state' = [state EXCEPT ![o] = "FAILED"]
      /\ history' = [history EXCEPT ![o] = @ + 1]
      /\ newPrimary' \in {newPrimary, [newPrimary EXCEPT ![o] = None]}
      /\ current' \in {current, None}
      /\ UNCHANGED <<process, cluster, kind, snapshot, pending, recovering, routed, promoted, cancelled>>
  BY DEF Reject, NoCandidate, Fail
<1>2. TypeOK'
  <2>1. "finished" \in Step /\ "FAILED" \in State
    BY DEF Step, State
  <2>2. history' \in [Op -> 0 .. 2]
    BY <1>0, <1>1, Counted
  <2>. QED
    BY <1>1, <2>1, <2>2 DEF cluster, Inv, TypeOK
<1>3. \A p \in Op \ {o} : newPrimary'[p] = newPrimary[p]
  BY <1>1 DEF Inv, TypeOK
<1>. QED
  BY <1>0, <1>1, <1>2, <1>3, EndInv

LEMMA ExecuteInv == ASSUME Inv, NEW o \in Op, Execute(o) PROVE Inv'
<1>1. PICK s \in Candidates(o) : newPrimary' = [newPrimary EXCEPT ![o] = s]
  BY DEF Execute
<1>2. s \in Server
  BY DEF Candidates, Inv, TypeOK, Snapshots
<1>3. /\ step[o] = "fetched" /\ step' = [step EXCEPT ![o] = "promoting"]
      /\ state' = [state EXCEPT ![o] = "PROMOTING"] /\ current' = o
      /\ UNCHANGED <<process, cluster, kind, snapshot, history, pending, recovering, routed,
                     promoted, cancelled>>
  BY DEF Execute
<1>4. TypeOK'
  <2>1. "promoting" \in Step /\ "PROMOTING" \in State
    BY DEF Step, State
  <2>. QED
    BY <1>1, <1>2, <1>3, <2>1 DEF cluster, Inv, TypeOK
<1>5. /\ step'[o] = "promoting" /\ state'[o] = "PROMOTING"
      /\ \A p \in Op \ {o} : /\ step'[p] = step[p] /\ state'[p] = state[p]
                             /\ newPrimary'[p] = newPrimary[p]
  BY <1>1, <1>3 DEF Inv, TypeOK
<1>6. kind[o] = "failover" => snapshot[o].primary \notin snapshot[o].online
  BY DEF Execute, Rejected, PrimaryHealthy
<1>7. /\ OpInv(o)' /\ ~Finished(o) /\ ~Finished(o)' /\ Running(o)' /\ cancelled'[o] = FALSE
  BY <1>3, <1>5, <1>6, Known DEF OpInv, Running, Finished
<1>8. history'[o] = (IF Finished(o)' THEN 1 ELSE 0) + (IF cancelled'[o] THEN 1 ELSE 0)
  BY <1>3, <1>7, Known
<1>. QED
  BY <1>3, <1>4, <1>5, <1>7, <1>8, QuietMove, OneMoves

LEMMA PromotedInv ==
  ASSUME Inv, NEW o \in Op, NEW s \in Server, Promoted(o, s) PROVE Inv'
<1>1. /\ step[o] = "promoting" /\ s \in online /\ master' = s /\ replicating' = replicating \ {s}
      /\ promoted' = [promoted EXCEPT ![o] = s]
      /\ UNCHANGED <<process, online, events, kind, snapshot, newPrimary, current, history,
                     pending, recovering, routed, cancelled>>
  BY DEF Promoted, MayPromote
<1>2. \/ step' = [step EXCEPT ![o] = "demoting"] /\ state' = state
      \/ step' = [step EXCEPT ![o] = "routing"] /\ state' = [state EXCEPT ![o] = "RECONFIGURING"]
  BY DEF Promoted
<1>3. TypeOK'
  <2>1. "demoting" \in Step /\ "routing" \in Step /\ "RECONFIGURING" \in State
    BY DEF Step, State
  <2>. QED
    BY <1>1, <1>2, <2>1 DEF Inv, TypeOK
<1>4. /\ step'[o] \in {"demoting", "routing"} /\ promoted'[o] = s /\ s # None
      /\ \A p \in Op \ {o} : /\ step'[p] = step[p] /\ state'[p] = state[p]
                             /\ promoted'[p] = promoted[p]
  BY <1>1, <1>2, FailoverAssumption DEF Inv, TypeOK
<1>5. /\ OpInv(o)' /\ ~Finished(o) /\ ~Finished(o)' /\ Running(o)'
  BY <1>1, <1>4, Known DEF OpInv, Running, Finished
<1>6. history'[o] = (IF Finished(o)' THEN 1 ELSE 0) + (IF cancelled'[o] THEN 1 ELSE 0)
  BY <1>1, <1>5, Known
<1>. QED
  BY <1>1, <1>3, <1>4, <1>5, <1>6, Known, QuietMove, OneMoves

LEMMA FailedInv ==
  ASSUME Inv, NEW o \in Op, PromotionFails(o) \/ \E s \in Server : AnswerLost(o, s) PROVE Inv'
<1>1. /\ step[o] = "promoting" /\ ~Finished(o)
      /\ step' = [step EXCEPT ![o] = "finished"] /\ state' = [state EXCEPT ![o] = "FAILED"]
      /\ history' = [history EXCEPT ![o] = @ + 1] /\ current' = None
      /\ UNCHANGED <<process, online, kind, snapshot, newPrimary, pending, recovering, routed, cancelled>>
  BY DEF PromotionFails, AnswerLost, Fail, Finished, cluster
<1>2. /\ master' \in Server /\ replicating' \subseteq online /\ events' \in 0 .. MaxEvents
      /\ promoted' \in [Op -> Server \cup {None}]
      /\ \A p \in Op \ {o} : promoted'[p] = promoted[p]
      /\ promoted[o] # None => promoted'[o] # None
  <2>1. CASE PromotionFails(o)
    BY <2>1 DEF PromotionFails, cluster, Inv, TypeOK
  <2>2. CASE \E s \in Server : AnswerLost(o, s)
    <3>1. PICK s \in Server : AnswerLost(o, s)
      BY <2>2
    <3>2. /\ master' = s /\ replicating' = replicating \ {s} /\ events < MaxEvents
          /\ events' = events + 1 /\ promoted' = [promoted EXCEPT ![o] = s]
      BY <3>1 DEF AnswerLost, Event
    <3>. QED
      BY <3>2, FailoverAssumption DEF Inv, TypeOK
  <2>. QED
    BY <2>1, <2>2
<1>3. TypeOK'
  <2>1. "finished" \in Step /\ "FAILED" \in State
    BY DEF Step, State
  <2>2. history' \in [Op -> 0 .. 2]
    BY <1>1, Counted
  <2>. QED
    BY <1>1, <1>2, <2>1, <2>2 DEF Inv, TypeOK
<1>. QED
  BY <1>1, <1>2, <1>3, EndInv

LEMMA DemotedInv == ASSUME Inv, NEW o \in Op, OldPrimaryStarted(o) PROVE Inv'
<1>1. /\ step[o] = "demoting" /\ step' = [step EXCEPT ![o] = "routing"]
      /\ state' = [state EXCEPT ![o] = "RECONFIGURING"]
      /\ replicating' = replicating
           \/ (snapshot[o].primary \in online /\ replicating' = replicating \cup {snapshot[o].primary})
      /\ UNCHANGED <<process, master, online, events, kind, snapshot, newPrimary, current,
                     history, pending, recovering, routed, promoted, cancelled>>
  BY DEF OldPrimaryStarted
<1>2. TypeOK'
  <2>1. "routing" \in Step /\ "RECONFIGURING" \in State
    BY DEF Step, State
  <2>2. replicating' \subseteq online'
    BY <1>1 DEF Inv, TypeOK
  <2>. QED
    BY <1>1, <2>1, <2>2 DEF Inv, TypeOK
<1>3. /\ step'[o] = "routing" /\ state'[o] = "RECONFIGURING"
      /\ \A p \in Op \ {o} : step'[p] = step[p] /\ state'[p] = state[p]
  BY <1>1 DEF Inv, TypeOK
<1>4. OpInv(o)' /\ ~Finished(o) /\ ~Finished(o)' /\ Running(o)'
  BY <1>1, <1>3, Known DEF OpInv, Running, Finished
<1>5. history'[o] = (IF Finished(o)' THEN 1 ELSE 0) + (IF cancelled'[o] THEN 1 ELSE 0)
  BY <1>1, <1>4, Known
<1>. QED
  BY <1>1, <1>2, <1>3, <1>4, <1>5, Known, QuietMove, OneMoves

LEMMA CancelInv == ASSUME Inv, NEW o \in Op, Cancel(o) PROVE Inv'
<1>1. /\ current = o /\ current' = None /\ state' = [state EXCEPT ![o] = "FAILED"]
      /\ history' = [history EXCEPT ![o] = @ + 1] /\ cancelled' = [cancelled EXCEPT ![o] = TRUE]
      /\ UNCHANGED <<process, cluster, step, kind, snapshot, newPrimary, pending, recovering,
                     routed, promoted>>
  BY DEF Cancel
<1>2. Running(o) /\ cancelled[o] = FALSE /\ ~Finished(o) /\ ~Finished(o)'
  BY <1>1, Known DEF Running, Finished
<1>3. TypeOK'
  <2>1. "FAILED" \in State
    BY DEF State
  <2>2. history' \in [Op -> 0 .. 2]
    BY <1>1, <1>2, Counted
  <2>. QED
    BY <1>1, <2>1, <2>2 DEF cluster, Inv, TypeOK
<1>4. /\ state'[o] = "FAILED" /\ history'[o] = history[o] + 1 /\ cancelled'[o] = TRUE
      /\ \A p \in Op \ {o} : /\ state'[p] = state[p] /\ history'[p] = history[p]
                             /\ cancelled'[p] = cancelled[p]
  BY <1>1 DEF Inv, TypeOK
<1>5. OpInv(o)'
  BY <1>1, <1>2, <1>4, Known DEF OpInv, Running
<1>6. history'[o] = (IF Finished(o)' THEN 1 ELSE 0) + (IF cancelled'[o] THEN 1 ELSE 0)
  BY <1>2, <1>4, Known
<1>. QED
  BY <1>1, <1>2, <1>3, <1>4, <1>5, <1>6, QuietMove, OneMoves

(* A failover that completes gives the reason for what it puts up; what    *)
(* was pending for another server keeps its own.                           *)
LEMMA CompleteInv == ASSUME Inv, NEW o \in Op, Complete(o) PROVE Inv'
<1>1. /\ step[o] = "routing" /\ step' = [step EXCEPT ![o] = "finished"]
      /\ state' = [state EXCEPT ![o] = "COMPLETED"] /\ history' = [history EXCEPT ![o] = @ + 1]
      /\ current' = None /\ routed' \in {Installed(RoutedTopology(o)), routed}
      /\ UNCHANGED <<process, cluster, kind, snapshot, newPrimary, recovering, promoted, cancelled>>
  BY DEF Complete
<1>2. ~Finished(o) /\ promoted[o] # None
  BY <1>1, Known DEF OpInv, Finished
<1>3. TypeOK'
  <2>1. "finished" \in Step /\ "COMPLETED" \in State
    BY DEF Step, State
  <2>2. history' \in [Op -> 0 .. 2]
    BY <1>1, <1>2, Counted
  <2>3. newPrimary[o] \in Server \cup {None} /\ snapshot[o].replicas \in SUBSET Server
    BY DEF Inv, TypeOK, Snapshots
  <2>4. routed' \subseteq Row
    BY <1>1, <2>3, InstalledIsRows DEF RoutedTopology, Inv, TypeOK
  <2>5. pending' \in [Server -> Server \cup {None}]
    BY <2>3 DEF Complete, Inv, TypeOK
  <2>. QED
    BY <1>1, <2>1, <2>2, <2>4, <2>5 DEF cluster, Inv, TypeOK
<1>4. /\ step'[o] = "finished" /\ state'[o] = "COMPLETED" /\ history'[o] = history[o] + 1
      /\ \A p \in Op \ {o} : step'[p] = step[p] /\ state'[p] = state[p] /\ history'[p] = history[p]
  BY <1>1 DEF Inv, TypeOK
<1>5. OpInv(o)' /\ Finished(o)'
  BY <1>1, <1>2, <1>4 DEF OpInv, Running, Finished
<1>6. history'[o] = (IF Finished(o)' THEN 1 ELSE 0) + (IF cancelled'[o] THEN 1 ELSE 0)
  BY <1>1, <1>2, <1>4, <1>5, Known
<1>7. PendingIsOldPrimary'
  <2> SUFFICES ASSUME NEW s \in Server, pending'[s] # None
               PROVE  \E p \in Op :
                        /\ Finished(p)' /\ state'[p] = "COMPLETED" /\ kind'[p] = "failover"
                        /\ snapshot'[p].primary = s /\ s \notin snapshot'[p].online
                        /\ newPrimary'[p] = pending'[s]
    BY DEF PendingIsOldPrimary
  <2>1. CASE pending'[s] = pending[s]
    <3>1. PICK p \in Op : /\ Finished(p) /\ state[p] = "COMPLETED" /\ kind[p] = "failover"
                          /\ snapshot[p].primary = s /\ s \notin snapshot[p].online
                          /\ newPrimary[p] = pending[s]
      BY <2>1 DEF Inv, PendingIsOldPrimary
    <3>2. p # o
      BY <1>2, <3>1
    <3>. QED
      BY <1>1, <1>4, <2>1, <3>1, <3>2 DEF Finished
  <2>2. CASE pending'[s] # pending[s]
    <3>1. kind[o] = "failover" /\ s = snapshot[o].primary /\ pending'[s] = newPrimary[o]
      BY <2>2 DEF Complete, Inv, TypeOK
    <3>2. s \notin snapshot[o].online
      BY <1>1, <3>1, Known DEF OpInv, Running
    <3>. QED
      BY <1>1, <1>4, <1>5, <3>1, <3>2
  <2>. QED
    BY <2>1, <2>2
<1>8. Untouched'
  BY <1>1, <1>2 DEF Untouched
<1>. QED
  BY <1>1, <1>2, <1>3, <1>4, <1>5, <1>6, <1>7, <1>8, OneMoves

LEMMA NextInv == Inv /\ [Next]_failoverVars => Inv'
<1> SUFFICES ASSUME Inv, [Next]_failoverVars PROVE Inv'
  OBVIOUS
<1>1. CASE Environment
  BY <1>1, EnvironmentInv
<1>2. ASSUME NEW o \in Op, NEW k \in {"failover", "switchover"}, NEW t \in Server \cup {None},
             Request(o, k, t)
      PROVE  Inv'
  BY <1>2, RequestInv
<1>3. ASSUME NEW o \in Op, Proceed(o) \/ Cancel(o) PROVE Inv'
  BY <1>3, RefusedInv, ExecuteInv, PromotedInv, FailedInv, DemotedInv, CompleteInv, CancelInv
     DEF Proceed
<1>4. CASE (\E s \in Server : RecoverStarts(s)) \/ RecoverVerifies
  BY <1>4, RecoveryInv
<1>5. CASE UNCHANGED failoverVars
  <2>1. /\ UNCHANGED <<process, step, operation, current, history, routed, promoted, cancelled>>
        /\ UNCHANGED <<master, online, replicating, events, kind, snapshot, newPrimary, state,
                       pending, recovering>>
    BY <1>5 DEF failoverVars, cluster, operation
  <2>2. TypeOK'
    BY <2>1 DEF Inv, TypeOK
  <2>3. PendingIsOldPrimary'
    BY <2>1, ReasonsRemain DEF Inv, Finished
  <2>. QED
    BY <2>1, <2>2, <2>3, OthersKeep
<1>. QED
  BY <1>1, <1>2, <1>3, <1>4, <1>5 DEF Next

LEMMA AlwaysInv == Spec => []Inv
  BY InitInv, NextInv, PTL DEF Spec

(* Every reachable state of the executor is type correct.                  *)
THEOREM FailoverTypes == Spec => []TypeOK
<1>1. Inv => TypeOK
  BY DEF Inv
<1>. QED
  BY <1>1, AlwaysInv, PTL

(* However operations overlap, fail or are cancelled, the history has each *)
(* once when it has finished and once more if it was cancelled.            *)
THEOREM HistoryIsExact == Spec => []RecordedOnce
<1>1. Inv => RecordedOnce
  BY DEF Inv
<1>. QED
  BY <1>1, AlwaysInv, PTL

(* currentOperation never names an operation that has ended, although      *)
(* overlapping ones share it.                                              *)
THEOREM CurrentNeverEnded == Spec => []CurrentIsRunning
<1>1. Inv => CurrentIsRunning
  BY DEF Inv
<1>. QED
  BY <1>1, AlwaysInv, PTL

(* A server is put up for recovery only by a completed failover from it.   *)
THEOREM PendingHasReason == Spec => []PendingIsOldPrimary
<1>1. Inv => PendingIsOldPrimary
  BY DEF Inv
<1>. QED
  BY <1>1, AlwaysInv, PTL

(* COMPLETED is said, and the routing is touched, only after a promotion.  *)
THEOREM OutcomeStaysTrue == Spec => []OutcomeIsTrue
<1>1. Inv => OutcomeIsTrue
  BY DEF Inv, Operations, OpInv, Untouched, OutcomeIsTrue
<1>. QED
  BY <1>1, AlwaysInv, PTL
===============================================================================
