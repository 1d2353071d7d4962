-------------------------- MODULE MCFailoverWebhook --------------------------
(* A failover from "o" to "n" with a second replica "r".  Orchestrator has *)
(* promoted "n"; of the others it has the view from before, the present    *)
(* one, or none.  The old primary is down, detached, or follows the new    *)
(* one or "r", and is marked by Orchestrator; "r" may be by an operator.   *)
EXTENDS FailoverWebhook, TLC

MCAddress == ("n" :> 1 @@ "o" :> 2 @@ "r" :> 5)
MCNetwork == {[base |-> 3, prefix |-> 0], [base |-> 2, prefix |-> 1]}

Links(o, r)   == ("n" :> None @@ "o" :> o @@ "r" :> r)
Link(m)       == [source |-> m, valid |-> TRUE]
PresentView   == [s \in Server |-> [source |-> source[s], valid |-> s \in up]]
FormerView    == ("n" :> Link(None) @@ "o" :> Link(None) @@ "r" :> Link("o"))
LonelyView    == [PresentView EXCEPT !["o"] = None, !["r"] = None]

MCWorldInit ==
  /\ up = Server
  /\ started = {"r"}
  /\ \/ source = Links(None, "n") /\ seen = FormerView
     \/ source = Links("r", "n")  /\ seen \in {FormerView, LonelyView}
  /\ maintained = {}
  /\ downtimed = {"o"} \cap Known
  /\ events = 0 /\ quiet = FALSE

MCWebhookInit ==
  /\ MCWorldInit
  /\ rows = [s \in Server |-> "none"]
  /\ OperatorInit /\ HookInit

(* Fairness: every call is answered or fails, every timer that is not      *)
(* cleared fires, and the coordinator answers the calls whose timer is not *)
(* cleared (LiveCallsAnswered of SyncCoordinator).                         *)
MCWebhookSpec ==
  /\ MCWebhookInit /\ [][WebhookNext]_webhookVars
  /\ WF_webhookVars(HookStep) /\ WF_webhookVars(RecoveryStep("webhook"))
=============================================================================
