-------------------------- MODULE MCFailoverExecutor --------------------------
(* Three servers, so that Orchestrator has a choice of replicas, and two   *)
(* operations, so that one overlaps, cancels or follows the other.         *)
EXTENDS FailoverExecutor

CONSTANTS s1, s2, s3, o1, o2, none

MCServer == {s1, s2, s3}
MCOp     == {o1, o2}
===============================================================================
