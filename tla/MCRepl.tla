------------------------------- MODULE MCRepl -------------------------------
(* One command, which a "/" suggests; two questions, a lone "/" each, with *)
(* one round of tools; the session ends with Ctrl+D.  The pieces of a      *)
(* paste are empty here: the runs of the editor try what is in them.       *)
EXTENDS Repl

MCLetter   == {"/", "-", " ", "a"}
MCChar     == {"/"}
MCPasted   == {<<>>}
MCCommands == << <<"a">> >>
MCFlagsOf  == <<>>
MCNone     == {}

MCReplInit == history = <<>> /\ ReplInit
MCReplSpec == MCReplInit /\ [][ReplNext]_replVars /\ WF_replVars(LoopStep)
=============================================================================
