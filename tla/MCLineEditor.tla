---------------------------- MODULE MCLineEditor ----------------------------
(* Three commands, one a prefix of another, with two flags, and a dropdown *)
(* of two rows, so that lists shrink, grow and are longer than the rows.   *)
EXTENDS LineEditor

MCLetter   == {"/", "-", " ", "a", "b"}
MCChar     == {"/", "a", "^"}
MCPasted   == {<<>>, <<"^">>, <<"/", "a", " ", "-">>}
MCCommands == << <<"a">>, <<"a", "b">>, <<"b">> >>
MCFlagsOf  == (<<"a">> :> << <<"-", "a">>, <<"-", "b">> >>)
MCHistory  == {<< <<"a">>, <<"/", "a", "b">> >>}

MCEditorInit == history \in MCHistory /\ EditorInit
MCEditorSpec == MCEditorInit /\ [][EditorNext]_editorVars

(* The run of the paste's timer: one letter, two kinds of pieces.          *)
PasteChar   == {"a"}
PastePieces == {<<>>, <<"a">>}
MCPasteSpec == MCEditorSpec /\ WF_editorVars(PasteTimesOut)
=============================================================================
