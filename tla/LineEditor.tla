------------------------------ MODULE LineEditor ------------------------------
(***************************************************************************)
(* src/src/cli/raw-input.ts: the line editor of the interactive CLI.       *)
(*                                                                         *)
(* One action per kind of chunk that handleInput tells apart: keys,        *)
(* printable text, and the pieces of a bracketed paste; and the timer of a *)
(* paste.  The editor owns its buffer, the dropdown of suggestions and the *)
(* memory of the rows it has written below the input line; the terminal is *)
(* external: the rows that are really on the screen, and whether the       *)
(* terminal is in the middle of a paste that the editor knows of.          *)
(*                                                                         *)
(* Text is a sequence over a small alphabet in which "/", "-" and " " have *)
(* the meaning they have in the code and "^" stands for any character that *)
(* is not printable.  Case folding, colours and columns are left out.      *)
(***************************************************************************)
EXTENDS Integers, SequencesExt, FiniteSetsExt

CONSTANTS
  None,
  Letter,    \* the characters that can be printed
  Char,      \* what a chunk of text may consist of
  Pasted,    \* the pieces, empty or not, a paste is cut into
  Commands,  \* the commands, registered and built in, in their order
  FlagsOf,   \* FlagsOf[command]: its flags in their order
  MaxShow,   \* rows of the dropdown that hold a suggestion (8)
  MaxLen,    \* bound: nothing is typed or pasted into a longer buffer
  MaxChange, \* bound: no suggestion is accepted and nothing transposed in a longer one
  MaxDraft   \* bound: the longest buffer from which the history is entered

Word == Seq(Letter) \ {<<>>}

ASSUME EditorAssumption ==
  /\ {"/", " "} \subseteq Letter /\ "^" \notin Letter
  /\ Char \subseteq Letter \cup {"^"}
  /\ Pasted \subseteq Seq(Letter \cup {"^"})
  /\ Commands \in Seq(Word)
  /\ DOMAIN FlagsOf \subseteq Range(Commands)
  /\ \A c \in DOMAIN FlagsOf : FlagsOf[c] \in Seq(Word)
  /\ MaxShow \in Nat \ {0} /\ {MaxLen, MaxChange, MaxDraft} \subseteq Nat

VARIABLES
  reading,                \* a readLine() waits for its line
  line,                   \* what the last readLine() has resolved to
  buffer, cursorPos,
  filteredSuggestions, selectedIndex, showingSuggestions,
  lastSuggestionLineCount,
  inBracketedPaste, pasteBuffer,
  pasteTimeout,           \* the timer of a paste is armed
  history,                \* the lines entered, oldest first (the REPL's array)
  historyIndex, savedBuffer,
  rows,                   \* rows below the input line that show suggestions (external)
  terminal                \* "typing", "pasting", or "lost" when the editor has
                          \* lost track of the paste (external)

textVars    == <<buffer, cursorPos>>
pasteVars   == <<inBracketedPaste, pasteBuffer, pasteTimeout>>
recallVars  == <<historyIndex, savedBuffer>>
menuVars    == <<filteredSuggestions, selectedIndex, showingSuggestions>>
screenVars  == <<lastSuggestionLineCount, rows>>
editorVars  == <<reading, line, textVars, menuVars, screenVars, pasteVars, history,
                 recallVars, terminal>>

Fresh ==
  /\ buffer = <<>> /\ cursorPos = 0
  /\ filteredSuggestions = <<>> /\ selectedIndex = 1 /\ showingSuggestions = FALSE
  /\ lastSuggestionLineCount = 0
  /\ historyIndex = -1 /\ savedBuffer = <<>>

EditorInit ==
  /\ Fresh
  /\ history \in Seq(Word)
  /\ reading = FALSE /\ line = None
  /\ inBracketedPaste = FALSE /\ pasteBuffer = <<>> /\ pasteTimeout = FALSE
  /\ rows = 0 /\ terminal = "typing"

-------------------------------------------------------------------------------
(* updateSuggestions(): what the buffer suggests.                          *)

Upto(s, n)   == SubSeq(s, 1, n)
After(s, n)  == SubSeq(s, n + 1, Len(s))

(* What stands in s at the positions in kept, in its order.                *)
Keep(s, kept) ==
  [k \in 1 .. Cardinality(kept) |->
     s[CHOOSE i \in kept : Cardinality({j \in kept : j <= i}) = k]]

Printable(s) == Keep(s, {i \in DOMAIN s : s[i] # "^"})
Starting(list, s) == Keep(list, {i \in DOMAIN list : IsPrefix(s, list[i])})
LastBlank(s) == SelectLastInSeq(s, LAMBDA c : c = " ")
FirstWord(s) == Upto(s, SelectInSeq(s \o <<" ">>, LAMBDA c : c = " ") - 1)
LastWord(s)  == After(s, LastBlank(s))

IsCommandLine(b) == b # <<>> /\ b[1] = "/"
NamesCommand(b)  == IsCommandLine(b) /\ LastBlank(b) = 0
NamesFlag(b) ==
  /\ IsCommandLine(b) /\ ~NamesCommand(b)
  /\ LastWord(b) # <<>> /\ LastWord(b)[1] = "-"

getFlags(name) == IF name \in DOMAIN FlagsOf THEN FlagsOf[name] ELSE <<>>

Suggest(b) ==
  CASE NamesCommand(b) -> Starting(Commands, Tail(b))
    [] NamesFlag(b)    -> Starting(getFlags(FirstWord(Tail(b))), LastWord(b))
    [] OTHER           -> <<>>

\* Mutant: the selection of the list before is kept.
updateSuggestionsOnly ==
  /\ filteredSuggestions' = Suggest(buffer')
  /\ showingSuggestions'  = (Suggest(buffer') # <<>>)
  /\ UNCHANGED selectedIndex

updateSuggestions ==
  /\ filteredSuggestions' = Suggest(buffer')
  /\ showingSuggestions'  = (Suggest(buffer') # <<>>)
  /\ selectedIndex' = IF NamesCommand(buffer') \/ NamesFlag(buffer') THEN 1
                      ELSE selectedIndex

(* The dropdown: two borders, MaxShow suggestions, a row for the others.   *)
LineCount(list) ==
  IF list = <<>> THEN 0
  ELSE 2 + Min({Len(list), MaxShow}) + (IF Len(list) > MaxShow THEN 1 ELSE 0)

(* What stays on the screen when the rows the editor remembers are erased. *)
Erased == IF rows <= lastSuggestionLineCount THEN 0 ELSE rows

\* Mutant: the rows are erased but still remembered.
clearRowsOnly == rows' = Erased /\ UNCHANGED lastSuggestionLineCount

clearSuggestions == rows' = Erased /\ lastSuggestionLineCount' = 0

render ==
  IF showingSuggestions'
    THEN /\ rows' = Max({Erased, LineCount(filteredSuggestions')})
         /\ lastSuggestionLineCount' = LineCount(filteredSuggestions')
    ELSE clearSuggestions

-------------------------------------------------------------------------------
(* readLine(): everything is reset but the paste.                          *)
readLine ==
  /\ ~reading
  /\ reading' = TRUE /\ line' = None
  /\ buffer' = <<>> /\ cursorPos' = 0
  /\ filteredSuggestions' = <<>> /\ selectedIndex' = 1 /\ showingSuggestions' = FALSE
  /\ historyIndex' = -1 /\ savedBuffer' = <<>>
  /\ lastSuggestionLineCount' = 0 /\ UNCHANGED rows
  /\ UNCHANGED <<pasteVars, history, terminal>>

\* Mutant: keys are looked at before the paste is.
KeyInPaste == reading

(* A chunk reaches the keys only outside a paste the editor knows of.      *)
Key == reading /\ ~inBracketedPaste

Listens == UNCHANGED <<reading, line, pasteVars, history, terminal>>

(* The buffer and the cursor become b and c; suggestions and screen follow. *)
Edit(b, c) ==
  /\ buffer' = b /\ cursorPos' = c
  /\ updateSuggestions
  /\ render

Insert(s) ==
  Edit(Upto(buffer, cursorPos) \o s \o After(buffer, cursorPos), cursorPos + Len(s))

(* processPaste(): nothing happens if nothing of it can be printed.        *)
processPaste(s) ==
  IF Printable(s) = <<>> THEN UNCHANGED <<textVars, menuVars, screenVars>>
  ELSE Insert(Printable(s))

Room == Len(buffer) <= MaxLen

Type(s) ==
  /\ Key /\ Room
  /\ processPaste(s)
  /\ UNCHANGED recallVars
  /\ Listens

Backspace ==
  /\ Key /\ cursorPos > 0
  /\ Edit(Upto(buffer, cursorPos - 1) \o After(buffer, cursorPos), cursorPos - 1)
  /\ UNCHANGED recallVars /\ Listens

Delete ==
  /\ Key /\ cursorPos < Len(buffer)
  /\ Edit(Upto(buffer, cursorPos) \o After(buffer, cursorPos + 1), cursorPos)
  /\ UNCHANGED recallVars /\ Listens

KillToEnd ==
  /\ Key
  /\ Edit(Upto(buffer, cursorPos), cursorPos)
  /\ UNCHANGED recallVars /\ Listens

\* Mutant: the cursor stays where it was.
KillToStartOnly ==
  /\ Key
  /\ Edit(After(buffer, cursorPos), cursorPos)
  /\ UNCHANGED recallVars /\ Listens

KillToStart ==
  /\ Key
  /\ Edit(After(buffer, cursorPos), 0)
  /\ UNCHANGED recallVars /\ Listens

(* Back over blanks, then over the word before them.                       *)
WordStart ==
  LET before == Upto(buffer, cursorPos)
      end    == SelectLastInSeq(before, LAMBDA c : c # " ")
  IN  LastBlank(Upto(before, end))

KillWord ==
  /\ Key
  /\ Edit(Upto(buffer, WordStart) \o After(buffer, cursorPos), WordStart)
  /\ UNCHANGED recallVars /\ Listens

(* Two characters change places; the suggestions are not brought up to date. *)
Transpose ==
  /\ Key /\ cursorPos >= 2 /\ Len(buffer) <= MaxChange
  /\ buffer' = [buffer EXCEPT ![cursorPos - 1] = buffer[cursorPos],
                              ![cursorPos] = buffer[cursorPos - 1]]
  /\ UNCHANGED <<cursorPos, menuVars>>
  /\ render
  /\ UNCHANGED recallVars /\ Listens

(* Left, Right, Home and End.                                              *)
MoveCursor(c) ==
  /\ Key
  /\ c \in {cursorPos - 1, cursorPos + 1, 0, Len(buffer)} \cap (0 .. Len(buffer))
  /\ cursorPos' = c
  /\ UNCHANGED <<buffer, menuVars>>
  /\ render
  /\ UNCHANGED recallVars /\ Listens

ClearScreen ==
  /\ Key
  /\ UNCHANGED <<textVars, menuVars>>
  /\ lastSuggestionLineCount' =
       (IF showingSuggestions THEN LineCount(filteredSuggestions) ELSE 0)
  /\ rows' = IF showingSuggestions THEN LineCount(filteredSuggestions) ELSE 0
  /\ UNCHANGED recallVars /\ Listens

Menu == showingSuggestions /\ filteredSuggestions # <<>>

(* Up and Down move the selection while there is a dropdown ...            *)
Select(i) ==
  /\ Key /\ Menu
  /\ i \in {Max({1, selectedIndex - 1}), Min({Len(filteredSuggestions), selectedIndex + 1})}
  /\ selectedIndex' = i
  /\ UNCHANGED <<textVars, filteredSuggestions, showingSuggestions>>
  /\ render
  /\ UNCHANGED recallVars /\ Listens

(* ... and walk through the history when there is none.                    *)
Recall(i) ==
  /\ historyIndex' = i
  /\ LET b == IF i = -1 THEN savedBuffer' ELSE history[Len(history) - i]
     IN  Edit(b, Len(b))
  /\ Listens

Older ==
  /\ Key /\ ~Menu /\ history # <<>>
  /\ historyIndex = -1 => Len(buffer) <= MaxDraft
  /\ savedBuffer' = IF historyIndex = -1 THEN buffer ELSE savedBuffer
  /\ Recall(Min({Len(history) - 1, historyIndex + 1}))

Newer ==
  /\ Key /\ ~Menu /\ historyIndex > -1
  /\ UNCHANGED savedBuffer
  /\ Recall(historyIndex - 1)

(* Escape hides the dropdown.                                              *)
Escape ==
  /\ Key
  /\ showingSuggestions' = FALSE
  /\ IF showingSuggestions THEN clearSuggestions ELSE UNCHANGED screenVars
  /\ UNCHANGED <<textVars, filteredSuggestions, selectedIndex>>
  /\ UNCHANGED recallVars /\ Listens

-------------------------------------------------------------------------------
(* Tab and Enter accept the selected suggestion: a flag takes the place of *)
(* the word before the cursor (runs of blanks before it become one), a     *)
(* command that of the whole buffer.                                       *)
Selected == filteredSuggestions[selectedIndex]

OneBlank(s) ==
  Keep(s, {i \in DOMAIN s : ~(s[i] = " " /\ i > 1 /\ s[i - 1] = " ")})

Accepted ==
  LET before == Upto(buffer, cursorPos)
      start  == OneBlank(Upto(before, LastBlank(before)))
      flag   == start \o Selected \o <<" ">>
      name   == <<"/">> \o Selected \o <<" ">>
  IN  IF Selected[1] = "-"
        THEN [text |-> flag \o After(buffer, cursorPos), at |-> Len(flag)]
        ELSE [text |-> name, at |-> Len(name)]

Accept ==
  /\ Menu
  /\ Len(buffer) <= MaxChange
  /\ buffer' = Accepted.text /\ cursorPos' = Accepted.at
  /\ showingSuggestions' = FALSE
  /\ clearSuggestions
  /\ UNCHANGED <<filteredSuggestions, selectedIndex>>

Tab == Key /\ Accept /\ UNCHANGED recallVars /\ Listens

Resolve(r) ==
  /\ reading' = FALSE /\ line' = r
  /\ UNCHANGED <<history, recallVars, terminal>>

Line(text) == [value |-> text, cancelled |-> FALSE, exitRequested |-> FALSE]

(* Enter: from a paste the editor has lost track of, or from the keyboard. *)
Enter ==
  /\ Key
  /\ \/ Accept
     \/ ~Menu /\ UNCHANGED <<textVars, menuVars, screenVars>>
  /\ UNCHANGED pasteVars
  /\ Resolve(Line(buffer'))

(* Ctrl+C and Ctrl+D end the line, and would end a paste.                  *)
Cancel(exit) ==
  /\ Key
  /\ inBracketedPaste' = FALSE /\ pasteBuffer' = <<>> /\ pasteTimeout' = FALSE
  /\ clearSuggestions
  /\ UNCHANGED <<textVars, menuVars>>
  /\ Resolve([value |-> buffer, cancelled |-> TRUE, exitRequested |-> exit])

-------------------------------------------------------------------------------
(* Bracketed paste.  The terminal cuts a paste into chunks: the start      *)
(* marker with a first piece, pieces, the end marker with a last piece; a  *)
(* small paste is one chunk.                                               *)

PasteInOneChunk(s) ==
  /\ reading /\ terminal = "typing" /\ Room
  /\ inBracketedPaste' = FALSE /\ pasteBuffer' = <<>>
  /\ processPaste(s)
  /\ UNCHANGED <<reading, line, pasteTimeout, history, recallVars, terminal>>

PasteStarts(s) ==
  /\ reading /\ terminal = "typing" /\ Room
  /\ terminal' = "pasting"
  /\ inBracketedPaste' = TRUE /\ pasteBuffer' = s /\ pasteTimeout' = TRUE
  /\ UNCHANGED <<reading, line, textVars, menuVars, screenVars, history, recallVars>>

(* Any other chunk, keys included, is part of the paste.                   *)
PasteContinues(s) ==
  /\ reading /\ inBracketedPaste
  /\ Len(pasteBuffer) < 2
  /\ pasteBuffer' = pasteBuffer \o s
  /\ UNCHANGED <<reading, line, textVars, menuVars, screenVars, inBracketedPaste,
                 pasteTimeout, history, recallVars, terminal>>

PasteEnds(s) ==
  /\ reading /\ inBracketedPaste /\ terminal = "pasting"
  /\ terminal' = "typing"
  /\ inBracketedPaste' = FALSE /\ pasteBuffer' = <<>> /\ pasteTimeout' = FALSE
  /\ processPaste(pasteBuffer \o s)
  /\ UNCHANGED <<reading, line, history, recallVars>>

(* An end marker that comes after the timeout: its chunk is dropped.       *)
StrayEnd ==
  /\ terminal # "typing" /\ ~inBracketedPaste
  /\ terminal' = "typing"
  /\ UNCHANGED <<reading, line, textVars, menuVars, screenVars, pasteVars, history,
                 recallVars>>

(* The end marker never arrives: the terminal, or the connection to it,    *)
(* has dropped it.                                                         *)
EndIsLost ==
  /\ terminal # "typing"
  /\ terminal' = "typing"
  /\ UNCHANGED <<reading, line, textVars, menuVars, screenVars, pasteVars, history,
                 recallVars>>

(* Nobody listens while a command runs: a start marker is dropped, and so  *)
(* are the first piece and the keys.                                       *)
StartIsDropped ==
  /\ ~reading /\ terminal = "typing"
  /\ terminal' = "lost"
  /\ UNCHANGED <<reading, line, textVars, menuVars, screenVars, pasteVars, history,
                 recallVars>>

(* The timer: what has arrived of the paste is inserted; if that is        *)
(* nothing, the editor stays in the paste.                                 *)
PasteTimesOut ==
  /\ pasteTimeout
  /\ pasteTimeout' = FALSE
  /\ IF inBracketedPaste /\ pasteBuffer # <<>>
       THEN /\ inBracketedPaste' = FALSE /\ pasteBuffer' = <<>>
            /\ processPaste(pasteBuffer)
            /\ terminal' = IF terminal = "pasting" THEN "lost" ELSE terminal
       ELSE UNCHANGED <<inBracketedPaste, pasteBuffer, textVars, menuVars, screenVars,
                        terminal>>
  /\ UNCHANGED <<reading, line, history, recallVars>>

Typed == {<<c>> : c \in Char} \cup (Pasted \ {<<>>})

EditKey ==
  \/ \E s \in Typed : Type(s)
  \/ Backspace \/ Delete \/ KillToEnd \/ KillToStart \/ KillWord \/ Transpose \/ ClearScreen
  \/ \E c \in 0 .. Len(buffer) : MoveCursor(c)
  \/ \E i \in DOMAIN filteredSuggestions : Select(i)
  \/ Older \/ Newer \/ Escape \/ Tab

Terminal ==
  \/ \E s \in Pasted :
       \/ PasteInOneChunk(s) \/ PasteStarts(s) \/ PasteContinues(s) \/ PasteEnds(s)
       \/ StartIsDropped
  \/ StrayEnd \/ EndIsLost

EditorNext ==
  \/ readLine
  \/ EditKey
  \/ Enter
  \/ \E exit \in BOOLEAN : Cancel(exit)
  \/ Terminal
  \/ PasteTimesOut

EditorSpec == EditorInit /\ [][EditorNext]_editorVars

-------------------------------------------------------------------------------
(* Types.  Buffer, drafts and lines hold only what can be printed, the     *)
(* cursor stands in the buffer or at its end, and a paste is collected     *)
(* only while there is one.                                                *)
Lines == [value : Seq(Letter), cancelled : BOOLEAN, exitRequested : BOOLEAN]

EditorTypeOK ==
  /\ {reading, showingSuggestions, inBracketedPaste, pasteTimeout} \subseteq BOOLEAN
  /\ line = None \/ line \in Lines
  /\ {buffer, savedBuffer} \subseteq Seq(Letter)
  /\ cursorPos \in 0 .. Len(buffer)
  /\ filteredSuggestions \in Seq(Word)
  /\ history \in Seq(Word) /\ historyIndex \in -1 .. Len(history) - 1
  /\ pasteBuffer \in Seq(Letter \cup {"^"}) /\ (~inBracketedPaste => pasteBuffer = <<>>)
  /\ rows \in Nat /\ lastSuggestionLineCount \in Nat
  /\ terminal \in {"typing", "pasting", "lost"}

(* The rows below the input line show one dropdown, the present one, or    *)
(* nothing: none of an earlier list, or of an earlier line, stays behind;  *)
(* and the selection that Enter takes from a dropdown is one of its        *)
(* entries, however the list has changed under it.  (That the list is that *)
(* of the text is not claimed: Transpose changes the text alone.)          *)
DropdownIsCurrent ==
  /\ reading => /\ rows = lastSuggestionLineCount
                /\ rows = IF showingSuggestions THEN LineCount(filteredSuggestions) ELSE 0
  /\ showingSuggestions => selectedIndex \in DOMAIN filteredSuggestions

(* A line ends only by a key: nothing that belongs to a paste the editor   *)
(* has not lost track of, a newline or a Ctrl+C in it, ends the line.  It  *)
(* loses track when the start marker does not arrive or the timeout fires  *)
(* before the end marker does; what comes of such a paste then is keys.    *)
PasteRunsNothing == [][reading /\ ~reading' => terminal # "pasting"]_editorVars

(* Comment at raw-input.ts:223: the timeout prevents getting stuck in a    *)
(* paste if its end never arrives.                                         *)
PasteModeEnds == inBracketedPaste ~> ~inBracketedPaste

=============================================================================
