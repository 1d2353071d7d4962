--------------------------------- MODULE Repl ---------------------------------
(***************************************************************************)
(* src/src/cli/repl.ts, the loop of the interactive CLI, composed with the *)
(* line editor (LineEditor) it reads from and with the agent               *)
(* (src/src/cli/agent/handler.ts) that answers what is not a command.      *)
(*                                                                         *)
(* The loop waits for one line, command or answer at a time, but an answer *)
(* that the user has stopped with a double Escape goes on in the           *)
(* background: only the wait for it ends.  OpenClaw, the language model    *)
(* and the tools the model asks for are external; they may never answer.   *)
(***************************************************************************)
EXTENDS LineEditor

CONSTANTS
  Exits,         \* the built-in commands that end the session
  Clears,        \* the built-in commands that clear the screen
  MaxHistory,    \* bound: no line is entered into a longer history
  MaxRequests,   \* bound on the questions of a session
  MaxIterations  \* rounds of tools in an answer (5)

ASSUME ReplAssumption ==
  /\ Exits \cup Clears \subseteq Range(Commands) /\ Exits \cap Clears = {}
  /\ {MaxHistory, MaxRequests, MaxIterations} \subseteq Nat

VARIABLES
  phase,          \* "loop", "reading", "command", "agent" or "exited"
  provider,       \* "openclaw", or "llm" for a provider called directly
  isConfigured,   \* a provider was created and has its API key
  openclawReady,  \* the answer of the first probe for OpenClaw, or None
  asked,          \* questions so far; the last one is the loop's
  request,        \* request[i]: what the agent is doing for question i
  aborted,        \* the questions whose signal has been aborted
  iterations,     \* iterations[i]: rounds of tools so far
  conversation,   \* AIAgent.history: what the model is sent
  speaker         \* the question whose answer was printed last (external)

agentVars == <<provider, isConfigured, openclawReady, asked, request, aborted, iterations,
               conversation, speaker>>
replVars  == <<editorVars, phase, agentVars>>

Question == 1 .. MaxRequests

(* AIAgent's constructor: a provider is created unless it is OpenClaw.     *)
AgentInit ==
  /\ provider \in {"openclaw", "llm"}
  /\ isConfigured \in BOOLEAN /\ (provider = "openclaw" => ~isConfigured)
  /\ openclawReady = None
  /\ conversation = <<>>
  /\ iterations = [i \in Question |-> 0]

ReplInit ==
  /\ EditorInit
  /\ AgentInit
  /\ phase = "loop"
  /\ asked = 0 /\ speaker = 0
  /\ request = [i \in Question |-> "unused"]
  /\ aborted = {}

-------------------------------------------------------------------------------
(* parseInput() and the special commands: what a line asks for.            *)

Trim(s) ==
  SubSeq(s, SelectInSeq(s, LAMBDA c : c # " "), SelectLastInSeq(s, LAMBDA c : c # " "))
Input == IF \A c \in Range(line.value) : c = " " THEN <<>> ELSE Trim(line.value)
Named(names) == {<<"/">> \o c : c \in names}

Command == FirstWord(Tail(Input))
Registered == Range(Commands) \ (Exits \cup Clears)

(* A "/" with no name behind it is no command: it goes to the agent.       *)
Asks ==
  CASE line.exitRequested           -> "exit"
    [] line.cancelled               -> "nothing"
    [] Input = <<>>                 -> "nothing"
    [] Input \in Named(Exits)       -> "exit"
    [] Input \in Named(Clears)      -> "clear"
    [] ~IsCommandLine(Input)        -> "agent"
    [] Command = <<>>               -> "agent"
    [] Command \in Registered       -> "command"
    [] OTHER                        -> "unknown"

(* runInputLoop(): one turn is readLine(), then what the line asks for.    *)
Prompts ==
  /\ phase = "loop"
  /\ readLine
  /\ phase' = "reading"
  /\ UNCHANGED agentVars

Edits ==
  /\ phase = "reading"
  /\ \/ EditKey
     \/ Len(history) < MaxHistory /\ Enter
     \/ (\E exit \in BOOLEAN : Cancel(exit))
  /\ UNCHANGED <<phase, agentVars>>

(* The terminal and the paste's timer need no loop.                        *)
Environment ==
  /\ phase # "exited"
  /\ Terminal \/ PasteTimesOut
  /\ UNCHANGED <<phase, agentVars>>

Answered == phase = "reading" /\ ~reading

addToHistory ==
  /\ history' = IF line.cancelled \/ Input = <<>> THEN history ELSE Append(history, Input)
  /\ UNCHANGED <<reading, line, textVars, menuVars, screenVars, recallVars, terminal>>

(* Nothing to do, a cleared screen, or "did you mean".                     *)
TurnEnds ==
  /\ Answered /\ Asks \in {"nothing", "clear", "unknown"}
  /\ phase' = "loop"
  /\ addToHistory
  /\ UNCHANGED <<pasteVars, agentVars>>

(* stop(): the editor's cleanup() clears the timer of a paste.             *)
Stops ==
  /\ Answered /\ Asks = "exit"
  /\ phase' = "exited"
  /\ pasteTimeout' = FALSE
  /\ addToHistory
  /\ UNCHANGED <<inBracketedPaste, pasteBuffer, agentVars>>

CommandRuns ==
  /\ Answered /\ Asks = "command"
  /\ phase' = "command"
  /\ addToHistory
  /\ UNCHANGED <<pasteVars, agentVars>>

(* executeCommand(): the handler has returned, or thrown.                  *)
CommandEnds ==
  /\ phase = "command"
  /\ phase' = "loop"
  /\ UNCHANGED <<editorVars, agentVars>>

-------------------------------------------------------------------------------
(* AIAgent.process(): OpenClaw if that is the provider, else the model.    *)

Message(role, i) == [role |-> role, question |-> i]
\* Mutant: the callback does not look at wasAborted.
SaysAlways(i) == speaker' = i

Says(i) == speaker' = IF i \in aborted THEN speaker ELSE i

(* Without a provider the user is told that nothing is configured; with    *)
(* OpenClaw as provider none was ever created.                             *)
Refuses(i) == request' = [request EXCEPT ![i] = "over"]

\* Mutant: the loop does not wait for the answer.
AskWithoutAwait ==
  LET i == asked + 1 IN
  /\ Answered /\ Asks = "agent"
  /\ i \in Question
  /\ phase' = "loop"
  /\ asked' = i
  /\ addToHistory
  /\ provider = "llm" /\ isConfigured
  /\ request' = [request EXCEPT ![i] = "chatting"]
  /\ conversation' = Append(conversation, Message("user", i))
  /\ UNCHANGED speaker
  /\ UNCHANGED <<pasteVars, provider, isConfigured, openclawReady, aborted, iterations>>

Ask ==
  LET i == asked + 1 IN
  /\ Answered /\ Asks = "agent"
  /\ i \in Question
  /\ phase' = "agent"
  /\ asked' = i
  /\ addToHistory
  /\ IF provider = "llm" /\ isConfigured
       THEN /\ request' = [request EXCEPT ![i] = "chatting"]
            /\ conversation' = Append(conversation, Message("user", i))
            /\ UNCHANGED speaker
       ELSE /\ UNCHANGED conversation
            /\ CASE provider = "llm" \/ openclawReady = FALSE -> Refuses(i) /\ Says(i)
                 [] openclawReady = None ->
                      request' = [request EXCEPT ![i] = "probing"] /\ UNCHANGED speaker
                 [] openclawReady = TRUE ->
                      request' = [request EXCEPT ![i] = "streaming"] /\ UNCHANGED speaker
  /\ UNCHANGED <<pasteVars, provider, isConfigured, openclawReady, aborted, iterations>>

Background == UNCHANGED <<editorVars, phase, provider, isConfigured, asked, aborted>>

(* isOpenClawAvailable() has answered, for good; a process started for an  *)
(* aborted question is killed at once.                                     *)
ProbeEnds(i, ok) ==
  /\ request[i] = "probing"
  /\ openclawReady' = ok
  /\ IF ok THEN /\ request' = [request EXCEPT ![i] = IF i \in aborted THEN "killed"
                                                     ELSE "streaming"]
                /\ UNCHANGED speaker
           ELSE Refuses(i) /\ Says(i)
  /\ UNCHANGED <<iterations, conversation>>
  /\ Background

(* Output of the process, which may arrive after the process was killed.   *)
Chunk(i) ==
  /\ request[i] \in {"streaming", "killed"}
  /\ Says(i)
  /\ UNCHANGED <<openclawReady, request, iterations, conversation>>
  /\ Background

(* The process ends: an answer, or a failure for which the user is told    *)
(* that nothing is configured; after its timeout it counts as aborted.     *)
ProcessEnds(i) ==
  /\ request[i] \in {"streaming", "killed"}
  /\ request' = [request EXCEPT ![i] = "over"]
  /\ Says(i) \/ UNCHANGED speaker
  /\ UNCHANGED <<openclawReady, iterations, conversation>>
  /\ Background

\* Mutant: the tools are asked for once too often.
ToolUseOnceMore(i) ==
  /\ request[i] = "chatting" /\ iterations[i] <= MaxIterations
  /\ request' = [request EXCEPT ![i] = "working"]
  /\ iterations' = [iterations EXCEPT ![i] = @ + 1]
  /\ UNCHANGED <<openclawReady, conversation, speaker>>
  /\ Background

(* The model asks for tools, until the rounds are used up; ...             *)
ToolUse(i) ==
  /\ request[i] = "chatting" /\ iterations[i] < MaxIterations
  /\ request' = [request EXCEPT ![i] = "working"]
  /\ iterations' = [iterations EXCEPT ![i] = @ + 1]
  /\ UNCHANGED <<openclawReady, conversation, speaker>>
  /\ Background

(* ... answers, with or without a text; or the call fails.                 *)
Reply(i) ==
  /\ request[i] = "chatting"
  /\ request' = [request EXCEPT ![i] = "over"]
  /\ conversation' \in {conversation, Append(conversation, Message("assistant", i))}
  /\ Says(i)
  /\ UNCHANGED <<openclawReady, iterations>>
  /\ Background

\* Mutant: the signal is not passed on to the provider.
ToolsEndNoSignal(i) ==
  /\ request[i] = "working"
  /\ conversation' = conversation \o <<Message("assistant", i), Message("results", i)>>
  /\ request' = [request EXCEPT ![i] = "chatting"]
  /\ UNCHANGED <<openclawReady, iterations, speaker>>
  /\ Background

\* Mutant: each tool that ends adds its own result.
ToolsEndOneByOne(i) ==
  /\ request[i] = "working"
  /\ conversation' \in {Append(conversation, Message("assistant", i)),
                        Append(conversation, Message("results", i))}
  /\ request' \in {request, [request EXCEPT ![i] = IF i \in aborted THEN "over" ELSE "chatting"]}
  /\ UNCHANGED <<openclawReady, iterations, speaker>>
  /\ Background

(* The tools know no signal: their results enter the conversation even if  *)
(* the question was aborted, and only the call that follows finds out.     *)
ToolsEnd(i) ==
  /\ request[i] = "working"
  /\ conversation' = conversation \o <<Message("assistant", i), Message("results", i)>>
  /\ request' = [request EXCEPT ![i] = IF i \in aborted THEN "over" ELSE "chatting"]
  /\ UNCHANGED <<openclawReady, iterations, speaker>>
  /\ Background

(* Escape twice within half a second: the process is killed and a call of  *)
(* the model rejected, but a probe and the tools go on.                    *)
Abort ==
  /\ phase = "agent" /\ asked \notin aborted /\ request[asked] # "over"
  /\ aborted' = aborted \cup {asked}
  /\ request' = [request EXCEPT ![asked] = CASE @ = "streaming" -> "killed"
                                             [] @ = "chatting"  -> "over"
                                             [] OTHER           -> @]
  /\ UNCHANGED <<editorVars, phase, provider, isConfigured, openclawReady, asked,
                 iterations, conversation, speaker>>

\* Mutant: the loop waits for the agent only.
AgentReturnsLate ==
  /\ phase = "agent"
  /\ request[asked] = "over"
  /\ phase' = "loop"
  /\ UNCHANGED <<editorVars, agentVars>>

(* Promise.race(): the answer, its failure or the abort ends the wait.     *)
AgentReturns ==
  /\ phase = "agent"
  /\ request[asked] = "over" \/ asked \in aborted
  /\ phase' = "loop"
  /\ UNCHANGED <<editorVars, agentVars>>

AgentStep(i) ==
  \/ \E ok \in BOOLEAN : ProbeEnds(i, ok)
  \/ Chunk(i) \/ ProcessEnds(i)
  \/ ToolUse(i) \/ ToolsEnd(i) \/ Reply(i)

LoopStep == Prompts \/ TurnEnds \/ Stops \/ CommandRuns \/ Ask \/ AgentReturns

ReplNext ==
  \/ LoopStep \/ CommandEnds
  \/ Edits \/ Environment
  \/ Abort
  \/ phase # "exited" /\ \E i \in Question : AgentStep(i)

(* Fairness: the event loop runs what is due.  Nothing is assumed of the   *)
(* user, the model, OpenClaw, the tools and the handlers of commands.      *)
ReplSpec == ReplInit /\ [][ReplNext]_replVars /\ WF_replVars(LoopStep)

-------------------------------------------------------------------------------
ReplTypeOK ==
  /\ EditorTypeOK
  /\ phase \in {"loop", "reading", "command", "agent", "exited"}
  /\ openclawReady \in BOOLEAN \cup {None}
  /\ asked \in 0 .. MaxRequests /\ speaker \in 0 .. asked
  /\ aborted \subseteq 1 .. asked
  /\ \A i \in Question : /\ (request[i] = "unused") <=> (i > asked)
                         /\ iterations[i] \in 0 .. MaxIterations

(* The results of tools stand in the conversation right after the message  *)
(* that asked for them, however the answers to two questions interleave.   *)
ResultsBehindCall ==
  \A k \in DOMAIN conversation :
    conversation[k].role = "results" =>
      k > 1 /\ conversation[k - 1] = Message("assistant", conversation[k].question)

(* (The types of the state are checked with it.)                           *)
ResultsFollowTheirCall == ReplTypeOK /\ ResultsBehindCall

(* Whatever enters the conversation of an earlier question after a later   *)
(* one was asked comes from a question that the user has aborted, and is   *)
(* at most one round of tools.                                             *)
StragglersWereAborted ==
  \A j, k \in DOMAIN conversation :
    (j < k /\ conversation[j].question > conversation[k].question) =>
      /\ conversation[k].question \in aborted
      /\ request[conversation[k].question] = "over"

(* Once aborted, a question starts nothing new: no call of the model, no   *)
(* round of tools, no process that is left running.                        *)
AbortedStartsNothing ==
  [][\A i \in aborted : request'[i] \in {request[i], "killed", "over"}]_replVars

(* What is printed belongs to the question the loop is waiting for.        *)
OnlyTheCurrentSpeaks ==
  [][speaker' # speaker => speaker' = asked' /\ phase' = "agent" /\ asked' \notin aborted]_replVars

(* A double Escape gives the prompt back, even if neither the model nor    *)
(* OpenClaw nor a tool ever answers.                                       *)
AbortGivesPromptBack ==
  (phase = "agent" /\ asked \in aborted) ~> (phase = "reading")

=============================================================================
