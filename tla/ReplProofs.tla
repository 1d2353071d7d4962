------------------------------ MODULE ReplProofs ------------------------------
(***************************************************************************)
(* Proofs about Repl, for any commands, any pieces of pasted text and any  *)
(* number of questions and rounds of tools.  The safety of the             *)
(* conversation rests on what the loop waits for: a question that the user *)
(* has not stopped is over before the next one is asked.                   *)
(***************************************************************************)
EXTENDS Repl, SequenceTheorems, DataLemmas

Entry == [role : {"user", "assistant", "results"}, question : Question]

AgentTypeOK ==
  /\ phase \in {"loop", "reading", "command", "agent", "exited"}
  /\ phase = "agent" => asked # 0
  /\ openclawReady \in BOOLEAN \cup {None}
  /\ asked \in 0 .. MaxRequests
  /\ aborted \subseteq 1 .. asked
  /\ request \in [Question -> {"unused", "probing", "streaming", "killed", "chatting",
                               "working", "over"}]
  /\ conversation \in Seq(Entry)

(* What question i may be doing: nothing before it is asked; if it is not  *)
(* aborted, it is over or the loop waits for it; if it is, only what knows *)
(* no signal goes on.                                                      *)
QuestionInv(i) ==
  /\ request[i] = "unused" <=> i > asked
  /\ i \in 1 .. asked /\ i \notin aborted =>
       request[i] = "over" \/ (phase = "agent" /\ i = asked)
  /\ i \in aborted => request[i] \in {"probing", "working", "killed", "over"}

Questions == \A i \in Question : QuestionInv(i)

(* The conversation is of questions that were asked, and those that wrote  *)
(* in it after a later one are over.                                       *)
OfAsked == \A k \in DOMAIN conversation : conversation[k].question \in 1 .. asked

AgentInv ==
  AgentTypeOK /\ Questions /\ OfAsked /\ ResultsBehindCall /\ StragglersWereAborted

LEMMA AgentStarts == ReplInit => AgentInv
  BY ReplAssumption DEF ReplInit, AgentInit, AgentInv, AgentTypeOK, Questions, QuestionInv,
     OfAsked, ResultsBehindCall, StragglersWereAborted, Question

(* What is appended: one or two entries of a question i.                   *)
LEMMA Longer ==
  ASSUME AgentTypeOK, NEW i \in Question,
         NEW new \in Seq(Entry), \A k \in DOMAIN new : new[k].question = i,
         conversation' = conversation \o new
  PROVE  /\ conversation' \in Seq(Entry)
         /\ Len(conversation') = Len(conversation) + Len(new)
         /\ DOMAIN conversation' = 1 .. Len(conversation')
         /\ \A k \in DOMAIN conversation : conversation'[k] = conversation[k]
         /\ \A k \in DOMAIN conversation' \ DOMAIN conversation :
              /\ k - Len(conversation) \in DOMAIN new
              /\ conversation'[k] = new[k - Len(conversation)]
  BY ConcatProperties DEF AgentTypeOK

(* Entries of question i may be appended if it is the last one asked, or   *)
(* is aborted and over with them, and results come with their call.        *)
LEMMA Appended ==
  ASSUME AgentInv, NEW i \in Question,
         NEW new \in Seq(Entry), \A k \in DOMAIN new : new[k].question = i,
         \A k \in DOMAIN new :
           new[k].role = "results" => k > 1 /\ new[k - 1] = Message("assistant", i),
         conversation' = conversation \o new,
         asked' \in 0 .. MaxRequests, asked <= asked', i \in 1 .. asked', aborted \subseteq aborted',
         \A q \in Question : request[q] = "over" => request'[q] = "over",
         i < asked => i \in aborted' /\ request'[i] = "over"
  PROVE  OfAsked' /\ ResultsBehindCall' /\ StragglersWereAborted'
<1> DEFINE old == Len(conversation)
<1>1. /\ AgentTypeOK /\ conversation \in Seq(Entry) /\ old \in Nat /\ DOMAIN conversation = 1 .. old
      /\ MaxRequests \in Nat
  BY LenProperties, ReplAssumption DEF AgentInv, AgentTypeOK
<1>2. DOMAIN new = 1 .. Len(new) /\ Len(new) \in Nat
  BY LenProperties
<1>3. /\ DOMAIN conversation' = 1 .. old + Len(new)
      /\ \A k \in 1 .. old : conversation'[k] = conversation[k]
      /\ \A k \in old + 1 .. old + Len(new) :
           k - old \in DOMAIN new /\ conversation'[k] = new[k - old]
  BY <1>1, <1>2, Longer
<1>4. \A k \in 1 .. old : conversation[k].question \in 1 .. asked
  BY <1>1 DEF AgentInv, OfAsked
<1>5. OfAsked'
  BY <1>1, <1>2, <1>3, <1>4 DEF OfAsked, AgentTypeOK
<1>6. ResultsBehindCall'
  <2> SUFFICES ASSUME NEW k \in DOMAIN conversation', conversation'[k].role = "results"
               PROVE  k > 1 /\ conversation'[k - 1]
                                 = Message("assistant", conversation'[k].question)
    BY DEF ResultsBehindCall, Message
  <2>1. CASE k \in 1 .. old
    <3>1. k > 1 /\ conversation[k - 1] = Message("assistant", conversation[k].question)
      BY <2>1, <1>1, <1>3 DEF AgentInv, ResultsBehindCall
    <3>. QED
      BY <2>1, <3>1, <1>1, <1>3
  <2>2. CASE k \in old + 1 .. old + Len(new)
    <3>1. /\ k - old > 1 /\ new[k - old - 1] = Message("assistant", i)
          /\ conversation'[k].question = i
      BY <2>2, <1>3
    <3>2. k - 1 \in old + 1 .. old + Len(new) /\ (k - 1) - old = k - old - 1
      BY <2>2, <3>1, <1>1, <1>2
    <3>. QED
      BY <2>2, <3>1, <3>2, <1>1, <1>2, <1>3
  <2>. QED
    BY <2>1, <2>2, <1>1, <1>2, <1>3
<1>7. StragglersWereAborted'
  <2> SUFFICES ASSUME NEW j \in DOMAIN conversation', NEW k \in DOMAIN conversation',
                      j < k, conversation'[j].question > conversation'[k].question
               PROVE  /\ conversation'[k].question \in aborted'
                      /\ request'[conversation'[k].question] = "over"
    BY DEF StragglersWereAborted
  <2>1. CASE k \in 1 .. old
    <3>1. j \in 1 .. old /\ conversation[k].question \in 1 .. asked
      BY <2>1, <1>1, <1>3, <1>4
    <3>2. conversation[k].question \in aborted /\ request[conversation[k].question] = "over"
      BY <2>1, <3>1, <1>1, <1>3 DEF AgentInv, StragglersWereAborted
    <3>. QED
      BY <2>1, <3>1, <3>2, <1>1, <1>3 DEF AgentTypeOK, Question
  <2>2. CASE k \in old + 1 .. old + Len(new)
    <3>1. conversation'[k].question = i
      BY <2>2, <1>3
    <3>2. CASE j \in 1 .. old
      BY <2>2, <3>1, <3>2, <1>1, <1>3, <1>4 DEF AgentTypeOK, Question
    <3>3. CASE j \in old + 1 .. old + Len(new)
      <4>1. conversation'[j].question = i
        BY <3>3, <1>3
      <4>. QED
        BY <3>1, <4>1 DEF Question
    <3>. QED
      BY <3>2, <3>3, <1>1, <1>2, <1>3
  <2>. QED
    BY <2>1, <2>2, <1>1, <1>2, <1>3
<1>. QED
  BY <1>5, <1>6, <1>7

LEMMA Kept ==
  ASSUME AgentInv, UNCHANGED conversation, asked' \in 0 .. MaxRequests, asked <= asked',
         aborted \subseteq aborted',
         \A q \in Question : request[q] = "over" => request'[q] = "over"
  PROVE  OfAsked' /\ ResultsBehindCall' /\ StragglersWereAborted'
<1>1. asked \in 0 .. MaxRequests /\ MaxRequests \in Nat
  BY ReplAssumption DEF AgentInv, AgentTypeOK
<1>2. OfAsked'
  BY <1>1 DEF AgentInv, OfAsked
<1>3. ResultsBehindCall'
  BY DEF AgentInv, ResultsBehindCall, Message
<1>4. StragglersWereAborted'
  BY <1>1 DEF AgentInv, OfAsked, StragglersWereAborted, Question
<1>. QED
  BY <1>2, <1>3, <1>4

(* The loop moves on; it leaves its question only when that is over or     *)
(* aborted.                                                                *)
LEMMA LoopMoves ==
  ASSUME AgentInv, UNCHANGED agentVars, phase' \in {"loop", "reading", "command", "agent", "exited"},
         (phase = "agent" => phase' = "agent" \/ request[asked] = "over" \/ asked \in aborted),
         phase' = "agent" => phase = "agent"
  PROVE  AgentInv'
<1>1. UNCHANGED <<openclawReady, asked, request, aborted, conversation>>
  BY DEF agentVars
<1>2. AgentTypeOK'
  BY <1>1 DEF AgentInv, AgentTypeOK
<1>3. Questions'
  BY <1>1 DEF AgentInv, Questions, QuestionInv
<1>4. OfAsked' /\ ResultsBehindCall' /\ StragglersWereAborted'
  BY <1>1, ReplAssumption, Kept DEF AgentInv, AgentTypeOK
<1>. QED
  BY <1>2, <1>3, <1>4 DEF AgentInv

LEMMA LoopKeeps ==
  ASSUME AgentInv,
         Prompts \/ TurnEnds \/ Stops \/ CommandRuns \/ AgentReturns \/ CommandEnds
         \/ Edits \/ Environment
  PROVE  AgentInv'
<1>1. CASE Prompts \/ TurnEnds \/ Stops \/ CommandRuns \/ CommandEnds
  BY <1>1, LoopMoves DEF Prompts, TurnEnds, Stops, CommandRuns, CommandEnds, Answered
<1>2. CASE Edits \/ Environment
  BY <1>2, LoopMoves DEF Edits, Environment, AgentInv, AgentTypeOK
<1>3. CASE AgentReturns
  BY <1>3, LoopMoves DEF AgentReturns
<1>. QED
  BY <1>1, <1>2, <1>3

(* The first thing question i does: the model is called, OpenClaw probed   *)
(* for or started, or the user told that nothing is configured.            *)
LEMMA AskBegins ==
  ASSUME AgentInv, Ask
  PROVE  \E r \in {"chatting", "over", "probing", "streaming"} :
           request' = [request EXCEPT ![asked + 1] = r]
<1>1. CASE provider = "llm" /\ isConfigured
  BY <1>1 DEF Ask
<1>2. CASE ~(provider = "llm" /\ isConfigured)
  <2>1. CASE provider = "llm" \/ openclawReady = FALSE
    BY <1>2, <2>1 DEF Ask, Refuses
  <2>2. CASE openclawReady = None /\ ~(provider = "llm" \/ openclawReady = FALSE)
    BY <1>2, <2>2 DEF Ask, Refuses
  <2>3. CASE /\ openclawReady = TRUE /\ openclawReady # None
             /\ ~(provider = "llm" \/ openclawReady = FALSE)
    BY <1>2, <2>3 DEF Ask, Refuses
  <2>. QED
    BY <2>1, <2>2, <2>3 DEF AgentInv, AgentTypeOK
<1>. QED
  BY <1>1, <1>2

(* A new question: the loop was not waiting, so that every earlier one is  *)
(* over or aborted.                                                        *)
LEMMA AskKeeps == ASSUME AgentInv, Ask PROVE AgentInv'
<1> DEFINE i == asked + 1
<1>1. /\ i \in Question /\ asked' = i /\ UNCHANGED aborted /\ phase = "reading" /\ phase' = "agent"
      /\ asked \in 0 .. MaxRequests /\ MaxRequests \in Nat /\ asked <= asked'
      /\ asked' \in 0 .. MaxRequests /\ aborted \subseteq 1 .. asked
  BY ReplAssumption DEF Ask, Answered, AgentInv, AgentTypeOK, Question
<1>2. PICK r \in {"chatting", "over", "probing", "streaming"} :
        request' = [request EXCEPT ![i] = r]
  BY AskBegins
<1>3. openclawReady' = openclawReady
  BY DEF Ask
<1>4. Message("user", i) \in Entry /\ Message("user", i).question = i
      /\ Message("user", i).role # "results"
  BY <1>1 DEF Message, Entry
<1>5. \/ UNCHANGED conversation
      \/ conversation' = conversation \o << Message("user", i) >>
  <2>1. conversation \in Seq(Entry)
    BY DEF AgentInv, AgentTypeOK
  <2>2. UNCHANGED conversation \/ conversation' = Append(conversation, Message("user", i))
    BY DEF Ask
  <2>. QED
    BY <1>4, <2>1, <2>2, AppendIsConcat
<1>6. OfAsked' /\ ResultsBehindCall' /\ StragglersWereAborted'
  <2>1. \A q \in Question : request[q] = "over" => request'[q] = "over"
    BY <1>1, <1>2 DEF AgentInv, AgentTypeOK, Questions, QuestionInv
  <2>2. CASE UNCHANGED conversation
    BY <1>1, <2>1, <2>2, Kept
  <2>3. CASE conversation' = conversation \o << Message("user", i) >>
    <3> DEFINE new == << Message("user", i) >>
    <3>1. new \in Seq(Entry) /\ DOMAIN new = {1} /\ new[1] = Message("user", i)
      BY <1>4
    <3> HIDE DEF new
    <3>2. \A k \in DOMAIN new : new[k].question = i /\ new[k].role # "results"
      BY <1>4, <3>1
    <3>3. conversation' = conversation \o new /\ i \in 1 .. asked' /\ ~(i < asked)
      BY <1>1, <2>3 DEF new
    <3>. QED
      BY <1>1, <2>1, <3>1, <3>2, <3>3, Appended
  <2>. QED
    BY <1>5, <2>2, <2>3
<1>7. AgentTypeOK'
  <2>1. conversation' \in Seq(Entry)
    BY <1>4, <1>5, ConcatProperties DEF AgentInv, AgentTypeOK
  <2>. QED
    BY <1>1, <1>2, <1>3, <2>1 DEF AgentInv, AgentTypeOK
<1>8. Questions'
  <2> SUFFICES ASSUME NEW q \in Question PROVE QuestionInv(q)'
    BY DEF Questions
  <2>1. QuestionInv(q)
    BY DEF AgentInv, Questions
  <2>2. CASE q = i
    BY <1>1, <1>2, <2>2 DEF QuestionInv, AgentInv, AgentTypeOK, Question
  <2>3. CASE q # i
    BY <1>1, <1>2, <2>1, <2>3 DEF QuestionInv, AgentInv, AgentTypeOK, Question
  <2>. QED
    BY <2>2, <2>3
<1>. QED
  BY <1>6, <1>7, <1>8 DEF AgentInv

(* A step of the background or an abort: question i goes on to r.          *)
LEMMA QuestionMoves ==
  ASSUME AgentInv, NEW i \in Question, request[i] # "unused",
         NEW r \in {"probing", "streaming", "killed", "chatting", "working", "over"},
         request' = [request EXCEPT ![i] = r], request[i] # "over",
         UNCHANGED <<phase, asked>>, openclawReady' \in BOOLEAN \cup {None},
         aborted' \in {aborted, aborted \cup {i}}, conversation' \in Seq(Entry),
         i \in aborted' => r \in {"probing", "working", "killed", "over"}
  PROVE  /\ i \in 1 .. asked
         /\ i \notin aborted => phase = "agent" /\ i = asked
         /\ \A q \in Question : request[q] = "over" => request'[q] = "over"
         /\ AgentTypeOK' /\ Questions'
<1>1. /\ MaxRequests \in Nat /\ asked \in 0 .. MaxRequests /\ aborted \subseteq 1 .. asked
      /\ QuestionInv(i)
  BY ReplAssumption DEF AgentInv, AgentTypeOK, Questions
<1>2. i \in 1 .. asked
  BY <1>1 DEF QuestionInv, Question
<1>3. i \notin aborted => phase = "agent" /\ i = asked
  BY <1>1, <1>2 DEF QuestionInv
<1>4. AgentTypeOK'
  BY <1>1, <1>2 DEF AgentInv, AgentTypeOK
<1>5. \A q \in Question : request'[q] = IF q = i THEN r ELSE request[q]
  BY DEF AgentInv, AgentTypeOK
<1>6. Questions'
  <2> SUFFICES ASSUME NEW q \in Question PROVE QuestionInv(q)'
    BY DEF Questions
  <2>1. QuestionInv(q)
    BY DEF AgentInv, Questions
  <2>2. CASE q = i
    BY <1>1, <1>2, <1>3, <1>5, <2>2 DEF QuestionInv
  <2>3. CASE q # i
    BY <1>5, <2>1, <2>3 DEF QuestionInv
  <2>. QED
    BY <2>2, <2>3
<1>. QED
  BY <1>2, <1>3, <1>4, <1>5, <1>6

(* What a step may never do: another question than the current one         *)
(* speaks, or an aborted one starts something.                             *)
Discreet ==
  /\ speaker' # speaker => speaker' = asked' /\ phase' = "agent" /\ asked' \notin aborted
  /\ \A i \in aborted : request'[i] \in {request[i], "killed", "over"}

LEMMA Silent ==
  ASSUME UNCHANGED <<speaker, request>>
  PROVE  Discreet
  BY DEF Discreet

LEMMA AskIsDiscreet == ASSUME AgentInv, Ask PROVE Discreet
<1>1. /\ asked' = asked + 1 /\ phase' = "agent" /\ aborted \subseteq 1 .. asked
      /\ asked \in 0 .. MaxRequests /\ MaxRequests \in Nat
  BY ReplAssumption DEF Ask, AgentInv, AgentTypeOK
<1>2. asked + 1 \notin aborted
  BY <1>1
<1>3. speaker' \in {speaker, asked + 1}
  BY <1>2 DEF Ask, Says, AgentInv, AgentTypeOK
<1>4. \A i \in aborted : request'[i] = request[i]
  BY <1>1, <1>2, AskBegins DEF AgentInv, AgentTypeOK, Question
<1>. QED
  BY <1>1, <1>2, <1>3, <1>4 DEF Discreet

(* A step of the background that says nothing or says it for question i.   *)
LEMMA SaysForItself ==
  ASSUME AgentInv, Background, NEW i \in Question,
         i \notin aborted => phase = "agent" /\ i = asked,
         Says(i) \/ UNCHANGED speaker,
         NEW r, request' = [request EXCEPT ![i] = r], i \in aborted => r \in {request[i], "killed", "over"}
  PROVE  Discreet
<1>1. speaker' # speaker => speaker' = i /\ i \notin aborted
  BY DEF Says
<1>2. \A q \in Question : request'[q] = IF q = i THEN r ELSE request[q]
  BY DEF AgentInv, AgentTypeOK
<1>3. aborted \subseteq Question
  BY ReplAssumption DEF AgentInv, AgentTypeOK, Question
<1>. QED
  BY <1>1, <1>2, <1>3 DEF Discreet, Background

LEMMA ProbeKeeps ==
  ASSUME AgentInv, NEW i \in Question, NEW ok \in BOOLEAN, ProbeEnds(i, ok)
  PROVE  AgentInv' /\ Discreet
<1>1. PICK r \in {"killed", "streaming", "over"} :
        request' = [request EXCEPT ![i] = r] /\ (i \in aborted => r \in {"killed", "over"})
  <2>1. CASE ok
    BY <2>1 DEF ProbeEnds
  <2>2. CASE ~ok
    BY <2>2 DEF ProbeEnds, Refuses
  <2>. QED
    BY <2>1, <2>2
<1>2. /\ request[i] = "probing" /\ UNCHANGED <<phase, asked, aborted, conversation>> /\ Background
      /\ openclawReady' \in BOOLEAN \cup {None} /\ (Says(i) \/ UNCHANGED speaker)
  BY DEF ProbeEnds, Background
<1>3. conversation' \in Seq(Entry) /\ asked' \in 0 .. MaxRequests /\ asked <= asked'
  BY <1>2, ReplAssumption DEF AgentInv, AgentTypeOK
<1>4. /\ i \notin aborted => phase = "agent" /\ i = asked
      /\ \A q \in Question : request[q] = "over" => request'[q] = "over"
      /\ AgentTypeOK' /\ Questions'
  BY <1>1, <1>2, <1>3, QuestionMoves
<1>5. OfAsked' /\ ResultsBehindCall' /\ StragglersWereAborted'
  BY <1>2, <1>3, <1>4, Kept
<1>6. Discreet
  BY <1>1, <1>2, <1>4, SaysForItself
<1>. QED
  BY <1>4, <1>5, <1>6 DEF AgentInv

LEMMA ChunkKeeps ==
  ASSUME AgentInv, NEW i \in Question, Chunk(i)
  PROVE  AgentInv' /\ Discreet
<1>1. /\ request[i] \in {"streaming", "killed"} /\ Background /\ Says(i)
      /\ UNCHANGED <<phase, openclawReady, asked, request, aborted, conversation>>
  BY DEF Chunk, Background
<1>2. AgentTypeOK' /\ Questions'
  BY <1>1 DEF AgentInv, AgentTypeOK, Questions, QuestionInv
<1>3. OfAsked' /\ ResultsBehindCall' /\ StragglersWereAborted'
  BY <1>1, ReplAssumption, Kept DEF AgentInv, AgentTypeOK
<1>4. i \notin aborted => phase = "agent" /\ i = asked
  BY <1>1, ReplAssumption DEF AgentInv, AgentTypeOK, Questions, QuestionInv, Question
<1>5. request' = [request EXCEPT ![i] = request[i]]
  BY <1>1 DEF AgentInv, AgentTypeOK
<1>6. Discreet
  BY <1>1, <1>4, <1>5, SaysForItself
<1>. QED
  BY <1>2, <1>3, <1>6 DEF AgentInv

LEMMA ProcessEndKeeps ==
  ASSUME AgentInv, NEW i \in Question, ProcessEnds(i) \/ ToolUse(i)
  PROVE  AgentInv' /\ Discreet
<1>1. PICK r \in {"over", "working"} :
        request' = [request EXCEPT ![i] = r] /\ (r = "working" => request[i] = "chatting")
  BY DEF ProcessEnds, ToolUse
<1>2. /\ request[i] \in {"streaming", "killed", "chatting"} /\ Background
      /\ UNCHANGED <<phase, openclawReady, asked, aborted, conversation>>
      /\ Says(i) \/ UNCHANGED speaker
  BY DEF ProcessEnds, ToolUse, Background
<1>3. /\ conversation' \in Seq(Entry) /\ asked' \in 0 .. MaxRequests /\ asked <= asked'
      /\ openclawReady' \in BOOLEAN \cup {None}
  BY <1>2, ReplAssumption DEF AgentInv, AgentTypeOK
<1>4. i \in aborted => r = "over"
  BY <1>1 DEF AgentInv, Questions, QuestionInv
<1>5. /\ i \notin aborted => phase = "agent" /\ i = asked
      /\ \A q \in Question : request[q] = "over" => request'[q] = "over"
      /\ AgentTypeOK' /\ Questions'
  BY <1>1, <1>2, <1>3, <1>4, QuestionMoves
<1>6. OfAsked' /\ ResultsBehindCall' /\ StragglersWereAborted'
  BY <1>2, <1>3, <1>5, Kept
<1>7. Discreet
  BY <1>1, <1>2, <1>4, <1>5, SaysForItself
<1>. QED
  BY <1>5, <1>6, <1>7 DEF AgentInv

(* The model's answer enters the conversation of a question that was not   *)
(* stopped, hence of the last one asked.                                   *)
LEMMA ReplyKeeps ==
  ASSUME AgentInv, NEW i \in Question, Reply(i)
  PROVE  AgentInv' /\ Discreet
<1> DEFINE entry == Message("assistant", i)
<1>1. /\ request[i] = "chatting" /\ request' = [request EXCEPT ![i] = "over"] /\ Background
      /\ UNCHANGED <<phase, openclawReady, asked, aborted>> /\ Says(i)
      /\ conversation' \in {conversation, Append(conversation, entry)}
  BY DEF Reply, Background
<1>2. /\ conversation \in Seq(Entry) /\ asked' \in 0 .. MaxRequests /\ asked <= asked'
      /\ openclawReady' \in BOOLEAN \cup {None} /\ asked \in Int
  BY <1>1, ReplAssumption DEF AgentInv, AgentTypeOK
<1>3. entry \in Entry /\ entry.question = i /\ entry.role # "results"
  BY DEF Message, Entry
<1> HIDE DEF entry
<1>4. conversation' \in Seq(Entry)
      /\ (UNCHANGED conversation \/ conversation' = conversation \o <<entry>>)
  <2>1. Append(conversation, entry) = conversation \o <<entry>>
        /\ Append(conversation, entry) \in Seq(Entry)
    BY <1>2, <1>3, AppendIsConcat, AppendProperties
  <2>. QED
    BY <1>1, <1>2, <2>1
<1>5. /\ i \in 1 .. asked /\ (i \notin aborted => phase = "agent" /\ i = asked)
      /\ \A q \in Question : request[q] = "over" => request'[q] = "over"
      /\ AgentTypeOK' /\ Questions'
  BY <1>1, <1>2, <1>4, QuestionMoves
<1>6. i \notin aborted
  BY <1>1 DEF AgentInv, Questions, QuestionInv
<1>7. OfAsked' /\ ResultsBehindCall' /\ StragglersWereAborted'
  <2>1. CASE UNCHANGED conversation
    BY <1>1, <1>2, <1>5, <2>1, Kept
  <2>2. CASE conversation' = conversation \o <<entry>>
    <3> DEFINE new == <<entry>>
    <3>1. new \in Seq(Entry) /\ DOMAIN new = {1} /\ new[1] = entry
      BY <1>3
    <3>2. conversation' = conversation \o new
      BY <2>2
    <3> HIDE DEF new
    <3>3. \A k \in DOMAIN new : new[k].question = i /\ new[k].role # "results"
      BY <1>3, <3>1
    <3>4. i \in 1 .. asked' /\ ~(i < asked)
      BY <1>1, <1>2, <1>5, <1>6
    <3>. QED
      BY <1>1, <1>2, <1>5, <3>1, <3>2, <3>3, <3>4, Appended
  <2>. QED
    BY <1>4, <2>1, <2>2
<1>8. Discreet
  BY <1>1, <1>5, SaysForItself
<1>. QED
  BY <1>5, <1>7, <1>8 DEF AgentInv

(* The results of the tools follow their call whether or not the question  *)
(* was stopped meanwhile, since both are appended at once; if it was, it   *)
(* is over with them.                                                      *)
LEMMA ToolsKeep ==
  ASSUME AgentInv, NEW i \in Question, ToolsEnd(i)
  PROVE  AgentInv' /\ Discreet
<1> DEFINE new == <<Message("assistant", i), Message("results", i)>>
           r   == IF i \in aborted THEN "over" ELSE "chatting"
<1>1. /\ request[i] = "working" /\ request' = [request EXCEPT ![i] = r] /\ Background
      /\ UNCHANGED <<phase, openclawReady, asked, aborted, speaker>>
      /\ conversation' = conversation \o new
  BY DEF ToolsEnd, Background
<1>2. new \in Seq(Entry) /\ DOMAIN new = {1, 2}
  BY DEF Message, Entry
<1>3. /\ \A k \in DOMAIN new : new[k].question = i
      /\ \A k \in DOMAIN new :
           new[k].role = "results" => k > 1 /\ new[k - 1] = Message("assistant", i)
  BY <1>2 DEF Message
<1>4. r \in {"over", "chatting"} /\ (i \in aborted => r = "over")
  OBVIOUS
<1> HIDE DEF new, r
<1>5. /\ conversation \in Seq(Entry) /\ asked' \in 0 .. MaxRequests /\ asked <= asked'
      /\ openclawReady' \in BOOLEAN \cup {None} /\ asked \in Int
  BY <1>1, ReplAssumption DEF AgentInv, AgentTypeOK
<1>6. conversation' \in Seq(Entry)
  BY <1>1, <1>2, <1>5, ConcatProperties
<1>7. /\ i \in 1 .. asked /\ (i \notin aborted => phase = "agent" /\ i = asked)
      /\ \A q \in Question : request[q] = "over" => request'[q] = "over"
      /\ AgentTypeOK' /\ Questions'
  BY <1>1, <1>4, <1>5, <1>6, QuestionMoves
<1>8. i < asked => i \in aborted' /\ request'[i] = "over"
  BY <1>1, <1>4, <1>5, <1>7 DEF AgentInv, AgentTypeOK
<1>9. OfAsked' /\ ResultsBehindCall' /\ StragglersWereAborted'
  <2>1. i \in 1 .. asked' /\ aborted \subseteq aborted'
    BY <1>1, <1>7
  <2>. QED
    BY <1>1, <1>2, <1>3, <1>5, <1>7, <1>8, <2>1, Appended
<1>10. Discreet
  BY <1>1, <1>4, <1>7, SaysForItself
<1>. QED
  BY <1>7, <1>9, <1>10 DEF AgentInv

LEMMA AbortKeeps == ASSUME AgentInv, Abort PROVE AgentInv' /\ Discreet
<1>1. /\ phase = "agent" /\ asked \notin aborted /\ request[asked] # "over"
      /\ aborted' = aborted \cup {asked}
      /\ UNCHANGED <<phase, openclawReady, asked, conversation, speaker>>
  BY DEF Abort
<1>2. /\ asked \in Question /\ request[asked] # "unused" /\ conversation \in Seq(Entry)
      /\ asked' \in 0 .. MaxRequests /\ asked <= asked' /\ openclawReady' \in BOOLEAN \cup {None}
  <2>1. asked \in Question
    BY <1>1, ReplAssumption DEF AgentInv, AgentTypeOK, Question
  <2>. QED
    BY <1>1, <2>1, ReplAssumption DEF AgentInv, AgentTypeOK, Questions, QuestionInv, Question
<1>3. PICK r \in {"killed", "over", "probing", "working"} : request' = [request EXCEPT ![asked] = r]
  <2>1. request[asked] \in {"probing", "streaming", "killed", "chatting", "working"}
    BY <1>1, <1>2 DEF AgentInv, AgentTypeOK
  <2>2. request' = [request EXCEPT ![asked] = CASE @ = "streaming" -> "killed"
                                                [] @ = "chatting"  -> "over"
                                                [] OTHER           -> @]
    BY DEF Abort
  <2>3. CASE request[asked] = "streaming"
    BY <2>2, <2>3
  <2>4. CASE request[asked] = "chatting"
    BY <2>2, <2>4
  <2>5. CASE request[asked] \in {"probing", "killed", "working"}
    BY <2>2, <2>5
  <2>. QED
    BY <2>1, <2>3, <2>4, <2>5
<1>4. /\ \A q \in Question : request[q] = "over" => request'[q] = "over"
      /\ AgentTypeOK' /\ Questions'
  BY <1>1, <1>2, <1>3, QuestionMoves
<1>5. OfAsked' /\ ResultsBehindCall' /\ StragglersWereAborted'
  <2>1. aborted \subseteq aborted'
    BY <1>1
  <2>. QED
    BY <1>1, <1>2, <1>4, <2>1, Kept
<1>6. Discreet
  <2>1. \A i \in aborted : request'[i] = request[i]
    BY <1>1, <1>3, ReplAssumption DEF AgentInv, AgentTypeOK, Question
  <2>. QED
    BY <1>1, <2>1 DEF Discreet
<1>. QED
  BY <1>4, <1>5, <1>6 DEF AgentInv

LEMMA AgentNext ==
  ASSUME AgentInv, [ReplNext]_replVars
  PROVE  AgentInv' /\ Discreet
<1>1. CASE Ask
  BY <1>1, AskKeeps, AskIsDiscreet
<1>2. CASE \/ Prompts \/ TurnEnds \/ Stops \/ CommandRuns \/ AgentReturns \/ CommandEnds
           \/ Edits \/ Environment
  <2>1. AgentInv'
    BY <1>2, LoopKeeps
  <2>2. UNCHANGED <<speaker, request>>
    BY <1>2 DEF Prompts, TurnEnds, Stops, CommandRuns, AgentReturns, CommandEnds, Edits,
       Environment, agentVars
  <2>. QED
    BY <2>1, <2>2, Silent
<1>3. CASE Abort
  BY <1>3, AbortKeeps
<1>4. CASE \E i \in Question : AgentStep(i)
  <2> SUFFICES ASSUME NEW i \in Question, AgentStep(i) PROVE AgentInv' /\ Discreet
    BY <1>4
  <2>1. CASE \E ok \in BOOLEAN : ProbeEnds(i, ok)
    BY <2>1, ProbeKeeps
  <2>2. CASE Chunk(i)
    BY <2>2, ChunkKeeps
  <2>3. CASE ProcessEnds(i) \/ ToolUse(i)
    BY <2>3, ProcessEndKeeps
  <2>4. CASE ToolsEnd(i)
    BY <2>4, ToolsKeep
  <2>5. CASE Reply(i)
    BY <2>5, ReplyKeeps
  <2>. QED
    BY <2>1, <2>2, <2>3, <2>4, <2>5 DEF AgentStep
<1>5. CASE UNCHANGED replVars
  <2>1. UNCHANGED agentVars /\ UNCHANGED phase
    BY <1>5 DEF replVars
  <2>2. AgentInv'
    BY <2>1, LoopMoves DEF AgentInv, AgentTypeOK
  <2>3. UNCHANGED <<speaker, request>>
    BY <2>1 DEF agentVars
  <2>. QED
    BY <2>2, <2>3, Silent
<1>. QED
  BY <1>1, <1>2, <1>3, <1>4, <1>5 DEF ReplNext, LoopStep

LEMMA AgentAlways == ReplSpec => []AgentInv
<1>1. ReplInit => AgentInv
  BY AgentStarts
<1>2. AgentInv /\ [ReplNext]_replVars => AgentInv'
  BY AgentNext
<1>. QED
  BY <1>1, <1>2, PTL DEF ReplSpec

(* What enters the conversation late comes from a question that the user   *)
(* has stopped and that is over with it (handler.ts, repl.ts).             *)
THEOREM StragglersAreAborted == ReplSpec => []StragglersWereAborted
<1>1. AgentInv => StragglersWereAborted
  BY DEF AgentInv
<1>. QED
  BY <1>1, AgentAlways, PTL

(* Only the question the loop waits for prints, whatever stopped ones      *)
(* still receive from OpenClaw (repl.ts, wasAborted).                      *)
THEOREM OthersAreSilent == ReplSpec => OnlyTheCurrentSpeaks
<1>1. AgentInv /\ [ReplNext]_replVars =>
        [speaker' # speaker =>
           speaker' = asked' /\ phase' = "agent" /\ asked' \notin aborted]_replVars
  BY AgentNext DEF Discreet
<1>. QED
  BY <1>1, AgentAlways, PTL DEF ReplSpec, OnlyTheCurrentSpeaks

(* A stopped question calls the model no more, asks for no further tools   *)
(* and leaves no process running (handler.ts, the abort signal).           *)
THEOREM AbortedIsEnding == ReplSpec => AbortedStartsNothing
<1>1. AgentInv /\ [ReplNext]_replVars =>
        [\A i \in aborted : request'[i] \in {request[i], "killed", "over"}]_replVars
  BY AgentNext DEF Discreet
<1>. QED
  BY <1>1, AgentAlways, PTL DEF ReplSpec, AbortedStartsNothing

-------------------------------------------------------------------------------
(* The editor: while the terminal is in the middle of a paste that it has  *)
(* not lost track of, it collects.                                         *)
PasteIsKnown == terminal = "pasting" => inBracketedPaste = TRUE

LEMMA PasteStaysKnown ==
  ASSUME PasteIsKnown, [ReplNext]_replVars
  PROVE  PasteIsKnown'
<1>1. CASE UNCHANGED <<terminal, inBracketedPaste>>
  BY <1>1 DEF PasteIsKnown
<1>2. CASE Edits
  <2>1. CASE EditKey \/ Enter
    BY <2>1, <1>1 DEF EditKey, Type, Backspace, Delete, KillToEnd, KillToStart, KillWord, Transpose,
       ClearScreen, MoveCursor, Select, Older, Newer, Recall, Escape, Tab, Listens, pasteVars,
       Enter, Resolve
  <2>2. CASE \E exit \in BOOLEAN : Cancel(exit)
    BY <2>2 DEF Cancel, Key, Resolve, PasteIsKnown
  <2>. QED
    BY <1>2, <2>1, <2>2 DEF Edits
<1>3. CASE Environment
  <2>1. CASE Terminal
    BY <2>1 DEF Terminal, PasteInOneChunk, PasteStarts, PasteContinues, PasteEnds, StartIsDropped,
       StrayEnd, EndIsLost, pasteVars, PasteIsKnown
  <2>2. CASE PasteTimesOut
    BY <2>2 DEF PasteTimesOut, PasteIsKnown
  <2>. QED
    BY <1>3, <2>1, <2>2 DEF Environment
<1>4. CASE Prompts
  BY <1>4, <1>1 DEF Prompts, readLine, pasteVars
<1>5. CASE TurnEnds \/ Stops \/ CommandRuns \/ Ask
  BY <1>5, <1>1 DEF TurnEnds, Stops, CommandRuns, Ask, addToHistory, pasteVars
<1>6. CASE AgentReturns \/ CommandEnds \/ Abort \/ UNCHANGED replVars
  BY <1>6, <1>1 DEF AgentReturns, CommandEnds, Abort, replVars, editorVars, pasteVars
<1>7. CASE \E i \in Question : AgentStep(i)
  BY <1>7, <1>1 DEF AgentStep, ProbeEnds, Chunk, ProcessEnds, ToolUse, ToolsEnd, Reply, Background,
     editorVars, pasteVars
<1>. QED
  BY <1>2, <1>3, <1>4, <1>5, <1>6, <1>7 DEF ReplNext, LoopStep

(* No newline and no Ctrl+C inside a paste ends the line, unless the       *)
(* editor has lost track of the paste, in whatever pieces it comes and     *)
(* whatever the loop and the agent do meanwhile (raw-input.ts).            *)
THEOREM PastesEndNoLine == ReplSpec => PasteRunsNothing
<1> DEFINE Quiet == reading /\ ~reading' => terminal # "pasting"
<1>1. ReplInit => PasteIsKnown
  BY DEF ReplInit, EditorInit, PasteIsKnown
<1>2. PasteIsKnown /\ [ReplNext]_replVars => PasteIsKnown'
  BY PasteStaysKnown
<1>3. ASSUME PasteIsKnown, [ReplNext]_replVars
      PROVE  Quiet
  <2>1. CASE UNCHANGED reading
    BY <2>1
  <2>2. CASE Edits
    <3>1. CASE EditKey
      BY <3>1, <2>1 DEF EditKey, Type, Backspace, Delete, KillToEnd, KillToStart, KillWord, Transpose,
         ClearScreen, MoveCursor, Select, Older, Newer, Recall, Escape, Tab, Listens
    <3>2. CASE Enter \/ \E exit \in BOOLEAN : Cancel(exit)
      BY <3>2, <1>3 DEF Enter, Cancel, Key, PasteIsKnown
    <3>. QED
      BY <2>2, <3>1, <3>2 DEF Edits
  <2>3. CASE Environment
    BY <2>3, <2>1 DEF Environment, Terminal, PasteInOneChunk, PasteStarts, PasteContinues, PasteEnds,
       StartIsDropped, StrayEnd, EndIsLost, PasteTimesOut
  <2>4. CASE Prompts
    BY <2>4 DEF Prompts, readLine
  <2>5. CASE TurnEnds \/ Stops \/ CommandRuns \/ Ask
    BY <2>5, <2>1 DEF TurnEnds, Stops, CommandRuns, Ask, addToHistory
  <2>6. CASE AgentReturns \/ CommandEnds \/ Abort \/ UNCHANGED replVars
    BY <2>6, <2>1 DEF AgentReturns, CommandEnds, Abort, replVars, editorVars
  <2>7. CASE \E i \in Question : AgentStep(i)
    BY <2>7, <2>1 DEF AgentStep, ProbeEnds, Chunk, ProcessEnds, ToolUse, ToolsEnd, Reply, Background,
       editorVars
  <2>. QED
    BY <1>3, <2>2, <2>3, <2>4, <2>5, <2>6, <2>7 DEF ReplNext, LoopStep
<1>4. PasteIsKnown /\ [ReplNext]_replVars => [Quiet]_editorVars
  BY <1>3
<1>. QED
  BY <1>1, <1>2, <1>4, PTL DEF ReplSpec, PasteRunsNothing

-------------------------------------------------------------------------------
(* Text: what the operators the editor is built from return.               *)

(* What is kept of a sequence is a sequence: as many positions have a rank *)
(* as there are ranks.                                                     *)
LEMMA KeepType ==
  ASSUME NEW S, NEW s \in Seq(S), NEW kept \in SUBSET DOMAIN s,
         NEW T, \A i \in kept : s[i] \in T
  PROVE  Keep(s, kept) \in Seq(T) /\ (kept # {} => Keep(s, kept) # <<>>)
<1> DEFINE n    == Cardinality(kept)
           rank == [i \in kept |-> Cardinality({j \in kept : j <= i})]
<1>1. DOMAIN s = 1 .. Len(s) /\ Len(s) \in Nat
  BY LenProperties
<1>2. IsFiniteSet(kept) /\ n \in Nat /\ (kept # {} => n # 0)
  <2>1. IsFiniteSet(1 .. Len(s))
    BY <1>1, FS_Interval
  <2>2. IsFiniteSet(kept)
    BY <1>1, <2>1, FS_Subset
  <2>. QED
    BY <2>2, FS_CardinalityType, FS_EmptySet
<1>3. ASSUME NEW i \in kept
      PROVE  /\ IsFiniteSet({j \in kept : j <= i})
             /\ Cardinality({j \in kept : j <= i}) \in 1 .. n
  <2> DEFINE below == {j \in kept : j <= i}
  <2>1. below \in SUBSET kept /\ i \in below
    BY <1>1
  <2>2. IsFiniteSet(below) /\ Cardinality(below) <= n
    BY <1>2, <2>1, FS_Subset
  <2>3. Cardinality(below) \in Nat /\ Cardinality(below) # 0
    BY <2>1, <2>2, FS_CardinalityType, FS_EmptySet
  <2>. QED
    BY <1>2, <2>2, <2>3
<1>4. ASSUME NEW i \in kept, NEW j \in kept, rank[i] = rank[j], i < j PROVE FALSE
  <2> DEFINE A == {k \in kept : k <= i}
             B == {k \in kept : k <= j}
  <2>1. A \in SUBSET B /\ j \in B /\ j \notin A
    BY <1>1, <1>4
  <2>2. IsFiniteSet(B) /\ Cardinality(A) = Cardinality(B)
    BY <1>3, <1>4
  <2> HIDE DEF A, B
  <2>. QED
    BY <2>1, <2>2, FS_Subset
<1>5. rank \in Injection(kept, 1 .. n)
  <2>1. rank \in [kept -> 1 .. n]
    BY <1>3
  <2>2. \A i, j \in kept : rank[i] = rank[j] => i = j
    <3>1. \A i, j \in kept : i < j \/ j < i \/ i = j
      BY <1>1
    <3> HIDE DEF rank
    <3>. QED
      BY <1>4, <3>1
  <2> HIDE DEF rank
  <2>. QED
    BY <2>1, <2>2 DEF Injection, IsInjective
<1>6. rank \in Surjection(kept, 1 .. n)
  <2>1. IsFiniteSet(1 .. n) /\ Cardinality(1 .. n) = n
    BY <1>2, FS_Interval
  <2> HIDE DEF rank
  <2>. QED
    BY <1>5, <2>1, FS_Injection
<1>7. ASSUME NEW k \in 1 .. n
      PROVE  (CHOOSE i \in kept : Cardinality({j \in kept : j <= i}) = k) \in kept
  <2>1. \E i \in kept : rank[i] = k
    <3> HIDE DEF rank, n
    <3>. QED
      BY <1>6 DEF Surjection
  <2>2. \E i \in kept : Cardinality({j \in kept : j <= i}) = k
    BY <2>1
  <2>. QED
    BY <2>2
<1>8. /\ Keep(s, kept) \in [1 .. n -> T]
      /\ DOMAIN Keep(s, kept) = 1 .. n
  BY <1>7 DEF Keep
<1>9. Keep(s, kept) \in Seq(T)
  BY <1>2, <1>8, SeqDef
<1>10. DOMAIN <<>> = {}
  OBVIOUS
<1>. QED
  BY <1>2, <1>8, <1>9, <1>10

LEMMA MaxOf ==
  ASSUME NEW n \in Nat, NEW I \in SUBSET (1 .. n), I # {}
  PROVE  Max(I) \in I /\ \A i \in I : i <= Max(I)
<1> DEFINE D == {n - i : i \in I}
<1>1. D \in SUBSET Nat /\ D # {}
  <2>1. \A i \in I : i \in 1 .. n /\ n - i \in Nat
    OBVIOUS
  <2>. QED
    BY <2>1
<1>2. PICK m \in D : \A d \in D : m <= d
  <2> HIDE DEF D
  <2>. QED
    BY <1>1, LeastNat
<1>3. PICK k \in I : m = n - k
  BY <1>2
<1>4. \A i \in I : n - i \in D
  OBVIOUS
<1>5. \A i \in I : n - k <= n - i
  BY <1>2, <1>3, <1>4
<1>6. \A i \in I : i <= k
  BY <1>5
<1>. QED
  BY <1>6 DEF Max

LEMMA MinOf ==
  ASSUME NEW I \in SUBSET Nat, I # {}
  PROVE  Min(I) \in I /\ \A i \in I : Min(I) <= i
  BY LeastNat DEF Min

LEMMA Pieces ==
  ASSUME NEW S, NEW s \in Seq(S), NEW n \in 0 .. Len(s)
  PROVE  /\ Upto(s, n) \in Seq(S) /\ Len(Upto(s, n)) = n
         /\ After(s, n) \in Seq(S) /\ Len(After(s, n)) = Len(s) - n
         /\ \A i \in 1 .. n : Upto(s, n)[i] = s[i]
<1>1. Len(s) \in Nat /\ \A i \in 1 .. Len(s) : s[i] \in S
  BY LenProperties, ElementOfSeq
<1>. QED
  BY <1>1, SubSeqProperties DEF Upto, After

LEMMA LastBlankType ==
  ASSUME NEW s \in Seq(Letter)
  PROVE  LastBlank(s) \in 0 .. Len(s)
<1>1. Len(s) \in Nat
  BY LenProperties
<1> DEFINE I == {i \in 1 .. Len(s) : s[i] = " "}
<1>2. LastBlank(s) = IF I # {} THEN Max(I) ELSE 0
  BY DEF LastBlank, SelectLastInSeq
<1>3. I # {} => Max(I) \in 1 .. Len(s)
  BY <1>1, MaxOf
<1> HIDE DEF I
<1>. QED
  BY <1>1, <1>2, <1>3

LEMMA WordStartType ==
  ASSUME buffer \in Seq(Letter), cursorPos \in 0 .. Len(buffer)
  PROVE  WordStart \in 0 .. cursorPos
<1> DEFINE before == Upto(buffer, cursorPos)
           I      == {i \in 1 .. Len(before) : before[i] # " "}
           end    == IF I # {} THEN Max(I) ELSE 0
<1>1. WordStart = LastBlank(Upto(before, end))
  BY DEF WordStart, SelectLastInSeq
<1>2. before \in Seq(Letter) /\ Len(before) = cursorPos /\ cursorPos \in Nat
  BY Pieces, LenProperties
<1>3. end \in 0 .. Len(before)
  <2>1. I # {} => Max(I) \in 1 .. Len(before)
    BY <1>2, MaxOf
  <2> HIDE DEF I, before
  <2>. QED
    BY <1>2, <2>1
<1>4. Upto(before, end) \in Seq(Letter) /\ Len(Upto(before, end)) = end
  <2> HIDE DEF before, end
  <2>. QED
    BY <1>2, <1>3, Pieces
<1> HIDE DEF before, end
<1>. QED
  BY <1>1, <1>2, <1>3, <1>4, LastBlankType

LEMMA PrintableType ==
  ASSUME NEW s \in Seq(Letter \cup {"^"})
  PROVE  Printable(s) \in Seq(Letter)
<1> DEFINE kept == {i \in DOMAIN s : s[i] # "^"}
<1>1. \A i \in kept : s[i] \in Letter
  BY LenProperties, ElementOfSeq
<1>. QED
  BY <1>1, KeepType DEF Printable

LEMMA OneBlankType ==
  ASSUME NEW s \in Seq(Letter)
  PROVE  OneBlank(s) \in Seq(Letter)
<1> DEFINE kept == {i \in DOMAIN s : ~(s[i] = " " /\ i > 1 /\ s[i - 1] = " ")}
<1>1. \A i \in kept : s[i] \in Letter
  BY LenProperties, ElementOfSeq
<1>. QED
  BY <1>1, KeepType DEF OneBlank

LEMMA SuggestType ==
  ASSUME NEW b \in Seq(Letter)
  PROVE  /\ Suggest(b) \in Seq(Word)
         /\ Suggest(b) # <<>> => NamesCommand(b) \/ NamesFlag(b)
<1>1. ASSUME NEW list \in Seq(Word), NEW s
      PROVE  Starting(list, s) \in Seq(Word)
  <2> DEFINE kept == {i \in DOMAIN list : IsPrefix(s, list[i])}
  <2>1. \A i \in kept : list[i] \in Word
    BY LenProperties, ElementOfSeq
  <2> HIDE DEF Word
  <2>. QED
    BY <2>1, KeepType DEF Starting
<1>2. getFlags(FirstWord(Tail(b))) \in Seq(Word)
  <2> DEFINE name == FirstWord(Tail(b))
  <2>1. CASE name \in DOMAIN FlagsOf
    <3>1. FlagsOf[name] \in Seq(Word)
      BY <2>1, EditorAssumption DEF EditorAssumption
    <3>. QED
      BY <2>1, <3>1 DEF getFlags
  <2>2. CASE name \notin DOMAIN FlagsOf
    BY <2>2, EmptySeq DEF getFlags
  <2>. QED
    BY <2>1, <2>2
<1>3. CASE NamesCommand(b)
  <2>1. ~NamesFlag(b) /\ Commands \in Seq(Word)
    BY <1>3, EditorAssumption DEF NamesFlag, EditorAssumption
  <2>2. Suggest(b) = Starting(Commands, Tail(b))
    BY <1>3, <2>1 DEF Suggest
  <2>. QED
    BY <1>1, <1>3, <2>1, <2>2
<1>4. CASE NamesFlag(b) /\ ~NamesCommand(b)
  BY <1>1, <1>2, <1>4 DEF Suggest
<1>5. CASE ~NamesFlag(b) /\ ~NamesCommand(b)
  <2>1. Suggest(b) = <<>>
    BY <1>5 DEF Suggest
  <2>. QED
    BY <2>1
<1>. QED
  BY <1>3, <1>4, <1>5

-------------------------------------------------------------------------------
(* The invariant of the editor: what is on the screen and in the buffer;   *)
(* what the editor waits for and collects; and what it remembers.          *)
Screen ==
  /\ buffer \in Seq(Letter) /\ cursorPos \in 0 .. Len(buffer)
  /\ filteredSuggestions \in Seq(Word) /\ showingSuggestions \in BOOLEAN
  /\ showingSuggestions => selectedIndex \in DOMAIN filteredSuggestions
  /\ rows \in Nat /\ lastSuggestionLineCount \in Nat
  /\ reading => /\ rows = lastSuggestionLineCount
                /\ rows = IF showingSuggestions THEN LineCount(filteredSuggestions) ELSE 0
  /\ ~reading => rows = 0

Modes ==
  /\ {reading, inBracketedPaste, pasteTimeout} \subseteq BOOLEAN
  /\ pasteBuffer \in Seq(Letter \cup {"^"})
  /\ ~inBracketedPaste => pasteBuffer = <<>>
  /\ inBracketedPaste => reading
  /\ terminal \in {"typing", "pasting", "lost"}
  /\ line = None \/ line \in Lines

Memory ==
  /\ history \in Seq(Word)
  /\ historyIndex \in -1 .. Len(history) - 1
  /\ savedBuffer \in Seq(Letter)

EditorInv == Screen /\ Modes /\ Memory

LEMMA EditorStarts == EditorInit => EditorInv
<1> SUFFICES ASSUME EditorInit PROVE EditorInv
  OBVIOUS
<1>1. Len(history) \in Nat /\ Len(buffer) = 0
  BY LenProperties, EmptySeq DEF EditorInit, Fresh
<1>2. \A S : <<>> \in Seq(S)
  BY EmptySeq
<1>3. Screen
  <2>1. buffer \in Seq(Letter) /\ filteredSuggestions \in Seq(Word)
    BY <1>2 DEF EditorInit, Fresh
  <2>2. cursorPos \in 0 .. Len(buffer)
    BY <1>1 DEF EditorInit, Fresh
  <2>. QED
    BY <2>1, <2>2 DEF EditorInit, Fresh, Screen
<1>4. Modes
  BY <1>2 DEF EditorInit, Modes
<1>5. Memory
  BY <1>1, <1>2 DEF EditorInit, Fresh, Memory
<1>. QED
  BY <1>3, <1>4, <1>5 DEF EditorInv

LEMMA LineCountType ==
  ASSUME NEW list \in Seq(Word)
  PROVE  LineCount(list) \in Nat
<1>1. Len(list) \in Nat /\ MaxShow \in Nat
  BY LenProperties, EditorAssumption DEF EditorAssumption
<1>2. Min({Len(list), MaxShow}) \in Nat
  BY <1>1, MinOf
<1>. QED
  BY <1>1, <1>2 DEF LineCount

(* render() leaves the present dropdown, whatever was on the screen.       *)
LEMMA Rendered ==
  ASSUME Screen, reading, render, filteredSuggestions' \in Seq(Word), showingSuggestions' \in BOOLEAN
  PROVE  /\ rows' \in Nat /\ lastSuggestionLineCount' = rows'
         /\ rows' = IF showingSuggestions' THEN LineCount(filteredSuggestions') ELSE 0
<1>1. Erased = 0
  BY DEF Screen, Erased
<1>2. CASE showingSuggestions'
  <2>1. PICK n \in Nat : n = LineCount(filteredSuggestions')
    BY LineCountType
  <2>2. Max({0, n}) = n
    BY <2>1 DEF Max
  <2>. QED
    BY <1>1, <1>2, <2>1, <2>2 DEF render
<1>3. CASE ~showingSuggestions'
  BY <1>1, <1>3 DEF render, clearSuggestions
<1>. QED
  BY <1>2, <1>3

(* An edit of the buffer brings suggestions and screen up to date.         *)
LEMMA Edited ==
  ASSUME Screen, reading, reading', NEW b \in Seq(Letter), NEW c \in 0 .. Len(b), Edit(b, c)
  PROVE  Screen'
<1>1. buffer' = b /\ cursorPos' = c /\ updateSuggestions /\ render
  BY DEF Edit
<1>2. /\ filteredSuggestions' = Suggest(b) /\ filteredSuggestions' \in Seq(Word)
      /\ showingSuggestions' = (Suggest(b) # <<>>)
  BY <1>1, SuggestType DEF updateSuggestions
<1>3. showingSuggestions' => selectedIndex' \in DOMAIN filteredSuggestions'
  <2>1. SUFFICES ASSUME showingSuggestions'
                 PROVE  selectedIndex' \in DOMAIN filteredSuggestions'
    OBVIOUS
  <2>2. Suggest(b) # <<>> /\ (NamesCommand(b) \/ NamesFlag(b))
    BY <1>2, <2>1, SuggestType
  <2>3. selectedIndex' = 1
    BY <1>1, <2>2 DEF updateSuggestions
  <2>4. Len(filteredSuggestions') \in Nat \ {0}
    BY <1>2, <2>2, EmptySeq
  <2>. QED
    BY <1>2, <2>3, <2>4, LenProperties
<1>4. /\ rows' \in Nat /\ lastSuggestionLineCount' = rows'
      /\ rows' = IF showingSuggestions' THEN LineCount(filteredSuggestions') ELSE 0
  BY <1>1, <1>2, Rendered
<1>. QED
  BY <1>1, <1>2, <1>3, <1>4 DEF Screen

(* The dropdown is drawn again, with another selection or none.            *)
LEMMA Redrawn ==
  ASSUME Screen, reading, reading', buffer' \in Seq(Letter), cursorPos' \in 0 .. Len(buffer'),
         UNCHANGED <<filteredSuggestions, showingSuggestions>>, render,
         showingSuggestions' => selectedIndex' \in DOMAIN filteredSuggestions'
  PROVE  Screen'
<1>1. filteredSuggestions' \in Seq(Word) /\ showingSuggestions' \in BOOLEAN
  BY DEF Screen
<1>2. /\ rows' \in Nat /\ lastSuggestionLineCount' = rows'
      /\ rows' = IF showingSuggestions' THEN LineCount(filteredSuggestions') ELSE 0
  BY <1>1, Rendered
<1>. QED
  BY <1>1, <1>2 DEF Screen

(* The text around the cursor, and what an insertion makes of it.          *)
LEMMA Around ==
  ASSUME Screen, NEW n \in 0 .. Len(buffer), NEW m \in 0 .. Len(buffer), NEW s \in Seq(Letter)
  PROVE  LET b == Upto(buffer, n) \o s \o After(buffer, m)
         IN  /\ b \in Seq(Letter) /\ n + Len(s) \in 0 .. Len(b)
             /\ n \in Nat /\ m \in Nat /\ Len(s) \in Nat /\ Len(b) = n + Len(s) + Len(buffer) - m
<1>1. buffer \in Seq(Letter) /\ Len(buffer) \in Nat /\ Len(s) \in Nat
  BY LenProperties DEF Screen
<1>2. /\ Upto(buffer, n) \in Seq(Letter) /\ Len(Upto(buffer, n)) = n
      /\ After(buffer, m) \in Seq(Letter) /\ Len(After(buffer, m)) = Len(buffer) - m
  BY <1>1, Pieces
<1>3. PICK u \in Seq(Letter), v \in Seq(Letter) :
        u = Upto(buffer, n) \o s /\ v = After(buffer, m) /\ Len(u) = n + Len(s)
  <2>1. Upto(buffer, n) \o s \in Seq(Letter)
    BY <1>2, ConcatProperties
  <2>2. Len(Upto(buffer, n) \o s) = Len(Upto(buffer, n)) + Len(s)
    BY <1>2, ConcatProperties
  <2>. QED
    BY <1>2, <2>1, <2>2
<1>4. u \o v \in Seq(Letter) /\ Len(u \o v) = n + Len(s) + (Len(buffer) - m)
  <2>1. u \o v \in Seq(Letter) /\ Len(u \o v) = Len(u) + Len(v)
    BY ConcatProperties
  <2>. QED
    BY <1>1, <1>2, <1>3, <2>1
<1>5. PICK w : w = Upto(buffer, n) \o s \o After(buffer, m)
  OBVIOUS
<1>6. w \in Seq(Letter) /\ Len(w) = n + Len(s) + (Len(buffer) - m)
  <2>1. w = u \o v
    BY <1>2, <1>3, <1>5, ConcatAssociative
  <2>. QED
    BY <1>4, <2>1
<1>7. n + Len(s) \in 0 .. Len(w) /\ Len(w) = n + Len(s) + Len(buffer) - m
  BY <1>1, <1>6
<1>. QED
  BY <1>1, <1>5, <1>6, <1>7

LEMMA Cut ==
  ASSUME Screen, NEW n \in 0 .. Len(buffer), NEW m \in 0 .. Len(buffer)
  PROVE  LET b == Upto(buffer, n) \o After(buffer, m)
         IN  b \in Seq(Letter) /\ n \in 0 .. Len(b)
<1>1. buffer \in Seq(Letter) /\ Len(buffer) \in Nat
  BY LenProperties DEF Screen
<1>2. /\ Upto(buffer, n) \in Seq(Letter) /\ Len(Upto(buffer, n)) = n
      /\ After(buffer, m) \in Seq(Letter) /\ Len(After(buffer, m)) = Len(buffer) - m
  BY <1>1, Pieces
<1>3. /\ Upto(buffer, n) \o After(buffer, m) \in Seq(Letter)
      /\ Len(Upto(buffer, n) \o After(buffer, m)) = n + (Len(buffer) - m)
  BY <1>2, ConcatProperties
<1>. QED
  BY <1>1, <1>3

LEMMA Pasting ==
  ASSUME Screen, reading, reading', NEW s \in Seq(Letter \cup {"^"}), processPaste(s)
  PROVE  Screen'
<1> DEFINE p == Printable(s)
<1>1. p \in Seq(Letter) /\ cursorPos \in 0 .. Len(buffer)
  BY PrintableType DEF Screen
<1>2. CASE p = <<>>
  <2>1. UNCHANGED <<textVars, menuVars, screenVars>>
    BY <1>2 DEF processPaste
  <2>. QED
    BY <2>1 DEF Screen, textVars, menuVars, screenVars
<1>3. CASE p # <<>>
  <2> DEFINE b == Upto(buffer, cursorPos) \o p \o After(buffer, cursorPos)
             c == cursorPos + Len(p)
  <2>1. Edit(b, c)
    BY <1>3 DEF processPaste, Insert
  <2>2. b \in Seq(Letter) /\ c \in 0 .. Len(b)
    <3> HIDE DEF p
    <3>. QED
      BY <1>1, Around
  <2> HIDE DEF b, c
  <2>. QED
    BY <2>1, <2>2, Edited
<1>. QED
  BY <1>2, <1>3
-------------------------------------------------------------------------------
(* A key leaves alone what the editor waits for; most leave its memory.    *)
LEMMA Listening ==
  ASSUME EditorInv, Listens, Screen'
  PROVE  Modes' /\ (UNCHANGED recallVars => EditorInv')
<1>1. UNCHANGED <<reading, line, inBracketedPaste, pasteBuffer, pasteTimeout, history, terminal>>
  BY DEF Listens, pasteVars
<1>2. Modes'
  BY <1>1 DEF EditorInv, Modes
<1>3. ASSUME UNCHANGED recallVars PROVE Memory'
  BY <1>1, <1>3 DEF EditorInv, Memory, recallVars
<1>. QED
  BY <1>2, <1>3 DEF EditorInv

LEMMA TextKeys ==
  ASSUME EditorInv,
         (\E s \in Typed : Type(s)) \/ Backspace \/ Delete \/ KillToEnd \/ KillToStart \/ KillWord
  PROVE  EditorInv'
<1>1. Screen /\ buffer \in Seq(Letter) /\ Len(buffer) \in Nat /\ cursorPos \in 0 .. Len(buffer)
  BY LenProperties DEF EditorInv, Screen
<1> SUFFICES ASSUME Listens, UNCHANGED recallVars, reading, reading' PROVE Screen'
  BY Listening DEF Type, Backspace, Delete, KillToEnd, KillToStart, KillWord, Key, Listens
<1>2. CASE \E s \in Typed : Type(s)
  <2>1. PICK s \in Typed : Type(s)
    BY <1>2
  <2>2. s \in Seq(Letter \cup {"^"})
    <3>1. Char \subseteq Letter \cup {"^"} /\ Pasted \subseteq Seq(Letter \cup {"^"})
      BY EditorAssumption DEF EditorAssumption
    <3>2. s \in Pasted \/ \E c \in Char : s = <<c>>
      BY DEF Typed
    <3>3. ASSUME NEW c \in Letter \cup {"^"} PROVE <<c>> \in Seq(Letter \cup {"^"})
      OBVIOUS
    <3>. QED
      BY <3>1, <3>2, <3>3
  <2>. QED
    BY <1>1, <2>1, <2>2, Pasting DEF Type
<1>3. CASE Backspace
  <2>1. cursorPos - 1 \in 0 .. Len(buffer)
    BY <1>1, <1>3 DEF Backspace
  <2>. QED
    BY <1>1, <1>3, <2>1, Cut, Edited DEF Backspace
<1>4. CASE Delete
  <2>1. cursorPos + 1 \in 0 .. Len(buffer)
    BY <1>1, <1>4 DEF Delete
  <2>. QED
    BY <1>1, <1>4, <2>1, Cut, Edited DEF Delete
<1>5. CASE KillToEnd
  <2>1. Upto(buffer, cursorPos) \in Seq(Letter) /\ cursorPos \in 0 .. Len(Upto(buffer, cursorPos))
    BY <1>1, Pieces
  <2>. QED
    BY <1>1, <1>5, <2>1, Edited DEF KillToEnd
<1>6. CASE KillToStart
  <2>1. /\ After(buffer, cursorPos) \in Seq(Letter) /\ Len(After(buffer, cursorPos)) \in Nat
    BY <1>1, Pieces, LenProperties
  <2>. QED
    BY <1>1, <1>6, <2>1, Edited DEF KillToStart
<1>7. CASE KillWord
  <2>1. WordStart \in 0 .. cursorPos
    BY <1>1, WordStartType
  <2>2. WordStart \in 0 .. Len(buffer)
    BY <1>1, <2>1
  <2>. QED
    BY <1>1, <1>7, <2>2, Cut, Edited DEF KillWord
<1>. QED
  BY <1>2, <1>3, <1>4, <1>5, <1>6, <1>7

LEMMA MenuKeys ==
  ASSUME EditorInv,
         \/ Transpose \/ ClearScreen \/ Escape
         \/ \E c \in 0 .. Len(buffer) : MoveCursor(c)
         \/ \E i \in DOMAIN filteredSuggestions : Select(i)
  PROVE  EditorInv'
<1>1. Screen /\ buffer \in Seq(Letter) /\ Len(buffer) \in Nat /\ cursorPos \in 0 .. Len(buffer)
  BY LenProperties DEF EditorInv, Screen
<1> SUFFICES ASSUME Listens, UNCHANGED recallVars, reading, reading' PROVE Screen'
  BY Listening DEF Transpose, ClearScreen, Escape, MoveCursor, Select, Key, Listens
<1>2. CASE Transpose
  <2> DEFINE swapped == [buffer EXCEPT ![cursorPos - 1] = buffer[cursorPos],
                                       ![cursorPos] = buffer[cursorPos - 1]]
             first   == [buffer EXCEPT ![cursorPos - 1] = buffer[cursorPos]]
  <2>1. /\ cursorPos \in 1 .. Len(buffer) /\ cursorPos - 1 \in 1 .. Len(buffer)
        /\ buffer[cursorPos] \in Letter /\ buffer[cursorPos - 1] \in Letter
    BY <1>1, <1>2, ElementOfSeq DEF Transpose
  <2>2. first \in Seq(Letter) /\ Len(first) = Len(buffer)
    BY <1>1, <2>1, ExceptSeq
  <2>3. [first EXCEPT ![cursorPos] = buffer[cursorPos - 1]] \in Seq(Letter)
        /\ Len([first EXCEPT ![cursorPos] = buffer[cursorPos - 1]]) = Len(buffer)
    <3> HIDE DEF first
    <3>. QED
      BY <2>1, <2>2, ExceptSeq
  <2>4. swapped = [first EXCEPT ![cursorPos] = buffer[cursorPos - 1]]
    OBVIOUS
  <2>5. buffer' = swapped /\ cursorPos' = cursorPos /\ UNCHANGED menuVars /\ render
    BY <1>2 DEF Transpose
  <2>6. buffer' \in Seq(Letter) /\ cursorPos' \in 0 .. Len(buffer')
    <3> HIDE DEF first, swapped
    <3>. QED
      BY <1>1, <2>3, <2>4, <2>5
  <2>. QED
    BY <1>1, <2>5, <2>6, Redrawn DEF menuVars, Screen
<1>3. CASE \E c \in 0 .. Len(buffer) : MoveCursor(c)
  BY <1>1, <1>3, Redrawn DEF MoveCursor, menuVars, Screen
<1>4. CASE ClearScreen
  <2>1. UNCHANGED <<buffer, cursorPos, filteredSuggestions, selectedIndex, showingSuggestions>>
    BY <1>4 DEF ClearScreen, textVars, menuVars
  <2>2. LineCount(filteredSuggestions) \in Nat
    BY <1>1, LineCountType DEF Screen
  <2>3. /\ rows' \in Nat /\ lastSuggestionLineCount' = rows'
        /\ rows' = IF showingSuggestions THEN LineCount(filteredSuggestions) ELSE 0
    BY <1>4, <2>2 DEF ClearScreen
  <2>. QED
    BY <1>1, <2>1, <2>3 DEF Screen
<1>5. CASE \E i \in DOMAIN filteredSuggestions : Select(i)
  BY <1>1, <1>5, Redrawn DEF Select, textVars, Screen
<1>6. CASE Escape
  <2>1. CASE showingSuggestions
    <3>1. rows' = 0 /\ lastSuggestionLineCount' = 0
      BY <1>1, <1>6, <2>1 DEF Escape, clearSuggestions, Erased, Screen
    <3>2. UNCHANGED <<buffer, cursorPos, filteredSuggestions>> /\ showingSuggestions' = FALSE
      BY <1>6 DEF Escape, textVars
    <3>. QED
      BY <1>1, <3>1, <3>2 DEF Screen
  <2>2. CASE ~showingSuggestions
    <3>1. /\ UNCHANGED <<buffer, cursorPos, filteredSuggestions, rows, lastSuggestionLineCount>>
          /\ showingSuggestions' = FALSE
      BY <1>6, <2>2 DEF Escape, screenVars, textVars
    <3>. QED
      BY <1>1, <2>2, <3>1 DEF Screen
  <2>. QED
    BY <2>1, <2>2
<1>. QED
  BY <1>2, <1>3, <1>4, <1>5, <1>6

LEMMA HistoryKeys == ASSUME EditorInv, Older \/ Newer PROVE EditorInv'
<1>1. /\ Screen /\ buffer \in Seq(Letter) /\ savedBuffer \in Seq(Letter)
      /\ history \in Seq(Word) /\ Len(history) \in Nat
      /\ historyIndex \in -1 .. Len(history) - 1
  BY LenProperties DEF EditorInv, Screen, Memory
<1>2. PICK i : /\ i \in -1 .. Len(history) - 1 /\ Recall(i)
               /\ savedBuffer' \in Seq(Letter) /\ reading
  <2>1. CASE Older
    <3>1. Len(history) \in Nat \ {0}
      BY <1>1, <2>1, EmptySeq DEF Older
    <3>2. Min({Len(history) - 1, historyIndex + 1}) \in -1 .. Len(history) - 1
      <4> DEFINE I == {Len(history) - 1, historyIndex + 1}
      <4>1. I \in SUBSET Nat /\ I # {} /\ \A n \in I : n >= 0
        BY <1>1, <3>1
      <4>2. Min(I) \in I /\ Min(I) <= Len(history) - 1
        <5>1. Min(I) \in I /\ \A n \in I : Min(I) <= n
          <6> HIDE DEF I
          <6>. QED
            BY <4>1, MinOf
        <5>. QED
          BY <5>1
      <4> HIDE DEF I
      <4>3. Min(I) \in Nat
        BY <4>1, <4>2
      <4>4. Min(I) \in -1 .. Len(history) - 1
        BY <3>1, <4>2, <4>3
      <4>. QED
        BY <4>4 DEF I
    <3>3. savedBuffer' \in Seq(Letter)
      BY <1>1, <2>1 DEF Older
    <3>. QED
      BY <2>1, <3>2, <3>3 DEF Older, Key
  <2>2. CASE Newer
    <3>1. historyIndex - 1 \in -1 .. Len(history) - 1
      BY <1>1, <2>2 DEF Newer
    <3>. QED
      BY <1>1, <2>2, <3>1 DEF Newer, Key
  <2>. QED
    BY <2>1, <2>2
<1>3. /\ Listens /\ UNCHANGED <<reading, history>> /\ historyIndex' = i
  BY <1>2 DEF Recall, Listens
<1>4. PICK b \in Seq(Letter) : Edit(b, Len(b))
  <2>1. i # -1 => history[Len(history) - i] \in Seq(Letter)
    <3>1. i # -1 => Len(history) - i \in 1 .. Len(history)
      BY <1>1, <1>2
    <3>. QED
      BY <1>1, <3>1, ElementOfSeq DEF Word
  <2>. QED
    BY <1>2, <2>1 DEF Recall
<1>5. Screen'
  <2>1. Len(b) \in 0 .. Len(b)
    BY LenProperties
  <2>. QED
    BY <1>1, <1>2, <1>3, <1>4, <2>1, Edited
<1>6. Memory'
  BY <1>1, <1>2, <1>3 DEF Memory
<1>. QED
  BY <1>3, <1>5, <1>6, Listening DEF EditorInv

(* An accepted suggestion becomes part of the buffer, and the dropdown     *)
(* goes.                                                                   *)
LEMMA Accepting ==
  ASSUME Screen, reading, Accept
  PROVE  /\ buffer' \in Seq(Letter) /\ cursorPos' \in 0 .. Len(buffer')
         /\ rows' = 0 /\ lastSuggestionLineCount' = 0
         /\ ~showingSuggestions' /\ showingSuggestions' \in BOOLEAN
         /\ UNCHANGED filteredSuggestions
<1>1. buffer \in Seq(Letter) /\ Len(buffer) \in Nat /\ cursorPos \in 0 .. Len(buffer)
  BY LenProperties DEF Screen
<1>2. Selected \in Seq(Letter)
  <2>1. /\ filteredSuggestions \in Seq(Word) /\ selectedIndex \in DOMAIN filteredSuggestions
    BY DEF Screen, Accept, Menu
  <2>2. Selected \in Word
    BY <2>1, LenProperties, ElementOfSeq DEF Selected
  <2>. QED
    BY <2>2 DEF Word
<1> DEFINE before == Upto(buffer, cursorPos)
           start  == OneBlank(Upto(before, LastBlank(before)))
           flag   == start \o Selected \o <<" ">>
           name   == <<"/">> \o Selected \o <<" ">>
           rest   == After(buffer, cursorPos)
<1>3. before \in Seq(Letter) /\ rest \in Seq(Letter)
  BY <1>1, Pieces
<1>4. start \in Seq(Letter)
  <2> HIDE DEF before
  <2>. QED
    BY <1>3, LastBlankType, Pieces, OneBlankType
<1>5. <<" ">> \in Seq(Letter) /\ <<"/">> \in Seq(Letter)
  <2>1. " " \in Letter /\ "/" \in Letter
    BY EditorAssumption DEF EditorAssumption
  <2>2. ASSUME NEW c \in Letter PROVE <<c>> \in Seq(Letter)
    OBVIOUS
  <2>. QED
    BY <2>1, <2>2
<1>6. flag \in Seq(Letter) /\ name \in Seq(Letter)
  <2> HIDE DEF start
  <2>. QED
    BY <1>2, <1>4, <1>5, ConcatProperties
<1>7. Accepted.text \in Seq(Letter) /\ Accepted.at \in 0 .. Len(Accepted.text)
  <2>1. Accepted = IF Selected[1] = "-" THEN [text |-> flag \o rest, at |-> Len(flag)]
                   ELSE [text |-> name, at |-> Len(name)]
    BY DEF Accepted
  <2> HIDE DEF flag, name, rest
  <2>2. /\ flag \o rest \in Seq(Letter) /\ Len(flag \o rest) = Len(flag) + Len(rest)
        /\ Len(flag) \in Nat /\ Len(rest) \in Nat /\ Len(name) \in Nat
    BY <1>3, <1>6, ConcatProperties, LenProperties
  <2>3. CASE Selected[1] = "-"
    <3>1. Accepted.text = flag \o rest /\ Accepted.at = Len(flag)
      BY <2>1, <2>3
    <3>. QED
      BY <2>2, <3>1
  <2>4. CASE Selected[1] # "-"
    <3>1. Accepted.text = name /\ Accepted.at = Len(name)
      BY <2>1, <2>4
    <3>. QED
      BY <1>6, <2>2, <3>1
  <2>. QED
    BY <2>3, <2>4
<1>8. buffer' = Accepted.text /\ cursorPos' = Accepted.at
  BY DEF Accept
<1>9. rows' = 0 /\ lastSuggestionLineCount' = 0
  BY DEF Accept, clearSuggestions, Erased, Screen
<1>. QED
  BY <1>7, <1>8, <1>9 DEF Accept

LEMMA KeysKeep == ASSUME EditorInv, EditKey PROVE EditorInv'
<1>1. CASE Tab
  <2>1. /\ Screen /\ reading /\ reading' /\ Accept /\ UNCHANGED recallVars /\ Listens
    BY <1>1 DEF EditorInv, Tab, Key, Listens
  <2>2. Screen'
    BY <2>1, Accepting DEF Screen
  <2>. QED
    BY <2>1, <2>2, Listening
<1>. QED
  BY <1>1, TextKeys, MenuKeys, HistoryKeys DEF EditKey
(* Pieces of a paste, and the timer.                                       *)
LEMMA PastesKeep ==
  ASSUME EditorInv, Terminal \/ PasteTimesOut
  PROVE  EditorInv' /\ UNCHANGED <<reading, line>>
<1>1. Screen /\ Modes /\ Memory
  BY DEF EditorInv
<1>2. \A s \in Pasted : s \in Seq(Letter \cup {"^"})
  BY EditorAssumption DEF EditorAssumption
<1>3. UNCHANGED <<reading, line, history, recallVars>>
  BY DEF Terminal, PasteInOneChunk, PasteStarts, PasteContinues, PasteEnds, StartIsDropped,
     StrayEnd, EndIsLost, PasteTimesOut
<1>4. Memory'
  BY <1>1, <1>3 DEF Memory, recallVars
<1>5. Screen' /\ Modes'
  <2>1. ASSUME UNCHANGED <<textVars, menuVars, screenVars>> PROVE Screen'
    BY <1>1, <1>3, <2>1 DEF Screen, textVars, menuVars, screenVars
  <2>2. ASSUME reading, NEW s \in Seq(Letter \cup {"^"}), processPaste(s) PROVE Screen'
    BY <1>1, <1>3, <2>2, Pasting
  <2>3. <<>> \in Seq(Letter \cup {"^"})
    BY EmptySeq
  <2>4. CASE \E s \in Pasted : PasteInOneChunk(s)
    BY <1>1, <1>2, <1>3, <2>2, <2>3, <2>4 DEF PasteInOneChunk, Modes
  <2>5. CASE \E s \in Pasted : PasteStarts(s)
    BY <1>1, <1>2, <1>3, <2>1, <2>5 DEF PasteStarts, Modes
  <2>6. CASE \E s \in Pasted : PasteContinues(s)
    <3>1. PICK s \in Pasted : PasteContinues(s)
      BY <2>6
    <3>2. pasteBuffer \o s \in Seq(Letter \cup {"^"})
      BY <1>1, <1>2, ConcatProperties DEF Modes
    <3>. QED
      BY <1>1, <1>3, <2>1, <3>1, <3>2 DEF PasteContinues, Modes
  <2>7. CASE \E s \in Pasted : PasteEnds(s)
    <3>1. PICK s \in Pasted : PasteEnds(s)
      BY <2>7
    <3>2. pasteBuffer \o s \in Seq(Letter \cup {"^"})
      BY <1>1, <1>2, ConcatProperties DEF Modes
    <3>3. Screen'
      BY <2>2, <3>1, <3>2 DEF PasteEnds
    <3>. QED
      BY <1>1, <1>3, <2>3, <3>1, <3>3 DEF PasteEnds, Modes
  <2>8. CASE StartIsDropped \/ StrayEnd \/ EndIsLost
    <3>1. UNCHANGED <<textVars, menuVars, screenVars, pasteVars>> /\ terminal' \in {"typing", "lost"}
      BY <2>8 DEF StartIsDropped, StrayEnd, EndIsLost
    <3>. QED
      BY <1>1, <1>3, <2>1, <3>1 DEF Modes, pasteVars
  <2>9. CASE PasteTimesOut
    <3>1. CASE inBracketedPaste /\ pasteBuffer # <<>>
      <4>1. reading /\ processPaste(pasteBuffer) /\ pasteBuffer \in Seq(Letter \cup {"^"})
        BY <1>1, <2>9, <3>1 DEF PasteTimesOut, Modes
      <4>2. Screen'
        BY <2>2, <4>1
      <4>. QED
        BY <1>1, <1>3, <2>3, <2>9, <3>1, <4>2 DEF PasteTimesOut, Modes
    <3>2. CASE ~(inBracketedPaste /\ pasteBuffer # <<>>)
      <4>1. /\ UNCHANGED <<inBracketedPaste, pasteBuffer, textVars, menuVars, screenVars, terminal>>
            /\ pasteTimeout' = FALSE
        BY <2>9, <3>2 DEF PasteTimesOut
      <4>2. Screen'
        BY <2>1, <4>1
      <4>. QED
        BY <1>1, <1>3, <4>1, <4>2 DEF Modes
    <3>. QED
      BY <3>1, <3>2
  <2>. QED
    BY <2>4, <2>5, <2>6, <2>7, <2>8, <2>9 DEF Terminal
<1>. QED
  BY <1>3, <1>4, <1>5 DEF EditorInv

(* The line ends: its text can be printed, and no dropdown stays behind.   *)
LEMMA LineEnds ==
  ASSUME EditorInv, Enter \/ \E exit \in BOOLEAN : Cancel(exit)
  PROVE  EditorInv' /\ line' \in Lines /\ ~reading'
<1>1. Screen /\ Modes /\ Memory /\ reading /\ ~inBracketedPaste
  BY DEF EditorInv, Enter, Cancel, Key
<1>2. reading' = FALSE /\ UNCHANGED <<history, recallVars, terminal>>
  BY DEF Enter, Cancel, Resolve
<1>3. Memory'
  BY <1>1, <1>2 DEF Memory, recallVars
<1>4. CASE Enter
  <2>1. /\ buffer' \in Seq(Letter) /\ cursorPos' \in 0 .. Len(buffer')
        /\ rows' = 0 /\ lastSuggestionLineCount' \in Nat
        /\ showingSuggestions' \in BOOLEAN /\ UNCHANGED filteredSuggestions
        /\ showingSuggestions' => selectedIndex' \in DOMAIN filteredSuggestions'
    <3>1. CASE Accept
      BY <1>1, <3>1, Accepting
    <3>2. CASE ~Menu /\ UNCHANGED <<textVars, menuVars, screenVars>>
      <4>1. rows = 0
        BY <1>1, <3>2 DEF Screen, Menu, LineCount
      <4>. QED
        BY <1>1, <3>2, <4>1 DEF Screen, textVars, menuVars, screenVars
    <3>. QED
      BY <1>4, <3>1, <3>2 DEF Enter
  <2>2. Screen'
    BY <1>1, <1>2, <2>1 DEF Screen
  <2>3. line' = Line(buffer') /\ UNCHANGED <<inBracketedPaste, pasteBuffer, pasteTimeout>>
    BY <1>4 DEF Enter, Resolve, pasteVars
  <2>4. line' \in Lines
    BY <2>1, <2>3 DEF Line, Lines
  <2>5. Modes'
    BY <1>1, <1>2, <2>3, <2>4 DEF Modes
  <2>. QED
    BY <1>2, <1>3, <2>2, <2>4, <2>5 DEF EditorInv
<1>5. CASE \E exit \in BOOLEAN : Cancel(exit)
  <2>1. PICK exit \in BOOLEAN : Cancel(exit)
    BY <1>5
  <2>2. rows' = 0 /\ lastSuggestionLineCount' = 0
    BY <1>1, <2>1 DEF Cancel, clearSuggestions, Erased, Screen
  <2>3. Screen'
    BY <1>1, <1>2, <2>1, <2>2 DEF Cancel, Screen, textVars, menuVars
  <2>4. line' \in Lines
    BY <1>1, <2>1 DEF Cancel, Resolve, Lines, Screen
  <2>5. inBracketedPaste' = FALSE /\ pasteBuffer' = <<>> /\ pasteTimeout' = FALSE
    BY <2>1 DEF Cancel
  <2>6. Modes'
    BY <1>1, <1>2, <2>4, <2>5, EmptySeq DEF Modes
  <2>. QED
    BY <1>2, <1>3, <2>3, <2>4, <2>6 DEF EditorInv
<1>. QED
  BY <1>4, <1>5

LEMMA LineBegins == ASSUME EditorInv, readLine PROVE EditorInv' /\ reading'
<1>1. Screen /\ Modes /\ Memory
  BY DEF EditorInv
<1>2. /\ <<>> \in Seq(Letter) /\ <<>> \in Seq(Word) /\ Len(buffer') = 0
      /\ Len(history) \in Nat
  BY <1>1, EmptySeq, LenProperties DEF readLine, Memory
<1>3. Screen'
  <2>1. rows' = 0 /\ reading' = TRUE /\ lastSuggestionLineCount' = 0 /\ showingSuggestions' = FALSE
    BY <1>1 DEF readLine, Screen
  <2>2. buffer' \in Seq(Letter) /\ filteredSuggestions' \in Seq(Word)
    BY <1>2 DEF readLine
  <2>3. cursorPos' \in 0 .. Len(buffer')
    BY <1>2 DEF readLine
  <2>. QED
    BY <2>1, <2>2, <2>3 DEF Screen
<1>4. Modes'
  BY <1>1 DEF readLine, Modes, pasteVars
<1>5. Memory'
  BY <1>1, <1>2 DEF readLine, Memory
<1>. QED
  BY <1>3, <1>4, <1>5 DEF EditorInv, readLine

LEMMA EditorRests == ASSUME EditorInv, UNCHANGED editorVars PROVE EditorInv'
<1>1. UNCHANGED <<reading, line, buffer, cursorPos, filteredSuggestions, selectedIndex,
                  showingSuggestions, lastSuggestionLineCount, rows>>
      /\ UNCHANGED <<inBracketedPaste, pasteBuffer, pasteTimeout, history, historyIndex,
                     savedBuffer, terminal>>
  BY DEF editorVars, textVars, menuVars, screenVars, pasteVars, recallVars
<1>2. Screen'
  BY <1>1 DEF EditorInv, Screen
<1>3. Modes'
  BY <1>1 DEF EditorInv, Modes
<1>4. Memory'
  BY <1>1 DEF EditorInv, Memory
<1>. QED
  BY <1>2, <1>3, <1>4 DEF EditorInv

LEMMA EditorAlways == EditorSpec => []EditorInv
<1>1. EditorInit => EditorInv
  BY EditorStarts
<1>2. EditorInv /\ [EditorNext]_editorVars => EditorInv'
  BY LineBegins, KeysKeep, LineEnds, PastesKeep, EditorRests DEF EditorNext
<1>. QED
  BY <1>1, <1>2, PTL DEF EditorSpec

LEMMA EditorSays == EditorInv => EditorTypeOK /\ DropdownIsCurrent
  BY DEF EditorInv, Screen, Modes, Memory, EditorTypeOK, DropdownIsCurrent

(* Nothing that cannot be printed enters the buffer, a draft, the history  *)
(* or a line, and the cursor stands in the buffer, whatever keys, pastes   *)
(* and lost markers there are (raw-input.ts).                              *)
THEOREM EditorIsTyped == EditorSpec => []EditorTypeOK
  BY EditorAlways, EditorSays, PTL

(* The rows below the input line are those of the present dropdown, and    *)
(* the selection that Tab and Enter accept is one of it (raw-input.ts).    *)
THEOREM DropdownStaysCurrent == EditorSpec => []DropdownIsCurrent
  BY EditorAlways, EditorSays, PTL

-------------------------------------------------------------------------------
(* The loop and the editor: a line that has ended can be printed, and so   *)
(* can what the loop adds to the history.                                  *)
ReplInv == EditorInv /\ (phase = "reading" /\ ~reading => line \in Lines)

LEMMA FirstToLast ==
  ASSUME NEW s \in Seq(Letter), NEW blank, NEW c \in Range(s), c # blank,
         NEW I, I = {i \in 1 .. Len(s) : s[i] # blank}
  PROVE  I # {} /\ SubSeq(s, Min(I), Max(I)) \in Seq(Letter)
<1>1. Len(s) \in Nat /\ I # {}
  BY LenProperties DEF Range
<1>2. Min(I) \in 1 .. Len(s) /\ Max(I) \in 1 .. Len(s)
  <2>1. I \in SUBSET (1 .. Len(s)) /\ I \in SUBSET Nat
    BY <1>1
  <2>2. Min(I) \in I /\ Max(I) \in I
    BY <1>1, <2>1, MinOf, MaxOf
  <2>. QED
    BY <2>1, <2>2
<1>3. PICK m \in 1 .. Len(s), n \in 1 .. Len(s) : m = Min(I) /\ n = Max(I)
  BY <1>2
<1>4. \A i \in m .. n : s[i] \in Letter
  <2>1. \A i \in m .. n : i \in 1 .. Len(s)
    BY <1>1
  <2>. QED
    BY <2>1, ElementOfSeq
<1>. QED
  BY <1>1, <1>3, <1>4, SubSeqProperties

LEMMA TrimType ==
  ASSUME NEW s \in Seq(Letter), NEW c \in Range(s), c # " "
  PROVE  Trim(s) \in Seq(Letter)
<1> DEFINE I == {i \in 1 .. Len(s) : s[i] # " "}
<1>1. I # {} /\ SubSeq(s, Min(I), Max(I)) \in Seq(Letter)
  BY FirstToLast
<1>2. Trim(s) = SubSeq(s, IF I # {} THEN Min(I) ELSE 0, IF I # {} THEN Max(I) ELSE 0)
  BY DEF Trim, SelectInSeq, SelectLastInSeq
<1>. QED
  BY <1>1, <1>2

LEMMA HistoryGrows ==
  ASSUME EditorInv, line \in Lines, addToHistory, UNCHANGED <<inBracketedPaste, pasteBuffer>>,
         pasteTimeout' \in BOOLEAN
  PROVE  EditorInv'
<1>1. UNCHANGED <<reading, line, textVars, menuVars, screenVars, recallVars, terminal>>
  BY DEF addToHistory
<1>2. Screen'
  BY <1>1 DEF EditorInv, Screen, textVars, menuVars, screenVars
<1>3. Modes'
  BY <1>1 DEF EditorInv, Modes
<1>4. Input = <<>> \/ Input \in Word
  <2>1. line.value \in Seq(Letter)
    BY DEF Lines
  <2>2. Input = <<>> \/ (Input = Trim(line.value) /\ Trim(line.value) \in Seq(Letter))
    BY <2>1, TrimType DEF Input
  <2>. QED
    BY <2>2 DEF Word
<1>5. history \in Seq(Word) /\ Len(history) \in Nat
  BY LenProperties DEF EditorInv, Memory
<1>6. history' \in Seq(Word) /\ Len(history') \in Nat /\ Len(history) <= Len(history')
  <2>1. history' = history \/ (Input \in Word /\ history' = Append(history, Input))
    BY <1>4 DEF addToHistory
  <2>. QED
    BY <1>5, <2>1, AppendProperties
<1>7. Memory'
  BY <1>1, <1>5, <1>6 DEF EditorInv, Memory, recallVars
<1>. QED
  BY <1>2, <1>3, <1>7 DEF EditorInv

LEMMA ReplKeeps == ASSUME ReplInv, [ReplNext]_replVars PROVE ReplInv'
<1>1. EditorInv
  BY DEF ReplInv
<1>2. CASE Prompts
  BY <1>1, <1>2, LineBegins DEF Prompts, ReplInv
<1>3. CASE Edits
  <2>1. CASE EditKey
    <3>1. reading'
      BY <2>1 DEF EditKey, Type, Backspace, Delete, KillToEnd, KillToStart, KillWord, Transpose,
         ClearScreen, MoveCursor, Select, Older, Newer, Recall, Escape, Tab, Listens, Key
    <3>. QED
      BY <1>1, <2>1, <3>1, KeysKeep DEF ReplInv
  <2>2. CASE Enter \/ \E exit \in BOOLEAN : Cancel(exit)
    BY <1>1, <2>2, LineEnds DEF ReplInv
  <2>. QED
    BY <1>3, <2>1, <2>2 DEF Edits
<1>4. CASE Environment
  BY <1>1, <1>4, PastesKeep DEF Environment, ReplInv
<1>5. CASE TurnEnds \/ Stops \/ CommandRuns \/ Ask
  <2>1. /\ line \in Lines /\ addToHistory /\ phase' # "reading"
        /\ UNCHANGED <<inBracketedPaste, pasteBuffer>> /\ pasteTimeout' \in BOOLEAN
    BY <1>1, <1>5 DEF TurnEnds, Stops, CommandRuns, Ask, Answered, ReplInv, EditorInv, Modes, pasteVars
  <2>. QED
    BY <1>1, <2>1, HistoryGrows DEF ReplInv
<1>6. CASE AgentReturns \/ CommandEnds \/ Abort \/ UNCHANGED replVars
  <2>1. UNCHANGED editorVars /\ (phase' # "reading" \/ phase' = phase)
    BY <1>6 DEF AgentReturns, CommandEnds, Abort, replVars
  <2>2. UNCHANGED <<reading, line>>
    BY <2>1 DEF editorVars
  <2>. QED
    BY <1>1, <2>1, <2>2, EditorRests DEF ReplInv
<1>7. CASE \E i \in Question : AgentStep(i)
  <2>1. UNCHANGED <<editorVars, phase>>
    BY <1>7 DEF AgentStep, ProbeEnds, Chunk, ProcessEnds, ToolUse, ToolsEnd, Reply, Background
  <2>2. UNCHANGED <<reading, line>>
    BY <2>1 DEF editorVars
  <2>. QED
    BY <1>1, <2>1, <2>2, EditorRests DEF ReplInv
<1>. QED
  BY <1>2, <1>3, <1>4, <1>5, <1>6, <1>7 DEF ReplNext, LoopStep

LEMMA ReplAlways == ReplSpec => []ReplInv
<1>1. ReplInit => ReplInv
  BY EditorStarts DEF ReplInit, ReplInv
<1>2. ReplInv /\ [ReplNext]_replVars => ReplInv'
  BY ReplKeeps
<1>. QED
  BY <1>1, <1>2, PTL DEF ReplSpec

(* Who has spoken last was asked, and no question gets more rounds of      *)
(* tools than there are.                                                   *)
Counted ==
  /\ speaker \in 0 .. asked
  /\ iterations \in [Question -> 0 .. MaxIterations]

LEMMA CountsKeep == ASSUME AgentInv, Counted, [ReplNext]_replVars PROVE Counted'
<1>1. /\ asked \in 0 .. MaxRequests /\ MaxRequests \in Nat /\ MaxIterations \in Nat
      /\ speaker \in 0 .. asked /\ iterations \in [Question -> 0 .. MaxIterations]
  BY ReplAssumption DEF AgentInv, AgentTypeOK, Counted
<1>2. CASE UNCHANGED <<asked, speaker, iterations>>
  BY <1>1, <1>2 DEF Counted
<1>3. CASE Ask
  <2>1. asked' = asked + 1 /\ UNCHANGED iterations
    BY <1>3 DEF Ask
  <2>2. speaker' = speaker \/ speaker' = asked + 1
    <3>1. CASE provider = "llm" /\ isConfigured
      BY <1>3, <3>1 DEF Ask
    <3>2. CASE ~(provider = "llm" /\ isConfigured)
      <4>1. CASE provider = "llm" \/ openclawReady = FALSE
        BY <1>3, <3>2, <4>1 DEF Ask, Says
      <4>2. CASE openclawReady = None /\ ~(provider = "llm" \/ openclawReady = FALSE)
        BY <1>3, <3>2, <4>2 DEF Ask
      <4>3. CASE /\ openclawReady = TRUE /\ openclawReady # None
                 /\ ~(provider = "llm" \/ openclawReady = FALSE)
        BY <1>3, <3>2, <4>3 DEF Ask
      <4>. QED
        BY <4>1, <4>2, <4>3 DEF AgentInv, AgentTypeOK
    <3>. QED
      BY <3>1, <3>2
  <2>. QED
    BY <1>1, <2>1, <2>2 DEF Counted
<1>4. CASE \E i \in Question : AgentStep(i)
  <2>1. PICK i \in Question : AgentStep(i)
    BY <1>4
  <2>2. asked' = asked
    BY <2>1 DEF AgentStep, ProbeEnds, Chunk, ProcessEnds, ToolUse, ToolsEnd, Reply, Background
  <2>3. speaker' = speaker \/ speaker' = i
    BY <2>1 DEF AgentStep, ProbeEnds, Chunk, ProcessEnds, ToolUse, ToolsEnd, Reply, Says
  <2>4. i \in 1 .. asked
    <3>1. request[i] # "unused"
      BY <2>1 DEF AgentStep, ProbeEnds, Chunk, ProcessEnds, ToolUse, ToolsEnd, Reply
    <3>. QED
      BY <1>1, <3>1 DEF AgentInv, Questions, QuestionInv, Question
  <2>5. iterations' \in [Question -> 0 .. MaxIterations]
    <3>1. CASE ToolUse(i)
      <4>1. iterations' = [iterations EXCEPT ![i] = iterations[i] + 1] /\ iterations[i] < MaxIterations
        BY <3>1 DEF ToolUse
      <4>2. iterations[i] + 1 \in 0 .. MaxIterations
        BY <1>1, <4>1
      <4>. QED
        BY <1>1, <4>1, <4>2
    <3>2. CASE UNCHANGED iterations
      BY <1>1, <3>2
    <3>. QED
      BY <2>1, <3>1, <3>2 DEF AgentStep, ProbeEnds, Chunk, ProcessEnds, ToolsEnd, Reply
  <2>. QED
    BY <1>1, <2>2, <2>3, <2>4, <2>5 DEF Counted
<1>. QED
  BY <1>2, <1>3, <1>4 DEF ReplNext, LoopStep, Prompts, TurnEnds, Stops, CommandRuns, AgentReturns,
     CommandEnds, Edits, Environment, Abort, agentVars, replVars

LEMMA CountsAlways == ReplSpec => []Counted
<1>1. ReplInit => Counted
  BY ReplAssumption DEF ReplInit, AgentInit, Counted, Question
<1>2. AgentInv /\ Counted /\ [ReplNext]_replVars => Counted'
  BY CountsKeep
<1>. QED
  BY <1>1, <1>2, AgentAlways, PTL DEF ReplSpec

(* However the answers to questions interleave, stopped ones included, the *)
(* results of tools stand right behind the message that asked for them,    *)
(* and editor, loop and agent stay within their types (handler.ts).        *)
THEOREM ResultsFollowCalls == ReplSpec => []ResultsFollowTheirCall
<1>1. ReplInv => EditorTypeOK
  BY EditorSays DEF ReplInv
<1>2. ASSUME AgentInv, Counted, EditorTypeOK PROVE ResultsFollowTheirCall
  <2>1. \A i \in Question : iterations[i] \in 0 .. MaxIterations
    BY <1>2 DEF Counted
  <2>2. \A i \in Question : request[i] = "unused" <=> i > asked
    BY <1>2 DEF AgentInv, Questions, QuestionInv
  <2>3. ReplTypeOK
    BY <1>2, <2>1, <2>2 DEF ReplTypeOK, AgentInv, AgentTypeOK, Counted
  <2>. QED
    BY <1>2, <2>3 DEF ResultsFollowTheirCall, AgentInv
<1>. QED
  BY <1>1, <1>2, AgentAlways, CountsAlways, ReplAlways, PTL

===============================================================================
