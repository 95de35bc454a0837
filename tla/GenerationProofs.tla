--------------------------- MODULE GenerationProofs ---------------------------
(* Theorems about Generation for every room of the pipes and of the line buffer. *)
EXTENDS Generation, TLAPS

(*******************************************************************************)
(* Generation.  The prompt is in one place at a time: it is written to the agent *)
(* once, worked on, answered once, and the answer is read after all output.      *)
(*******************************************************************************)

Asked == \E i \in DOMAIN toAgent : toAgent[i] = Request(Prompt)
Working == agent.call = Prompt
Replied == \E i \in DOMAIN fromAgent : fromAgent[i] = Answer(Prompt)
Held == reader.at = "answer" /\ reader.line = Answer(Prompt)
Received == Prompt \in answered

\* The prompt has been written, so that it never is again.
Sent == handler.call = Prompt /\ handler.at \notin {"lock", "encode"}

PromptOnce ==
    /\ Asked => Sent /\ ~Working /\ ~Replied /\ ~Held /\ ~Received
    /\ Working => Sent /\ ~Replied /\ ~Held /\ ~Received
    /\ Replied => Sent /\ ~Held /\ ~Received
    /\ Held => Sent /\ ~Received
    /\ Received => Sent
    /\ \A i, j \in DOMAIN toAgent :
        toAgent[i] = Request(Prompt) /\ toAgent[j] = Request(Prompt) => i = j
    /\ \A i, j \in DOMAIN fromAgent :
        fromAgent[i] = Answer(Prompt) /\ fromAgent[j] = Answer(Prompt) => i = j

\* No output follows the answer to the prompt.
AnswerLast ==
    /\ \A i, j \in DOMAIN fromAgent :
        fromAgent[i] = Answer(Prompt) /\ fromAgent[j].kind = "chunk" => j < i
    /\ Held \/ Received => \A i \in DOMAIN fromAgent : fromAgent[i].kind # "chunk"
    /\ Received => reader.at # "chunk"

\* What has left the pipe: the text, and the piece the reader holds.
Taken == IF reader.at = "chunk" THEN Len(text) + 1 ELSE Len(text)

\* The text, the reader and the pipe hold the agent's output, each piece once and in order.
OutputInOrder ==
    /\ \A i \in DOMAIN text : text[i] = i
    /\ reader.at = "chunk" => reader.line.n = Taken
    /\ Taken <= agent.chunks
    /\ \A i \in DOMAIN fromAgent :
        fromAgent[i].kind = "chunk" => fromAgent[i].n \in Taken + 1 .. agent.chunks
    /\ \A i, j \in DOMAIN fromAgent :
        /\ fromAgent[i].kind = "chunk" /\ fromAgent[j].kind = "chunk"
        /\ i < j
        => fromAgent[i].n < fromAgent[j].n
    /\ \A n \in Taken + 1 .. agent.chunks :
        \E i \in DOMAIN fromAgent : fromAgent[i].kind = "chunk" /\ fromAgent[i].n = n

\* The reader is where the line it holds sends it.
LineOfKind == reader.at \in {"chunk", "answer", "permission"} => reader.line \in Lines /\ reader.line.kind = reader.at

GenerationInv ==
    /\ GenerationTypeOK /\ LineOfKind /\ PromptOnce /\ AnswerLast /\ OutputInOrder
    /\ outcome = "ok" => Received

\* Types hold when the connection is dialled.
LEMMA InitTypeOK == GenerationInit => GenerationTypeOK
<1> SUFFICES ASSUME GenerationInit PROVE GenerationTypeOK
  OBVIOUS
<1>1. toAgent \in Seq(Messages) /\ fromAgent \in Seq(Lines) /\ text \in Seq(Nat)
  BY DEF GenerationInit
<1>2. Len(toAgent) <= PipeRoom /\ Len(fromAgent) <= PipeRoom
  BY PipeAssumption DEF GenerationInit
<1>3. handler \in [at : {"lock", "encode", "select", "close", "report", "returned"}, call : Calls]
  BY DEF GenerationInit, Calls
<1>4. reader \in [at : {"read", "answer", "permission", "reject", "chunk", "eof"},
                  line : Lines \cup {Nothing}]
  <2> HIDE DEF Nothing
  <2> QED
    BY DEF GenerationInit
<1>5. agent \in [alive : BOOLEAN, call : {0} \cup Calls, chunks : Nat, requests : Nat]
  BY DEF GenerationInit
<1>6. /\ mu \in {"nobody", "handler", "reader"} /\ outcome \in {"none", "ok", "error"}
      /\ pending \subseteq Calls /\ answered \subseteq Calls /\ gotOutput \in BOOLEAN
      /\ events \in [busy : BOOLEAN, last : BOOLEAN, late : BOOLEAN]
  BY DEF GenerationInit
<1> QED
  BY <1>1, <1>2, <1>3, <1>4, <1>5, <1>6 DEF GenerationTypeOK

\* What is put into a pipe that is not full.
LEMMA RoomForOne ==
    ASSUME NEW S, NEW s \in Seq(S), Len(s) < PipeRoom, NEW x \in S
    PROVE  Append(s, x) \in Seq(S) /\ Len(Append(s, x)) <= PipeRoom
BY PipeAssumption

\* Steps of the handler's goroutine keep the types.
LEMMA CallerTypeOK == GenerationTypeOK /\ Handler => GenerationTypeOK'
<1> SUFFICES ASSUME GenerationTypeOK, Handler PROVE GenerationTypeOK'
  OBVIOUS
<1> USE DEF GenerationTypeOK
<1>1. CASE Register
  BY <1>1 DEF Register, pipes
<1>2. CASE Encode
  <2>1. Request(handler.call) \in Messages
    BY DEF Messages
  <2>2. toAgent' \in Seq(Messages) /\ Len(toAgent') <= PipeRoom
    BY <1>2, <2>1, RoomForOne DEF Encode
  <2> QED
    BY <1>2, <2>2 DEF Encode
<1>3. CASE EncodeFails
  BY <1>3 DEF EncodeFails, GiveUp, pipes
<1>4. CASE Interrupted \/ Refused
  BY <1>4 DEF Interrupted, Refused, GiveUp, pipes
<1>5. CASE Answered
  BY <1>5 DEF Answered, pipes, Calls, Prompt
<1>6. CASE Close
  BY <1>6 DEF Close, pipes
<1>7. CASE Report
  BY <1>7 DEF Report, pipes
<1> QED
  BY <1>1, <1>2, <1>3, <1>4, <1>5, <1>6, <1>7 DEF Handler

\* Steps of the reader goroutine keep the types.
LEMMA ReaderTypeOK == GenerationTypeOK /\ LineOfKind /\ Reader => GenerationTypeOK' /\ LineOfKind'
<1> SUFFICES ASSUME GenerationTypeOK, LineOfKind, Reader PROVE GenerationTypeOK' /\ LineOfKind'
  OBVIOUS
<1> USE DEF GenerationTypeOK, LineOfKind
<1>1. CASE Read
  <2>1. Head(fromAgent) \in Lines /\ Tail(fromAgent) \in Seq(Lines) /\ Len(Tail(fromAgent)) <= PipeRoom
    BY <1>1, PipeAssumption DEF Read
  <2>2. Head(fromAgent).kind \in {"chunk", "answer", "permission"}
    BY <2>1 DEF Lines
  <2> QED
    BY <1>1, <2>1, <2>2 DEF Read
<1>2. CASE EndOfFile
  BY <1>2 DEF EndOfFile, pipes
<1>3. CASE DispatchAnswer
  BY <1>3 DEF DispatchAnswer, ReadNext, pipes
<1>4. CASE LockToReject
  BY <1>4 DEF LockToReject, pipes
<1>5. CASE Reject
  <2>1. Rejection \in Messages
    BY DEF Messages
  <2>2. toAgent' \in Seq(Messages) /\ Len(toAgent') <= PipeRoom
    <3>1. CASE Len(toAgent) < PipeRoom /\ toAgent' = Append(toAgent, Rejection)
      BY <2>1, <3>1, RoomForOne
    <3>2. CASE UNCHANGED toAgent
      BY <3>2
    <3> QED
      BY <1>5, <3>1, <3>2 DEF Reject
  <2> QED
    BY <1>5, <2>2 DEF Reject, ReadNext
<1>6. CASE AnnounceOutput \/ Announced
  BY <1>6 DEF AnnounceOutput, Announced, pipes
<1>7. CASE Collect
  <2>1. reader.line.n \in Nat
    BY <1>7 DEF Collect, Lines
  <2> QED
    BY <1>7, <2>1 DEF Collect, ReadNext, pipes
<1> QED
  BY <1>1, <1>2, <1>3, <1>4, <1>5, <1>6, <1>7 DEF Reader

\* Steps of the agent, of the context and of nobody keep the types.
LEMMA AgentTypeOK ==
    GenerationTypeOK /\ (Agent \/ ContextEnds \/ ContextKills \/ UNCHANGED generationVars) => GenerationTypeOK'
<1> SUFFICES ASSUME GenerationTypeOK, Agent \/ ContextEnds \/ ContextKills \/ UNCHANGED generationVars PROVE GenerationTypeOK'
  OBVIOUS
<1> USE DEF GenerationTypeOK
<1>1. ASSUME NEW line \in Lines, Write(line)
      PROVE  fromAgent' \in Seq(Lines) /\ Len(fromAgent') <= PipeRoom
  BY <1>1, RoomForOne DEF Write
<1>2. CASE AgentReads
  <2>1. Head(toAgent) \in Messages /\ Tail(toAgent) \in Seq(Messages) /\ Len(Tail(toAgent)) <= PipeRoom
    BY <1>2, PipeAssumption DEF AgentReads
  <2>2. Head(toAgent).kind = "call" => Head(toAgent).n \in Calls
    BY <2>1 DEF Messages, Request, Rejection
  <2> QED
    <3>1. agent' \in [alive : BOOLEAN, call : {0} \cup Calls, chunks : Nat, requests : Nat]
      BY <1>2, <2>2 DEF AgentReads
    <3>2. /\ toAgent' \in Seq(Messages) /\ Len(toAgent') <= PipeRoom
          /\ UNCHANGED <<handler, reader, mu, fromAgent, pending, answered, text, gotOutput, outcome, events>>
      BY <1>2, <2>1 DEF AgentReads
    <3> QED
      BY <3>1, <3>2
<1>3. CASE AgentAnswers
  <2>1. Answer(agent.call) \in Lines
    BY DEF Answer, Lines, Calls
  <2>2. fromAgent' \in Seq(Lines) /\ Len(fromAgent') <= PipeRoom
    BY <1>1, <1>3, <2>1 DEF AgentAnswers
  <2> QED
    <3>1. agent' \in [alive : BOOLEAN, call : {0} \cup Calls, chunks : Nat, requests : Nat]
      BY <1>3 DEF AgentAnswers
    <3>2. UNCHANGED <<handler, reader, mu, toAgent, pending, answered, text, gotOutput, outcome, events>>
      BY <1>3 DEF AgentAnswers
    <3> QED
      BY <2>2, <3>1, <3>2
<1>4. CASE AgentSaysMore
  <2>1. Chunk(agent.chunks + 1) \in Lines
    BY DEF Chunk, Lines
  <2>2. fromAgent' \in Seq(Lines) /\ Len(fromAgent') <= PipeRoom
    BY <1>1, <1>4, <2>1 DEF AgentSaysMore
  <2>3. agent' \in [alive : BOOLEAN, call : {0} \cup Calls, chunks : Nat, requests : Nat]
    <3>1. agent.chunks + 1 \in Nat /\ agent' = [agent EXCEPT !.chunks = agent.chunks + 1]
      BY <1>4 DEF AgentSaysMore
    <3> QED
      BY <3>1
  <2> QED
    BY <1>4, <2>2, <2>3 DEF AgentSaysMore
<1>5. CASE AgentAsks
  <2>1. Permission \in Lines
    BY DEF Permission, Lines
  <2>2. fromAgent' \in Seq(Lines) /\ Len(fromAgent') <= PipeRoom
    BY <1>1, <1>5, <2>1 DEF AgentAsks
  <2>3. agent' \in [alive : BOOLEAN, call : {0} \cup Calls, chunks : Nat, requests : Nat]
    <3>1. agent.requests + 1 \in Nat /\ agent' = [agent EXCEPT !.requests = agent.requests + 1]
      BY <1>5 DEF AgentAsks
    <3> QED
      BY <3>1
  <2> QED
    BY <1>5, <2>2, <2>3 DEF AgentAsks
<1>6. CASE AgentExits \/ ContextEnds \/ ContextKills
  BY <1>6 DEF AgentExits, ContextEnds, ContextKills, pipes
<1>7. CASE UNCHANGED generationVars
  BY <1>7 DEF generationVars, pipes
<1> QED
  BY <1>2, <1>3, <1>4, <1>5, <1>6, <1>7 DEF Agent

\* What is known before the first call.
LEMMA InitGeneration == GenerationInit => GenerationInv
<1> SUFFICES ASSUME GenerationInit PROVE GenerationInv
  OBVIOUS
<1>1. /\ toAgent = <<>> /\ fromAgent = <<>> /\ text = <<>> /\ agent.call = 0 /\ agent.chunks = 0
      /\ reader.at = "read" /\ answered = {} /\ outcome = "none"
  BY DEF GenerationInit
<1>2. DOMAIN toAgent = {} /\ DOMAIN fromAgent = {} /\ DOMAIN text = {} /\ Len(text) = 0
  BY <1>1
<1>3. PromptOnce /\ AnswerLast /\ LineOfKind
  BY <1>1, <1>2 DEF PromptOnce, AnswerLast, LineOfKind, Asked, Working, Replied, Held, Received, Prompt
<1>4. Taken = 0
  BY <1>1, <1>2 DEF Taken
<1>5. OutputInOrder
  BY <1>1, <1>2, <1>4 DEF OutputInOrder
<1> QED
  BY <1>1, <1>3, <1>5, InitTypeOK DEF GenerationInv

\* A step that leaves pipes, text and answers, and does not unsend the prompt.
LEMMA QuietStep ==
    ASSUME PromptOnce, AnswerLast, OutputInOrder, LineOfKind,
           UNCHANGED <<pipes, reader, text, answered>>,
           agent'.call = agent.call, agent'.chunks = agent.chunks, Sent => Sent'
    PROVE  PromptOnce' /\ AnswerLast' /\ OutputInOrder'
<1>1. /\ Asked' = Asked /\ Working' = Working /\ Replied' = Replied /\ Held' = Held
      /\ Received' = Received /\ Taken' = Taken
  BY DEF Asked, Working, Replied, Held, Received, Taken, pipes
<1>2. PromptOnce'
  BY <1>1 DEF PromptOnce, pipes
<1>3. AnswerLast' /\ OutputInOrder'
  BY <1>1 DEF AnswerLast, OutputInOrder, pipes
<1> QED
  BY <1>2, <1>3

\* What one more message makes of a pipe.
LEMMA Appended ==
    ASSUME NEW S, NEW s \in Seq(S), NEW x
    PROVE  /\ DOMAIN Append(s, x) = DOMAIN s \cup {Len(s) + 1}
           /\ \A i \in DOMAIN s : Append(s, x)[i] = s[i]
           /\ Append(s, x)[Len(s) + 1] = x
           /\ DOMAIN s = 1 .. Len(s)
OBVIOUS

\* Taking the head moves everything else up.
LEMMA TakenHead ==
    ASSUME NEW S, NEW s \in Seq(S), s # <<>>
    PROVE  /\ \A i \in DOMAIN Tail(s) : i + 1 \in DOMAIN s /\ Tail(s)[i] = s[i + 1]
           /\ \A i \in DOMAIN s : i # 1 => i - 1 \in DOMAIN Tail(s) /\ s[i] = Tail(s)[i - 1]
           /\ DOMAIN Tail(s) \subseteq Int /\ DOMAIN s \subseteq Int
           /\ 1 \in DOMAIN s /\ Head(s) = s[1]
OBVIOUS

\* Steps of the handler's goroutine: the prompt is written when it has not been.
LEMMA CallerGeneration ==
    ASSUME GenerationInv, Handler
    PROVE  PromptOnce' /\ AnswerLast' /\ OutputInOrder' /\ (outcome' = "ok" => Received')
<1> USE DEF GenerationInv
<1>1. CASE Register
  BY <1>1, QuietStep DEF Register, Sent, GenerationTypeOK, Received
<1>2. CASE Encode
  <2>1. ~Sent /\ UNCHANGED <<fromAgent, agent, reader, text, answered, outcome>>
    BY <1>2 DEF Encode, Sent
  <2>2. ~Asked /\ ~Working /\ ~Replied /\ ~Held /\ ~Received
    BY <2>1 DEF PromptOnce
  <2>3. toAgent' = Append(toAgent, Request(handler.call))
    BY <1>2 DEF Encode
  <2>4. /\ DOMAIN toAgent' = DOMAIN toAgent \cup {Len(toAgent) + 1}
        /\ \A i \in DOMAIN toAgent : toAgent'[i] = toAgent[i]
        /\ toAgent'[Len(toAgent) + 1] = Request(handler.call)
    BY <2>3, Appended DEF GenerationTypeOK
  <2>5. \A i \in DOMAIN toAgent : toAgent[i] # Request(Prompt)
    BY <2>2 DEF Asked
  <2>6. Asked' => handler.call = Prompt
    BY <2>4, <2>5 DEF Asked, Request, Prompt
  <2>7. handler.call = Prompt => Sent'
    BY <1>2 DEF Encode, Sent, GenerationTypeOK
  <2>8. /\ Working' = Working /\ Replied' = Replied /\ Held' = Held /\ Received' = Received
        /\ Taken' = Taken
    BY <2>1 DEF Working, Replied, Held, Received, Taken
  <2>9. \A i, j \in DOMAIN toAgent' :
            toAgent'[i] = Request(Prompt) /\ toAgent'[j] = Request(Prompt) => i = j
    BY <2>4, <2>5
  <2>10. PromptOnce'
    BY <2>1, <2>2, <2>6, <2>7, <2>8, <2>9 DEF PromptOnce
  <2>11. AnswerLast' /\ OutputInOrder'
    BY <2>1, <2>8 DEF AnswerLast, OutputInOrder
  <2> QED
    BY <2>1, <2>8, <2>10, <2>11
<1>3. CASE EncodeFails \/ Interrupted \/ Refused
  <2>1. Sent => Sent'
    BY <1>3 DEF EncodeFails, Interrupted, Refused, GiveUp, Sent, GenerationTypeOK
  <2>2. outcome' = "error" /\ UNCHANGED <<pipes, reader, text, answered, agent>>
    BY <1>3 DEF EncodeFails, Interrupted, Refused, GiveUp
  <2> QED
    BY <2>1, <2>2, QuietStep
<1>4. CASE Answered
  <2>1. Sent => Sent'
    BY <1>4 DEF Answered, Sent, GenerationTypeOK
  <2>2. UNCHANGED <<pipes, reader, text, answered, agent>>
    BY <1>4 DEF Answered
  <2>3. outcome' = "ok" => Received'
    BY <1>4, <2>2 DEF Answered, Received
  <2> QED
    BY <2>1, <2>2, <2>3, QuietStep
<1>5. CASE Close \/ Report
  <2>1. Sent => Sent'
    BY <1>5 DEF Close, Report, Sent, GenerationTypeOK
  <2>2. /\ UNCHANGED <<pipes, reader, text, answered, outcome>>
        /\ agent'.call = agent.call /\ agent'.chunks = agent.chunks
    BY <1>5 DEF Close, Report, GenerationTypeOK
  <2> QED
    BY <2>1, <2>2, QuietStep DEF Received
<1> QED
  BY <1>1, <1>2, <1>3, <1>4, <1>5 DEF Handler

\* The agent takes a call, and the prompt leaves the pipe with it.
LEMMA AgentReadsGeneration ==
    ASSUME GenerationInv, AgentReads
    PROVE  PromptOnce' /\ AnswerLast' /\ OutputInOrder'
<1> USE DEF GenerationInv
<1>1. /\ toAgent # <<>> /\ toAgent' = Tail(toAgent)
      /\ UNCHANGED <<handler, reader, fromAgent, answered, text>>
      /\ agent' = IF Head(toAgent).kind = "call" THEN [agent EXCEPT !.call = Head(toAgent).n] ELSE agent
  BY DEF AgentReads
<1>2. /\ \A i \in DOMAIN toAgent' : i + 1 \in DOMAIN toAgent /\ toAgent'[i] = toAgent[i + 1]
      /\ DOMAIN toAgent' \subseteq Int
      /\ 1 \in DOMAIN toAgent /\ Head(toAgent) = toAgent[1]
      /\ \A i \in DOMAIN toAgent' : i # 0
  BY <1>1, TakenHead DEF GenerationTypeOK
<1>3. Head(toAgent) \in Messages
  BY <1>1 DEF GenerationTypeOK
<1>4. Head(toAgent).kind = "call" => Head(toAgent) = Request(Head(toAgent).n)
  BY <1>3 DEF Messages, Request, Rejection
<1>5. agent'.chunks = agent.chunks
  BY <1>1 DEF GenerationTypeOK
<1>6. Asked' => Asked /\ Head(toAgent) # Request(Prompt)
  <2> SUFFICES ASSUME Asked' PROVE Asked /\ Head(toAgent) # Request(Prompt)
    OBVIOUS
  <2>1. PICK i \in DOMAIN toAgent' : toAgent'[i] = Request(Prompt)
    BY DEF Asked
  <2>2. i + 1 \in DOMAIN toAgent /\ toAgent[i + 1] = Request(Prompt) /\ i + 1 # 1
    BY <1>2, <2>1
  <2> QED
    BY <1>2, <2>2 DEF Asked, PromptOnce
<1>7. Working' => (Working \/ Head(toAgent) = Request(Prompt))
  BY <1>1, <1>4 DEF Working, GenerationTypeOK
<1>8. Head(toAgent) = Request(Prompt) => Asked
  BY <1>2 DEF Asked
<1>9. Working' => ~Asked'
  BY <1>6, <1>7 DEF PromptOnce
<1>10. \A i, j \in DOMAIN toAgent' :
          toAgent'[i] = Request(Prompt) /\ toAgent'[j] = Request(Prompt) => i = j
  <2> SUFFICES ASSUME NEW i \in DOMAIN toAgent', NEW j \in DOMAIN toAgent',
                      toAgent'[i] = Request(Prompt), toAgent'[j] = Request(Prompt)
               PROVE  i = j
    OBVIOUS
  <2>1. i + 1 = j + 1 /\ i \in Int /\ j \in Int
    BY <1>2 DEF PromptOnce
  <2> QED
    BY <2>1
<1>11. /\ Replied' = Replied /\ Held' = Held /\ Received' = Received /\ Sent' = Sent
       /\ Taken' = Taken
  BY <1>1 DEF Replied, Held, Received, Taken, Sent
<1>12. PromptOnce'
  BY <1>1, <1>6, <1>7, <1>8, <1>9, <1>10, <1>11 DEF PromptOnce
<1>13. AnswerLast' /\ OutputInOrder'
  BY <1>1, <1>5, <1>11 DEF AnswerLast, OutputInOrder
<1> QED
  BY <1>12, <1>13

\* The agent writes a line: the answer to the prompt while it works on it and after
\* all of the output, a piece of output next in order, or neither.
LEMMA AgentWritesGeneration ==
    ASSUME GenerationInv, AgentAnswers \/ AgentSaysMore \/ AgentAsks
    PROVE  PromptOnce' /\ AnswerLast' /\ OutputInOrder'
<1> USE DEF GenerationInv
<1>1. PICK line \in Lines :
        /\ fromAgent' = Append(fromAgent, line)
        /\ line = Answer(Prompt) => Working /\ ~Working'
        /\ Working' => Working
        /\ line.kind = "chunk" => Working /\ line.n = agent.chunks + 1 /\ agent'.chunks = agent.chunks + 1
        /\ line.kind # "chunk" => agent'.chunks = agent.chunks
  <2>1. CASE AgentAnswers
    <3>1. Answer(agent.call) \in Lines /\ Answer(agent.call).kind # "chunk"
      BY DEF GenerationTypeOK, Answer, Lines, Calls
    <3>2. agent'.call = 0 /\ agent'.chunks = agent.chunks
      BY <2>1 DEF AgentAnswers, GenerationTypeOK
    <3>3. Answer(agent.call) = Answer(Prompt) => Working
      BY DEF Answer, Working, Prompt
    <3>4. ~Working'
      BY <3>2 DEF Working, Prompt
    <3> QED
      BY <2>1, <3>1, <3>2, <3>3, <3>4 DEF AgentAnswers, Write
  <2>2. CASE AgentSaysMore
    <3>1. /\ Chunk(agent.chunks + 1) \in Lines /\ Chunk(agent.chunks + 1).kind = "chunk"
          /\ Chunk(agent.chunks + 1).n = agent.chunks + 1
      BY DEF GenerationTypeOK, Chunk, Lines
    <3>2. Chunk(agent.chunks + 1) # Answer(Prompt)
      BY DEF Chunk, Answer
    <3>3. agent'.chunks = agent.chunks + 1 /\ Working
      BY <2>2 DEF AgentSaysMore, GenerationTypeOK, Working
    <3> QED
      BY <2>2, <3>1, <3>2, <3>3 DEF AgentSaysMore, Write
  <2>3. CASE AgentAsks
    <3>1. Permission \in Lines /\ Permission.kind # "chunk" /\ Permission # Answer(Prompt)
      BY DEF Permission, Lines, Answer
    <3>2. agent'.call = agent.call /\ agent'.chunks = agent.chunks
      BY <2>3 DEF AgentAsks, GenerationTypeOK
    <3> QED
      BY <2>3, <3>1, <3>2 DEF AgentAsks, Write, Working
  <2> QED
    BY <2>1, <2>2, <2>3
<1>2. UNCHANGED <<handler, reader, toAgent, answered, text>>
  BY DEF AgentAnswers, AgentSaysMore, AgentAsks
<1> DEFINE last == Len(fromAgent) + 1
<1>3. /\ DOMAIN fromAgent' = DOMAIN fromAgent \cup {last}
      /\ \A i \in DOMAIN fromAgent : fromAgent'[i] = fromAgent[i] /\ i < last
      /\ fromAgent'[last] = line
      /\ last \in Nat
  BY <1>1, Appended DEF GenerationTypeOK
<1>4. /\ Asked' = Asked /\ Held' = Held /\ Received' = Received /\ Sent' = Sent /\ Taken' = Taken
  BY <1>2 DEF Asked, Held, Received, Sent, Taken
<1> HIDE DEF last
<1>5. Replied' => Replied \/ line = Answer(Prompt)
  BY <1>3 DEF Replied
<1>6. PromptOnce'
  <2>1. \A i, j \in DOMAIN fromAgent' :
            fromAgent'[i] = Answer(Prompt) /\ fromAgent'[j] = Answer(Prompt) => i = j
    <3>1. CASE line = Answer(Prompt)
      <4>1. \A i \in DOMAIN fromAgent : fromAgent[i] # Answer(Prompt)
        BY <1>1, <3>1 DEF PromptOnce, Replied
      <4> QED
        BY <1>3, <4>1
    <3>2. CASE line # Answer(Prompt)
      BY <1>3, <3>2 DEF PromptOnce
    <3> QED
      BY <3>1, <3>2
  <2>2. Working' => ~Replied'
    BY <1>1, <1>5 DEF PromptOnce
  <2>3. Replied' => Sent /\ ~Asked /\ ~Held /\ ~Received
    BY <1>1, <1>5 DEF PromptOnce
  <2> QED
    BY <1>1, <1>2, <1>4, <2>1, <2>2, <2>3 DEF PromptOnce
<1>7. AnswerLast'
  <2>1. line.kind = "chunk" =>
            ~Replied /\ ~Held /\ ~Received /\ line # Answer(Prompt)
    BY <1>1 DEF PromptOnce, Answer
  <2>2. \A i, j \in DOMAIN fromAgent' :
            fromAgent'[i] = Answer(Prompt) /\ fromAgent'[j].kind = "chunk" => j < i
    <3>1. CASE line.kind = "chunk"
      BY <1>3, <2>1, <3>1 DEF Replied
    <3>2. CASE line.kind # "chunk"
      BY <1>3, <3>2 DEF AnswerLast
    <3> QED
      BY <3>1, <3>2
  <2>3. Held \/ Received => \A i \in DOMAIN fromAgent' : fromAgent'[i].kind # "chunk"
    BY <1>3, <2>1 DEF AnswerLast
  <2> QED
    BY <1>2, <1>4, <2>2, <2>3 DEF AnswerLast
<1>8. OutputInOrder'
  <2>1. agent.chunks \in Nat /\ Taken \in Nat /\ Taken <= agent.chunks
    BY DEF GenerationTypeOK, Taken, OutputInOrder
  <2>2. agent'.chunks \in {agent.chunks, agent.chunks + 1}
    BY <1>1
  <2>3. \A i \in DOMAIN fromAgent' :
            fromAgent'[i].kind = "chunk" => fromAgent'[i].n \in Taken + 1 .. agent'.chunks
    <3>1. \A i \in DOMAIN fromAgent :
            fromAgent[i].kind = "chunk" => fromAgent[i].n \in Taken + 1 .. agent.chunks
      BY DEF OutputInOrder
    <3> QED
      BY <1>1, <1>3, <2>1, <2>2, <3>1
  <2>4. \A i, j \in DOMAIN fromAgent' :
            /\ fromAgent'[i].kind = "chunk" /\ fromAgent'[j].kind = "chunk" /\ i < j
            => fromAgent'[i].n < fromAgent'[j].n
    <3> SUFFICES ASSUME NEW i \in DOMAIN fromAgent', NEW j \in DOMAIN fromAgent',
                        fromAgent'[i].kind = "chunk", fromAgent'[j].kind = "chunk", i < j
                 PROVE  fromAgent'[i].n < fromAgent'[j].n
      OBVIOUS
    <3>1. i \in DOMAIN fromAgent
      <4>1. DOMAIN fromAgent \subseteq Int
        BY Appended DEF GenerationTypeOK
      <4> QED
        BY <1>3, <4>1
    <3>2. CASE j \in DOMAIN fromAgent
      BY <1>3, <3>1, <3>2 DEF OutputInOrder
    <3>3. CASE j = last
      <4>1. fromAgent[i].n \in Taken + 1 .. agent.chunks
        BY <1>3, <3>1 DEF OutputInOrder
      <4> QED
        BY <1>1, <1>3, <2>1, <3>1, <3>3, <4>1
    <3> QED
      BY <1>3, <3>2, <3>3
  <2>5. \A n \in Taken + 1 .. agent'.chunks :
            \E i \in DOMAIN fromAgent' : fromAgent'[i].kind = "chunk" /\ fromAgent'[i].n = n
    <3> SUFFICES ASSUME NEW n \in Taken + 1 .. agent'.chunks
                 PROVE  \E i \in DOMAIN fromAgent' : fromAgent'[i].kind = "chunk" /\ fromAgent'[i].n = n
      OBVIOUS
    <3>1. CASE n \in Taken + 1 .. agent.chunks
      BY <1>3, <3>1 DEF OutputInOrder
    <3>2. CASE n \notin Taken + 1 .. agent.chunks
      <4>1. line.kind = "chunk" /\ n = line.n
        BY <1>1, <2>1, <3>2
      <4> QED
        BY <1>3, <4>1
    <3> QED
      BY <3>1, <3>2
  <2>6. Taken <= agent'.chunks
    BY <2>1, <2>2
  <2>7. reader.at = "chunk" => reader.line.n = Taken
    BY DEF OutputInOrder
  <2>8. \A i \in DOMAIN text : text[i] = i
    BY DEF OutputInOrder
  <2> QED
    BY <1>2, <1>4, <2>3, <2>4, <2>5, <2>6, <2>7, <2>8 DEF OutputInOrder
<1> QED
  BY <1>6, <1>7, <1>8

\* The reader takes the next line: what it holds then is the next piece of output, or
\* the answer after which there is none.
LEMMA ReadGeneration ==
    ASSUME GenerationInv, Read
    PROVE  PromptOnce' /\ AnswerLast' /\ OutputInOrder'
<1> USE DEF GenerationInv
<1> DEFINE head == Head(fromAgent)
<1>1. /\ fromAgent # <<>> /\ fromAgent' = Tail(fromAgent) /\ reader.at = "read"
      /\ reader' = [at |-> head.kind, line |-> head]
      /\ UNCHANGED <<handler, toAgent, agent, answered, text>>
  BY DEF Read
<1>2. /\ \A i \in DOMAIN fromAgent' : i + 1 \in DOMAIN fromAgent /\ fromAgent'[i] = fromAgent[i + 1]
      /\ \A i \in DOMAIN fromAgent : i # 1 => i - 1 \in DOMAIN fromAgent' /\ fromAgent[i] = fromAgent'[i - 1]
      /\ DOMAIN fromAgent' \subseteq Int /\ DOMAIN fromAgent \subseteq Int
      /\ 1 \in DOMAIN fromAgent /\ head = fromAgent[1]
  BY <1>1, TakenHead DEF GenerationTypeOK
<1>3. \A i \in DOMAIN fromAgent' : i >= 1
  BY <1>1 DEF GenerationTypeOK
<1> HIDE DEF head
<1>4. /\ Asked' = Asked /\ Working' = Working /\ Received' = Received /\ Sent' = Sent
  BY <1>1 DEF Asked, Working, Received, Sent
<1>5. ~Held /\ Taken = Len(text)
  BY <1>1 DEF Held, Taken
<1>6. Held' <=> head = Answer(Prompt)
  BY <1>1 DEF Held, Answer
<1>7. Replied' => Replied
  BY <1>2 DEF Replied
<1>8. head = Answer(Prompt) => Replied
  BY <1>2 DEF Replied
<1>9. head = Answer(Prompt) => ~Replied'
  <2> SUFFICES ASSUME head = Answer(Prompt), NEW i \in DOMAIN fromAgent', fromAgent'[i] = Answer(Prompt)
               PROVE  FALSE
    BY DEF Replied
  <2>1. i + 1 = 1 /\ i \in Int /\ i >= 1
    BY <1>2, <1>3 DEF PromptOnce
  <2> QED
    BY <2>1
<1>10. PromptOnce'
  <2>1. \A i, j \in DOMAIN fromAgent' :
            fromAgent'[i] = Answer(Prompt) /\ fromAgent'[j] = Answer(Prompt) => i = j
    <3> SUFFICES ASSUME NEW i \in DOMAIN fromAgent', NEW j \in DOMAIN fromAgent',
                        fromAgent'[i] = Answer(Prompt), fromAgent'[j] = Answer(Prompt)
                 PROVE  i = j
      OBVIOUS
    <3>1. i + 1 = j + 1 /\ i \in Int /\ j \in Int
      BY <1>2 DEF PromptOnce
    <3> QED
      BY <3>1
  <2> QED
    BY <1>1, <1>4, <1>6, <1>7, <1>8, <1>9, <2>1 DEF PromptOnce
<1>11. AnswerLast'
  <2>1. \A i, j \in DOMAIN fromAgent' :
            fromAgent'[i] = Answer(Prompt) /\ fromAgent'[j].kind = "chunk" => j < i
    <3> SUFFICES ASSUME NEW i \in DOMAIN fromAgent', NEW j \in DOMAIN fromAgent',
                        fromAgent'[i] = Answer(Prompt), fromAgent'[j].kind = "chunk"
                 PROVE  j < i
      OBVIOUS
    <3>1. j + 1 < i + 1 /\ i \in Int /\ j \in Int
      BY <1>2 DEF AnswerLast
    <3> QED
      BY <3>1
  <2>2. head = Answer(Prompt) => \A i \in DOMAIN fromAgent' : fromAgent'[i].kind # "chunk"
    <3> SUFFICES ASSUME head = Answer(Prompt), NEW i \in DOMAIN fromAgent', fromAgent'[i].kind = "chunk"
                 PROVE  FALSE
      OBVIOUS
    <3>1. i + 1 < 1 /\ i \in Int /\ i >= 1
      BY <1>2, <1>3 DEF AnswerLast
    <3> QED
      BY <3>1
  <2>3. Received => \A i \in DOMAIN fromAgent' : fromAgent'[i].kind # "chunk"
    BY <1>2 DEF AnswerLast
  <2>4. Received => head.kind # "chunk"
    BY <1>2 DEF AnswerLast
  <2> QED
    BY <1>1, <1>4, <1>6, <2>1, <2>2, <2>3, <2>4 DEF AnswerLast
<1>12. OutputInOrder'
  <2>1. agent.chunks \in Nat /\ Taken \in Nat /\ Taken <= agent.chunks
    BY DEF GenerationTypeOK, Taken, OutputInOrder
  <2>2. \A i \in DOMAIN fromAgent : fromAgent[i].n \in Nat
    <3>1. \A i \in DOMAIN fromAgent : fromAgent[i] \in Lines
      BY DEF GenerationTypeOK
    <3> QED
      BY <3>1 DEF Lines
  <2>3. /\ \A i \in DOMAIN fromAgent :
            fromAgent[i].kind = "chunk" => fromAgent[i].n \in Taken + 1 .. agent.chunks
        /\ \A i, j \in DOMAIN fromAgent :
            (fromAgent[i].kind = "chunk" /\ fromAgent[j].kind = "chunk" /\ i < j)
                => fromAgent[i].n < fromAgent[j].n
        /\ \A n \in Taken + 1 .. agent.chunks :
            \E i \in DOMAIN fromAgent : fromAgent[i].kind = "chunk" /\ fromAgent[i].n = n
    BY DEF OutputInOrder
  <2>4. head.kind = "chunk" => head.n = Taken + 1
    <3> SUFFICES ASSUME head.kind = "chunk", head.n # Taken + 1 PROVE FALSE
      OBVIOUS
    <3>1. head.n \in Taken + 1 .. agent.chunks
      BY <1>2, <2>3
    <3>2. Taken + 1 \in Taken + 1 .. agent.chunks
      BY <2>1, <3>1
    <3>3. PICK i \in DOMAIN fromAgent : fromAgent[i].kind = "chunk" /\ fromAgent[i].n = Taken + 1
      BY <2>3, <3>2
    <3>4. i # 1
      BY <1>2, <3>3
    <3>5. 1 < i
      <4>1. i - 1 \in DOMAIN fromAgent' /\ i \in Int
        BY <1>2, <3>4
      <4> QED
        BY <1>3, <4>1
    <3>6. fromAgent[1].n < fromAgent[i].n
      BY <1>2, <2>3, <3>3, <3>5
    <3> QED
      BY <1>2, <2>1, <3>1, <3>3, <3>6
  <2>5. Taken' = IF head.kind = "chunk" THEN Taken + 1 ELSE Taken
    BY <1>1, <1>5 DEF Taken
  <2>6. reader'.at = "chunk" => reader'.line.n = Taken'
    BY <1>1, <2>4, <2>5
  <2>7. Taken' <= agent.chunks
    <3>1. head.kind = "chunk" => head.n \in Taken + 1 .. agent.chunks
      BY <1>2, <2>3
    <3> QED
      BY <2>1, <2>5, <3>1
  <2>8. \A i \in DOMAIN fromAgent' :
            fromAgent'[i].kind = "chunk" => fromAgent'[i].n \in Taken' + 1 .. agent.chunks
    <3> SUFFICES ASSUME NEW i \in DOMAIN fromAgent', fromAgent'[i].kind = "chunk"
                 PROVE  fromAgent'[i].n \in Taken' + 1 .. agent.chunks
      OBVIOUS
    <3>1. i + 1 \in DOMAIN fromAgent /\ fromAgent'[i] = fromAgent[i + 1] /\ 1 < i + 1
      BY <1>2, <1>3
    <3>2. fromAgent[i + 1].n \in Taken + 1 .. agent.chunks
      BY <2>3, <3>1
    <3>3. head.kind = "chunk" => Taken + 1 < fromAgent[i + 1].n
      BY <1>2, <2>3, <2>4, <3>1
    <3> QED
      BY <2>1, <2>5, <3>1, <3>2, <3>3
  <2>9. \A i, j \in DOMAIN fromAgent' :
            (fromAgent'[i].kind = "chunk" /\ fromAgent'[j].kind = "chunk" /\ i < j)
                => fromAgent'[i].n < fromAgent'[j].n
    <3> SUFFICES ASSUME NEW i \in DOMAIN fromAgent', NEW j \in DOMAIN fromAgent',
                        fromAgent'[i].kind = "chunk", fromAgent'[j].kind = "chunk", i < j
                 PROVE  fromAgent'[i].n < fromAgent'[j].n
      OBVIOUS
    <3>1. i + 1 < j + 1
      BY <1>2
    <3> QED
      BY <1>2, <2>3, <3>1
  <2>10. \A n \in Taken' + 1 .. agent.chunks :
            \E i \in DOMAIN fromAgent' : fromAgent'[i].kind = "chunk" /\ fromAgent'[i].n = n
    <3> SUFFICES ASSUME NEW n \in Taken' + 1 .. agent.chunks
                 PROVE  \E i \in DOMAIN fromAgent' : fromAgent'[i].kind = "chunk" /\ fromAgent'[i].n = n
      OBVIOUS
    <3>1. n \in Taken + 1 .. agent.chunks /\ (head.kind = "chunk" => n # Taken + 1)
      BY <2>1, <2>5
    <3>2. PICK i \in DOMAIN fromAgent : fromAgent[i].kind = "chunk" /\ fromAgent[i].n = n
      BY <2>3, <3>1
    <3>3. i # 1
      BY <1>2, <2>4, <3>1, <3>2
    <3> QED
      BY <1>2, <3>2, <3>3
  <2>11. \A i \in DOMAIN text : text[i] = i
    BY DEF OutputInOrder
  <2> QED
    BY <1>1, <2>6, <2>7, <2>8, <2>9, <2>10, <2>11 DEF OutputInOrder
<1> QED
  BY <1>10, <1>11, <1>12

\* What the reader does with the line it holds.
LEMMA ReaderGeneration ==
    ASSUME GenerationInv, Reader
    PROVE  PromptOnce' /\ AnswerLast' /\ OutputInOrder' /\ (outcome' = "ok" => Received')
<1> USE DEF GenerationInv
<1>1. CASE Read
  BY <1>1, ReadGeneration DEF Read, Received
<1>2. CASE EndOfFile \/ LockToReject
  <2>1. /\ UNCHANGED <<handler, pipes, agent, text, answered, outcome>>
        /\ reader.at # "chunk" /\ reader.at # "answer" /\ reader'.at \notin {"chunk", "answer"}
    BY <1>2 DEF EndOfFile, LockToReject, GenerationTypeOK
  <2>2. /\ Asked' = Asked /\ Working' = Working /\ Replied' = Replied /\ ~Held /\ ~Held'
        /\ Received' = Received /\ Taken' = Taken /\ Sent' = Sent
    BY <2>1 DEF Asked, Working, Replied, Held, Received, Taken, Sent, pipes
  <2>3. PromptOnce' /\ AnswerLast' /\ OutputInOrder'
    BY <2>1, <2>2 DEF PromptOnce, AnswerLast, OutputInOrder, pipes
  <2> QED
    BY <2>1, <2>2, <2>3
<1>3. CASE DispatchAnswer
  <2>1. /\ UNCHANGED <<handler, pipes, agent, text, outcome>>
        /\ reader.at = "answer" /\ reader'.at = "read"
        /\ answered \subseteq answered' /\ answered' \subseteq answered \cup {reader.line.n}
    BY <1>3 DEF DispatchAnswer, ReadNext
  <2>2. /\ Asked' = Asked /\ Working' = Working /\ Replied' = Replied /\ ~Held'
        /\ Taken' = Taken /\ Sent' = Sent
    BY <2>1 DEF Asked, Working, Replied, Held, Taken, Sent, pipes
  <2>3. reader.line.n = Prompt => Held
    BY <2>1 DEF Held, LineOfKind, Lines, Answer
  <2>4. Received' => Received \/ Held
    BY <2>1, <2>3 DEF Received
  <2>5. Received => Received'
    BY <2>1 DEF Received
  <2>6. PromptOnce'
    BY <2>1, <2>2, <2>4, <2>5 DEF PromptOnce, pipes
  <2>7. AnswerLast' /\ OutputInOrder'
    BY <2>1, <2>2, <2>4 DEF AnswerLast, OutputInOrder, pipes
  <2> QED
    BY <2>1, <2>5, <2>6, <2>7
<1>4. CASE Reject
  <2>1. /\ UNCHANGED <<handler, fromAgent, agent, text, answered, outcome>>
        /\ reader.at = "reject" /\ reader'.at = "read"
        /\ toAgent' \in {toAgent, Append(toAgent, Rejection)}
    BY <1>4 DEF Reject, ReadNext
  <2>2. Rejection # Request(Prompt)
    BY DEF Rejection, Request
  <2>3. \A i \in DOMAIN toAgent' :
            toAgent'[i] = Request(Prompt) => i \in DOMAIN toAgent /\ toAgent[i] = Request(Prompt)
    <3>1. toAgent \in Seq(Messages)
      BY DEF GenerationTypeOK
    <3> QED
      BY <2>1, <2>2, <3>1, Appended
  <2>4. Asked' => Asked
    BY <2>3 DEF Asked
  <2>5. /\ Working' = Working /\ Replied' = Replied /\ ~Held /\ ~Held'
        /\ Received' = Received /\ Taken' = Taken /\ Sent' = Sent
    BY <2>1 DEF Working, Replied, Held, Received, Taken, Sent
  <2>6. PromptOnce'
    BY <2>1, <2>3, <2>4, <2>5 DEF PromptOnce
  <2>7. AnswerLast' /\ OutputInOrder'
    BY <2>1, <2>5 DEF AnswerLast, OutputInOrder
  <2> QED
    BY <2>1, <2>5, <2>6, <2>7
<1>5. CASE AnnounceOutput \/ Announced
  <2>1. UNCHANGED <<handler, pipes, reader, agent, text, answered, outcome>>
    BY <1>5 DEF AnnounceOutput, Announced
  <2>2. Sent => Sent'
    BY <2>1 DEF Sent
  <2> QED
    BY <2>1, <2>2, QuietStep DEF Received
<1>6. CASE Collect
  <2>1. /\ UNCHANGED <<handler, pipes, agent, answered, outcome>>
        /\ reader.at = "chunk" /\ reader'.at = "read"
        /\ text' = Append(text, reader.line.n)
    BY <1>6 DEF Collect, ReadNext
  <2>2. /\ DOMAIN text' = DOMAIN text \cup {Len(text) + 1}
        /\ \A i \in DOMAIN text : text'[i] = text[i]
        /\ text'[Len(text) + 1] = reader.line.n
        /\ Len(text') = Len(text) + 1
    BY <2>1, Appended DEF GenerationTypeOK
  <2>3. Taken = Len(text) + 1 /\ Taken' = Taken /\ reader.line.n = Taken
    BY <2>1, <2>2 DEF Taken, OutputInOrder
  <2>4. /\ Asked' = Asked /\ Working' = Working /\ Replied' = Replied /\ ~Held /\ ~Held'
        /\ Received' = Received /\ Sent' = Sent
    BY <2>1 DEF Asked, Working, Replied, Held, Received, Sent, pipes
  <2>5. PromptOnce' /\ AnswerLast'
    BY <2>1, <2>4 DEF PromptOnce, AnswerLast, pipes
  <2>6. \A i \in DOMAIN text' : text'[i] = i
    BY <2>2, <2>3 DEF OutputInOrder
  <2>7. OutputInOrder'
    BY <2>1, <2>3, <2>6 DEF OutputInOrder, pipes
  <2> QED
    BY <2>1, <2>4, <2>5, <2>7
<1> QED
  BY <1>1, <1>2, <1>3, <1>4, <1>5, <1>6 DEF Reader

\* Every step of a generation keeps the invariant.
LEMMA NextGeneration == GenerationInv /\ [GenerationNext]_generationVars => GenerationInv'
<1> SUFFICES ASSUME GenerationInv, [GenerationNext]_generationVars PROVE GenerationInv'
  OBVIOUS
<1>1. CASE Handler
  <2>1. GenerationTypeOK'
    BY <1>1, CallerTypeOK DEF GenerationInv
  <2>2. UNCHANGED reader
    BY <1>1 DEF Handler, Register, Encode, EncodeFails, Interrupted, Refused, Answered, Close, Report
  <2> QED
    BY <1>1, <2>1, <2>2, CallerGeneration DEF GenerationInv, LineOfKind
<1>2. CASE Reader
  BY <1>2, ReaderTypeOK, ReaderGeneration DEF GenerationInv
<1>3. CASE Agent \/ ContextEnds \/ ContextKills \/ UNCHANGED generationVars
  <2>1. GenerationTypeOK'
    BY <1>3, AgentTypeOK DEF GenerationInv
  <2>2. UNCHANGED <<reader, answered, outcome>>
    BY <1>3 DEF Agent, AgentReads, AgentAnswers, AgentSaysMore, AgentAsks, AgentExits,
                ContextEnds, ContextKills, generationVars
  <2>3. LineOfKind'
    BY <2>2 DEF GenerationInv, LineOfKind
  <2>4. PromptOnce' /\ AnswerLast' /\ OutputInOrder'
    <3>1. CASE AgentReads
      BY <3>1, AgentReadsGeneration
    <3>2. CASE AgentAnswers \/ AgentSaysMore \/ AgentAsks
      BY <3>2, AgentWritesGeneration
    <3>3. CASE AgentExits \/ ContextEnds \/ ContextKills \/ UNCHANGED generationVars
      <4>1. /\ UNCHANGED <<handler, pipes, text>>
            /\ agent'.call = agent.call /\ agent'.chunks = agent.chunks
        BY <3>3 DEF AgentExits, ContextEnds, ContextKills, generationVars, GenerationInv, GenerationTypeOK
      <4>2. Sent => Sent'
        BY <4>1 DEF Sent
      <4> QED
        BY <2>2, <4>1, <4>2, QuietStep DEF GenerationInv
    <3> QED
      BY <1>3, <3>1, <3>2, <3>3 DEF Agent
  <2> QED
    BY <2>1, <2>2, <2>3, <2>4 DEF GenerationInv, Received
<1> QED
  BY <1>1, <1>2, <1>3 DEF GenerationNext

(*******************************************************************************)
(* Handler, reader, pipes and agent keep their types: no pipe holds more than  *)
(* it has room for, and every line and message is one that somebody writes.    *)
(*******************************************************************************)
THEOREM GenerationTypeCorrect == GenerationSpec => []GenerationTypeOK
<1>1. GenerationInv => GenerationTypeOK
  BY DEF GenerationInv
<1> QED
  BY <1>1, InitGeneration, NextGeneration, PTL DEF GenerationSpec

(*******************************************************************************)
(* A generation that succeeds has all of the agent's output up to its answer,  *)
(* in order, for any pipes and any output: the answer is written after the     *)
(* output and read after it, by the goroutine that collects it.                *)
(*******************************************************************************)
THEOREM GenerationIsWhole == GenerationSpec => []GenerationWhole
<1>1. GenerationInv => GenerationWhole
  <2> SUFFICES ASSUME GenerationInv, outcome = "ok"
               PROVE  text = [i \in 1 .. agent.chunks |-> i]
    BY DEF GenerationWhole
  <2> USE DEF GenerationInv
  <2>1. Received
    OBVIOUS
  <2>2. Taken = Len(text) /\ Len(text) \in Nat /\ agent.chunks \in Nat
    BY <2>1 DEF AnswerLast, Taken, GenerationTypeOK
  <2>3. ~(\E n \in Taken + 1 .. agent.chunks : TRUE)
    BY <2>1 DEF AnswerLast, OutputInOrder
  <2>4. Taken <= agent.chunks
    BY DEF OutputInOrder
  <2>5. Len(text) = agent.chunks
    BY <2>2, <2>3, <2>4
  <2>6. text = [i \in 1 .. Len(text) |-> text[i]]
    BY DEF GenerationTypeOK
  <2>7. \A i \in 1 .. Len(text) : text[i] = i
    BY DEF OutputInOrder, GenerationTypeOK
  <2> QED
    BY <2>5, <2>6, <2>7
<1> QED
  BY <1>1, InitGeneration, NextGeneration, PTL DEF GenerationSpec

===============================================================================
