------------------------------- MODULE Generation -------------------------------
(* One AI generation by a local agent: the handler that streams its progress     *)
(* (internal/server/llm_handlers.go) and the ACP connection below it             *)
(* (internal/llm/acp.go). The handler's goroutine makes one call after the other *)
(* over the agent's standard input and waits for the answer; a reader goroutine  *)
(* takes the agent's lines one by one, delivers answers, answers the agent's own *)
(* requests, and collects the output. Both write under the connection's mutex,   *)
(* into a pipe that may be full. The agent is a program nobody vouches for: it   *)
(* may stall, stop reading or exit at any moment, and the context ends when the  *)
(* time is up or the browser goes away.                                          *)
EXTENDS Integers, Sequences, SequencesExt, FiniteSets

CONSTANTS
    PipeRoom,       \* the messages that fit into a pipe nobody reads
    MaxChunks,      \* bound: the pieces of output the agent writes
    MaxRequests     \* bound: the permission requests it makes

ASSUME PipeAssumption == PipeRoom \in Nat

VARIABLES
    handler,        \* the handler's goroutine: where it is, and in which call
    reader,         \* the reader goroutine: where it is, and the line it holds
    mu,             \* c.mu: nobody, "handler" or "reader"
    toAgent,        \* the agent's standard input
    fromAgent,      \* the agent's standard output
    agent,          \* the agent: alive, the call it works on, what it wrote so far
    pending,        \* the calls whose channel is registered
    answered,       \* the calls whose channel holds the answer
    ctxDone,        \* the context has ended
    text,           \* the output collected for the prompt
    gotOutput,      \* receivedOutput
    outcome,        \* what Generate returned, "none" so far
    events          \* the handler's stream: the reader writes to it (streamMu), the last
                    \* event is written, one came after it

pipes == <<toAgent, fromAgent>>
generationVars ==
    <<handler, reader, mu, pipes, agent, pending, answered, ctxDone, text, gotOutput, outcome, events>>

\* initialize, session/new, the choice of the model, session/prompt. (The call of
\* session/set_mode, whose result is ignored, is like the one before it.)
Calls == 1 .. 4
Prompt == 4

Chunk(n) == [kind |-> "chunk", n |-> n]
Answer(c) == [kind |-> "answer", n |-> c]
Permission == [kind |-> "permission", n |-> 0]
Request(c) == [kind |-> "call", n |-> c]
Rejection == [kind |-> "rejection", n |-> 0]

Nothing == [kind |-> "none", n |-> 0]

GenerationInit ==
    /\ handler = [at |-> "lock", call |-> 1]
    /\ reader = [at |-> "read", line |-> Nothing]
    /\ mu = "nobody"
    /\ toAgent = <<>> /\ fromAgent = <<>>
    /\ agent = [alive |-> TRUE, call |-> 0, chunks |-> 0, requests |-> 0]
    /\ pending = {} /\ answered = {}
    /\ ctxDone = FALSE
    /\ text = <<>> /\ gotOutput = FALSE
    /\ outcome = "none"
    /\ events = [busy |-> FALSE, last |-> FALSE, late |-> FALSE]

(*******************************************************************************)
(* The agent, and the end of the context.                                      *)
(*******************************************************************************)

Write(line) ==
    /\ agent.alive
    /\ Len(fromAgent) < PipeRoom
    /\ fromAgent' = Append(fromAgent, line)

AgentReads ==
    /\ agent.alive
    /\ toAgent # <<>>
    /\ toAgent' = Tail(toAgent)
    /\ agent' = IF Head(toAgent).kind = "call" THEN [agent EXCEPT !.call = Head(toAgent).n] ELSE agent
    /\ UNCHANGED <<handler, reader, mu, fromAgent, pending, answered, ctxDone, text, gotOutput, outcome, events>>

AgentAnswers ==
    /\ agent.call # 0
    /\ Write(Answer(agent.call))
    /\ agent' = [agent EXCEPT !.call = 0]
    /\ UNCHANGED <<handler, reader, mu, toAgent, pending, answered, ctxDone, text, gotOutput, outcome, events>>

\* Output comes while the prompt is being worked on, not after its answer.
AgentSaysMore ==
    /\ agent.call = Prompt
    /\ agent.chunks < MaxChunks
    /\ Write(Chunk(agent.chunks + 1))
    /\ agent' = [agent EXCEPT !.chunks = @ + 1]
    /\ UNCHANGED <<handler, reader, mu, toAgent, pending, answered, ctxDone, text, gotOutput, outcome, events>>

AgentAsks ==
    /\ agent.call # 0
    /\ agent.requests < MaxRequests
    /\ Write(Permission)
    /\ agent' = [agent EXCEPT !.requests = @ + 1]
    /\ UNCHANGED <<handler, reader, mu, toAgent, pending, answered, ctxDone, text, gotOutput, outcome, events>>

AgentExits ==
    /\ agent.alive
    /\ agent' = [agent EXCEPT !.alive = FALSE]
    /\ UNCHANGED <<handler, reader, mu, pipes, pending, answered, ctxDone, text, gotOutput, outcome, events>>

ContextEnds ==
    /\ ~ctxDone
    /\ ctxDone' = TRUE
    /\ UNCHANGED <<handler, reader, mu, pipes, agent, pending, answered, text, gotOutput, outcome, events>>

\* Seeded fault: the process is started without the context.
ContextSpares ==
    /\ ctxDone /\ agent.alive /\ handler.at = "close"
    /\ agent' = [agent EXCEPT !.alive = FALSE]
    /\ UNCHANGED <<handler, reader, mu, pipes, pending, answered, ctxDone, text, gotOutput, outcome, events>>

\* exec.CommandContext with cmd.Cancel: the agent's process group is killed.
ContextKills ==
    /\ ctxDone /\ agent.alive
    /\ agent' = [agent EXCEPT !.alive = FALSE]
    /\ UNCHANGED <<handler, reader, mu, pipes, pending, answered, ctxDone, text, gotOutput, outcome, events>>

(*******************************************************************************)
(* call and Generate, on the handler's goroutine.                              *)
(*******************************************************************************)

Register ==
    /\ handler.at = "lock"
    /\ mu = "nobody"
    /\ mu' = "handler"
    /\ pending' = pending \cup {handler.call}
    /\ handler' = [handler EXCEPT !.at = "encode"]
    /\ UNCHANGED <<reader, pipes, agent, answered, ctxDone, text, gotOutput, outcome, events>>

\* The mutex is held for as long as the write takes.
Encode ==
    /\ handler.at = "encode"
    /\ agent.alive
    /\ Len(toAgent) < PipeRoom
    /\ toAgent' = Append(toAgent, Request(handler.call))
    /\ mu' = "nobody"
    /\ handler' = [handler EXCEPT !.at = "select"]
    /\ UNCHANGED <<reader, fromAgent, agent, pending, answered, ctxDone, text, gotOutput, outcome, events>>

\* Generate returns an error; the connection is closed on the way out.
GiveUp ==
    /\ handler' = [handler EXCEPT !.at = "close"]
    /\ outcome' = "error"

EncodeFails ==
    /\ handler.at = "encode"
    /\ ~agent.alive
    /\ mu' = "nobody"
    /\ GiveUp
    /\ UNCHANGED <<reader, pipes, agent, pending, answered, ctxDone, text, gotOutput, events>>

\* One of the channels that are ready: the context, the end of the reader, the answer.
Interrupted ==
    /\ handler.at = "select"
    /\ ctxDone \/ reader.at = "eof"
    /\ GiveUp
    /\ UNCHANGED <<reader, mu, pipes, agent, pending, answered, ctxDone, text, gotOutput, events>>

\* An answer that is an error, or that lacks what the next call needs.
Refused ==
    /\ handler.at = "select"
    /\ handler.call \in answered
    /\ GiveUp
    /\ UNCHANGED <<reader, mu, pipes, agent, pending, answered, ctxDone, text, gotOutput, events>>

\* The next call, or the whole output; no output is an error.
Answered ==
    /\ handler.at = "select"
    /\ handler.call \in answered
    /\ IF handler.call # Prompt
       THEN handler' = [at |-> "lock", call |-> handler.call + 1] /\ UNCHANGED outcome
       ELSE /\ handler' = [handler EXCEPT !.at = "close"]
            /\ outcome' = IF text = <<>> THEN "error" ELSE "ok"
    /\ UNCHANGED <<reader, mu, pipes, agent, pending, answered, ctxDone, text, gotOutput, events>>

\* The deferred close kills the agent and waits for it, not for the reader.
Close ==
    /\ handler.at = "close"
    /\ agent' = [agent EXCEPT !.alive = FALSE]
    /\ handler' = [handler EXCEPT !.at = "report"]
    /\ UNCHANGED <<reader, mu, pipes, pending, answered, ctxDone, text, gotOutput, outcome, events>>

\* handleAIGenerate saves the generation, writes done or error when nobody else
\* writes to the stream, and returns.
Report ==
    /\ handler.at = "report"
    /\ ~events.busy
    /\ events' = [events EXCEPT !.last = TRUE]
    /\ handler' = [handler EXCEPT !.at = "returned"]
    /\ UNCHANGED <<reader, mu, pipes, agent, pending, answered, ctxDone, text, gotOutput, outcome>>

Handler == Register \/ Encode \/ EncodeFails \/ Interrupted \/ Refused \/ Answered \/ Close \/ Report

(*******************************************************************************)
(* The reader goroutine.                                                       *)
(*******************************************************************************)

\* Seeded fault: each line is handled on a goroutine of its own, in any order.
ReadAnyLine ==
    /\ reader.at = "read"
    /\ \E i \in DOMAIN fromAgent :
        /\ fromAgent' = RemoveAt(fromAgent, i)
        /\ reader' = [at |-> fromAgent[i].kind, line |-> fromAgent[i]]
    /\ UNCHANGED <<handler, mu, toAgent, agent, pending, answered, ctxDone, text, gotOutput, outcome, events>>

Read ==
    /\ reader.at = "read"
    /\ fromAgent # <<>>
    /\ fromAgent' = Tail(fromAgent)
    /\ reader' = [at |-> Head(fromAgent).kind, line |-> Head(fromAgent)]
    /\ UNCHANGED <<handler, mu, toAgent, agent, pending, answered, ctxDone, text, gotOutput, outcome, events>>

\* The agent is gone: what it wrote is read first, unless close has taken the
\* pipe away (cmd.Wait).
EndOfFile ==
    /\ reader.at = "read"
    /\ ~agent.alive
    /\ fromAgent = <<>> \/ handler.at \in {"report", "returned"}
    /\ reader' = [at |-> "eof", line |-> Nothing]
    /\ UNCHANGED <<handler, mu, pipes, agent, pending, answered, ctxDone, text, gotOutput, outcome, events>>

ReadNext == reader' = [at |-> "read", line |-> Nothing]

DispatchAnswer ==
    /\ reader.at = "answer"
    /\ mu = "nobody"
    /\ pending' = pending \ {reader.line.n}
    /\ answered' = answered \cup ({reader.line.n} \cap pending)
    /\ ReadNext
    /\ UNCHANGED <<handler, mu, pipes, agent, ctxDone, text, gotOutput, outcome, events>>

LockToReject ==
    /\ reader.at = "permission"
    /\ mu = "nobody"
    /\ mu' = "reader"
    /\ reader' = [reader EXCEPT !.at = "reject"]
    /\ UNCHANGED <<handler, pipes, agent, pending, answered, ctxDone, text, gotOutput, outcome, events>>

\* The rejection is written, or the write fails and nobody looks.
Reject ==
    /\ reader.at = "reject"
    /\ \/ agent.alive /\ Len(toAgent) < PipeRoom /\ toAgent' = Append(toAgent, Rejection)
       \/ ~agent.alive /\ UNCHANGED toAgent
    /\ mu' = "nobody"
    /\ ReadNext
    /\ UNCHANGED <<handler, fromAgent, agent, pending, answered, ctxDone, text, gotOutput, outcome, events>>

\* The first piece of output is announced on the handler's stream, under streamMu.
AnnounceOutput ==
    /\ reader.at = "chunk"
    /\ ~gotOutput
    /\ gotOutput' = TRUE
    /\ events' = [events EXCEPT !.busy = TRUE]
    /\ UNCHANGED <<handler, reader, mu, pipes, agent, pending, answered, ctxDone, text, outcome>>

\* The browser takes the event, or has gone.
Announced ==
    /\ events.busy
    /\ events' = [events EXCEPT !.busy = FALSE, !.late = events.last]
    /\ UNCHANGED <<handler, reader, mu, pipes, agent, pending, answered, ctxDone, text, gotOutput, outcome>>

Collect ==
    /\ reader.at = "chunk"
    /\ gotOutput
    /\ ~events.busy
    /\ text' = Append(text, reader.line.n)
    /\ ReadNext
    /\ UNCHANGED <<handler, mu, pipes, agent, pending, answered, ctxDone, gotOutput, outcome, events>>

Reader ==
    \/ Read \/ EndOfFile \/ DispatchAnswer \/ LockToReject \/ Reject
    \/ AnnounceOutput \/ Announced \/ Collect

Agent == AgentReads \/ AgentAnswers \/ AgentSaysMore \/ AgentAsks \/ AgentExits

GenerationNext == Handler \/ Reader \/ Agent \/ ContextEnds \/ ContextKills

\* Our goroutines run, the browser takes what is written to it, and the deadline
\* comes; of the agent nothing is assumed.
GenerationFairness ==
    /\ WF_generationVars(Handler) /\ WF_generationVars(Reader)
    /\ WF_generationVars(ContextEnds) /\ WF_generationVars(ContextKills)

GenerationSpec == GenerationInit /\ [][GenerationNext]_generationVars /\ GenerationFairness

(*******************************************************************************)
(* Properties.                                                                 *)
(*******************************************************************************)

Messages == {Request(c) : c \in Calls} \cup {Rejection}
Lines == [kind : {"chunk", "answer", "permission"}, n : Nat]

\* The shape of the state; no pipe holds more than it has room for.
GenerationTypeOK ==
    /\ handler \in [at : {"lock", "encode", "select", "close", "report", "returned"}, call : Calls]
    /\ reader \in [at : {"read", "answer", "permission", "reject", "chunk", "eof"},
                   line : Lines \cup {Nothing}]
    /\ mu \in {"nobody", "handler", "reader"}
    /\ toAgent \in Seq(Messages) /\ Len(toAgent) <= PipeRoom
    /\ fromAgent \in Seq(Lines) /\ Len(fromAgent) <= PipeRoom
    /\ agent \in [alive : BOOLEAN, call : {0} \cup Calls, chunks : Nat, requests : Nat]
    /\ pending \subseteq Calls /\ answered \subseteq Calls
    /\ text \in Seq(Nat) /\ gotOutput \in BOOLEAN
    /\ events \in [busy : BOOLEAN, last : BOOLEAN, late : BOOLEAN]
    /\ outcome \in {"none", "ok", "error"}

\* A generation that succeeds has all of the agent's output up to its answer, in
\* order: what the reader still held when the answer came would be cut off.
GenerationWhole == outcome = "ok" => text = [i \in 1 .. agent.chunks |-> i]

\* The handler always returns, and has then killed its agent: neither a stalled
\* agent, nor full pipes in both directions while the mutex is held, nor an answer
\* that never comes keeps it longer than its context.
GenerationEnds == <>[](handler.at = "returned" /\ ~agent.alive /\ mu = "nobody")

\* The comment on sendEvent says that a status for the first output cannot
\* interleave with the final event: nothing is written to a response that is over.
LastEventIsLast == ~events.late
=============================================================================
