--------------------------- MODULE IndexScheduler ---------------------------
(***************************************************************************)
(* The request side of the background indexer, internal/indexer/indexer.go. *)
(*                                                                         *)
(* File watchers and HTTP handlers ask for a pass with Kick or KickAgent:  *)
(* they record what they want under requestMu and then put a token on the  *)
(* channel kick (capacity one, never blocking).  The single goroutine      *)
(* RunBackground waits for a tick of its ticker, a token or the end of its *)
(* context, turns the recorded requests into the agent filter of one pass  *)
(* and lists the readers that the filter lets through.  What a pass does   *)
(* with a listed session is the business of IndexCycle and SessionIndex.   *)
(*                                                                         *)
(* Recording and notifying are two steps, and so are receiving the token   *)
(* and taking the requests: every interleaving of callers and loop between *)
(* them is a behaviour of the model.                                       *)
(***************************************************************************)
EXTENDS Naturals

CONSTANTS
    Agents,      \* agent types with a reader
    Callers,     \* goroutines that call Kick and KickAgent
    Cancellable  \* TRUE when the context of RunBackground may end

ASSUME AgentsAssumption == Agents # {}
ASSUME CancellableAssumption == Cancellable \in BOOLEAN

VARIABLES
    kick,            \* tokens in the channel kick
    fullRequested,   \* Indexer.fullRequested
    agentRequested,  \* Indexer.agentRequested
    caller,          \* per caller: "idle", or "notify" between record and send
    loop,            \* where RunBackground stands
    toList,          \* readers the running pass has still to list
    filter,          \* agentFilter of the running pass, {} for a full one
    wakeup,          \* what started the running pass (observed, never read)
    tick,            \* a tick waits in ticker.C
    cancelled,       \* ctx.Done is closed
    owed             \* history: agents asked for and not listed since

requests == <<kick, fullRequested, agentRequested, caller>>
pass == <<toList, filter, wakeup>>
vars == <<requests, loop, pass, tick, cancelled, owed>>

\* make(chan struct{}, 1)
KickCapacity == 1

Init ==
    /\ kick = 0
    /\ fullRequested = FALSE
    /\ agentRequested = {}
    /\ caller = [c \in Callers |-> "idle"]
    /\ loop = "select"
    /\ toList = {}
    /\ filter = {}
    /\ wakeup = "none"
    /\ tick = FALSE
    /\ cancelled = FALSE
    /\ owed = {}

-----------------------------------------------------------------------------
(* The callers.                                                            *)

\* Kick, and KickAgent(""), up to the unlock of requestMu.
RecordFull(c) ==
    /\ caller[c] = "idle"
    /\ caller' = [caller EXCEPT ![c] = "notify"]
    /\ fullRequested' = TRUE
    /\ owed' = Agents
    /\ UNCHANGED <<kick, agentRequested, loop, pass, tick, cancelled>>

\* KickAgent(a) up to the unlock of requestMu.
RecordAgent(c, a) ==
    /\ caller[c] = "idle"
    /\ caller' = [caller EXCEPT ![c] = "notify"]
    /\ agentRequested' = agentRequested \union {a}
    /\ owed' = owed \union {a}
    /\ UNCHANGED <<kick, fullRequested, loop, pass, tick, cancelled>>

\* Seeded fault: a notify that sends without the default case of its select.
NotifyUnbounded(c) ==
    /\ caller[c] = "notify"
    /\ caller' = [caller EXCEPT ![c] = "idle"]
    /\ kick' = kick + 1
    /\ UNCHANGED <<fullRequested, agentRequested, loop, pass, tick, cancelled, owed>>

\* notify: a send that is dropped when the channel is full.
Notify(c) ==
    /\ caller[c] = "notify"
    /\ caller' = [caller EXCEPT ![c] = "idle"]
    /\ kick' = IF kick < KickCapacity THEN kick + 1 ELSE kick
    /\ UNCHANGED <<fullRequested, agentRequested, loop, pass, tick, cancelled, owed>>

-----------------------------------------------------------------------------
(* RunBackground and the listing half of indexOnce.                        *)

\* The readers a pass with agent filter F lists: an empty filter lets all through.
Listed(F) == IF F = {} THEN Agents ELSE F

StartPass(F, reason) ==
    /\ loop' = "pass"
    /\ filter' = F
    /\ toList' = Listed(F)
    /\ wakeup' = reason

\* Seeded fault: the tick runs the recorded agents instead of a full cycle.
WakeOnTickScoped ==
    /\ loop = "select"
    /\ tick
    /\ tick' = FALSE
    /\ StartPass(agentRequested, "tick")
    /\ UNCHANGED <<requests, cancelled, owed>>

\* The periodic full cycle leaves the recorded requests alone.
WakeOnTick ==
    /\ loop = "select"
    /\ tick
    /\ tick' = FALSE
    /\ StartPass({}, "tick")
    /\ UNCHANGED <<requests, cancelled, owed>>

\* case <-ix.kick
WakeOnKick ==
    /\ loop = "select"
    /\ kick > 0
    /\ kick' = kick - 1
    /\ loop' = "take"
    /\ UNCHANGED <<fullRequested, agentRequested, caller, pass, tick, cancelled, owed>>

\* takeRequests, and the choice of the filter that follows it.
TakeRequests ==
    /\ loop = "take"
    /\ IF fullRequested
       THEN StartPass({}, "full")
       ELSE StartPass(agentRequested, "agents")
    /\ fullRequested' = FALSE
    /\ agentRequested' = {}
    /\ UNCHANGED <<kick, caller, tick, cancelled, owed>>

\* indexOnce lists one reader, after it has looked at the context.
ListReader(a) ==
    /\ loop = "pass"
    /\ a \in toList
    /\ ~cancelled
    /\ toList' = toList \ {a}
    /\ owed' = owed \ {a}
    /\ UNCHANGED <<requests, loop, filter, wakeup, tick, cancelled>>

\* indexOnce returns ctx.Err() before the next reader.
AbandonPass ==
    /\ loop = "pass"
    /\ toList # {}
    /\ cancelled
    /\ loop' = "select"
    /\ toList' = {}
    /\ UNCHANGED <<requests, filter, wakeup, tick, cancelled, owed>>

\* Seeded fault: the end of a pass forgets the requests, as if it had served them.
FinishPassForgets ==
    /\ loop = "pass"
    /\ toList = {}
    /\ loop' = "select"
    /\ fullRequested' = FALSE
    /\ agentRequested' = {}
    /\ UNCHANGED <<kick, caller, pass, tick, cancelled, owed>>

\* Seeded fault: the end of a pass drains the channel.
FinishPassDrains ==
    /\ loop = "pass"
    /\ toList = {}
    /\ loop' = "select"
    /\ kick' = 0
    /\ UNCHANGED <<fullRequested, agentRequested, caller, pass, tick, cancelled, owed>>

\* indexOnce has indexed what it listed.
FinishPass ==
    /\ loop = "pass"
    /\ toList = {}
    /\ loop' = "select"
    /\ UNCHANGED <<requests, pass, tick, cancelled, owed>>

\* Seeded fault: the context is looked at only when nothing else is ready.
StopWhenIdle ==
    /\ loop = "select"
    /\ cancelled
    /\ kick = 0
    /\ ~tick
    /\ loop' = "stopped"
    /\ UNCHANGED <<requests, pass, tick, cancelled, owed>>

\* case <-ctx.Done()
Stop ==
    /\ loop = "select"
    /\ cancelled
    /\ loop' = "stopped"
    /\ UNCHANGED <<requests, pass, tick, cancelled, owed>>

-----------------------------------------------------------------------------
(* The runtime.                                                            *)

\* IndexInterval elapses; a ticker keeps at most one tick for a slow receiver.
TickerFires ==
    /\ ~tick
    /\ tick' = TRUE
    /\ UNCHANGED <<requests, loop, pass, cancelled, owed>>

Cancel ==
    /\ Cancellable
    /\ ~cancelled
    /\ cancelled' = TRUE
    /\ UNCHANGED <<requests, loop, pass, tick, owed>>

CallerStep(c) == RecordFull(c) \/ (\E a \in Agents : RecordAgent(c, a)) \/ Notify(c)

LoopStep ==
    \/ WakeOnTick
    \/ WakeOnKick
    \/ TakeRequests
    \/ \E a \in Agents : ListReader(a)
    \/ AbandonPass
    \/ FinishPass
    \/ Stop

Next == (\E c \in Callers : CallerStep(c)) \/ LoopStep \/ TickerFires \/ Cancel

(***************************************************************************)
(* Fairness.  A goroutine that can run does run: a caller that has         *)
(* recorded its request reaches notify, and the loop leaves every state it *)
(* can leave.  select picks uniformly among its ready cases, so a case     *)
(* that is ready infinitely often is taken: strong fairness for each case. *)
(* Nothing obliges a caller to ask, or the ticker to tick.                 *)
(***************************************************************************)
Fairness ==
    /\ \A c \in Callers : WF_vars(Notify(c))
    /\ WF_vars(TakeRequests)
    /\ WF_vars(\E a \in Agents : ListReader(a))
    /\ WF_vars(AbandonPass)
    /\ WF_vars(FinishPass)
    /\ SF_vars(WakeOnKick)
    /\ SF_vars(WakeOnTick)
    /\ SF_vars(Stop)

Spec == Init /\ [][Next]_vars /\ Fairness

-----------------------------------------------------------------------------
(* Properties.                                                             *)

\* The shape of requests, token and loop.
TypeOK ==
    /\ kick \in 0..KickCapacity
    /\ fullRequested \in BOOLEAN
    /\ agentRequested \in SUBSET Agents
    /\ caller \in [Callers -> {"idle", "notify"}]
    /\ loop \in {"select", "take", "pass", "stopped"}
    /\ toList \in SUBSET Agents
    /\ filter \in SUBSET Agents
    /\ wakeup \in {"none", "tick", "full", "agents"}
    /\ tick \in BOOLEAN
    /\ cancelled \in BOOLEAN
    /\ owed \in SUBSET Agents

\* The loop will look at the recorded requests: a token waits, the token has
\* just been received, or a caller is about to send one.
WillTake ==
    \/ kick > 0
    \/ loop = "take"
    \/ \E c \in Callers : caller[c] = "notify"

Recorded(a) == fullRequested \/ a \in agentRequested

\* No request is lost between the callers and the loop: an agent somebody
\* asked for is about to be listed by the running pass, or it is recorded and
\* a token for the record exists or is about to.  (Kick, KickAgent, notify and
\* takeRequests share no lock that spans record and send.)
NoLostRequest ==
    \A a \in owed :
        \/ cancelled
        \/ loop = "pass" /\ a \in toList
        \/ Recorded(a) /\ WillTake

\* Every request is followed by a listing of its agent that starts after it,
\* without any help from the ticker, as long as the context lives.
RequestServed == \A a \in Agents : a \in owed ~> (a \notin owed \/ cancelled)

\* However busy the watchers keep the loop, the periodic pass is not starved:
\* every tick is followed by one that lists every reader ("the periodic full pass
\* remains the reconciliation path for missed creates, deletes, and renames").
ReconcileRecurs ==
    \A a \in Agents :
        tick ~> cancelled \/ (loop = "pass" /\ wakeup = "tick" /\ a \in toList)

\* RunBackground returns once its context is done, whatever the callers do.
StopsWhenCancelled == cancelled ~> loop = "stopped"

\* What the comments on KickAgent and in indexOnce say: a pass that no tick and
\* no Kick asked for is an incremental pass for the agents that asked, and
\* never re-lists every agent store.
ScopedPassStaysScoped == (loop = "pass" /\ wakeup = "agents") => filter # {}

=============================================================================
