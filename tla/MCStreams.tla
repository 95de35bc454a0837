------------------------------- MODULE MCStreams -------------------------------
(* The loops and long answers of the server, for TLC: the requests for an index  *)
(* pass, the live tail of an open replay, the session list behind the event      *)
(* stream, and an AI generation. They share no state: a behaviour moves one of   *)
(* them and leaves the others where they began.                                  *)
EXTENDS IndexScheduler, Generation

VARIABLES
    part,       \* the part that moves
    t_source, t_events, t_ansi, t_inflight, t_render, t_screen, t_live, t_page,
    t_sent, t_tail,
    l_version, l_epoch, l_listRev, l_notifier, l_hub, l_wire, l_source,
    l_missed, l_timer, l_pendingPing, l_fetch, l_cache, l_list, l_drops,
    l_heard

tailVars ==
    <<t_source, t_events, t_ansi, t_inflight, t_render, t_screen, t_live, t_page, t_sent, t_tail>>
listVars ==
    <<l_version, l_epoch, l_listRev, l_notifier, l_hub, l_wire, l_source,
      l_missed, l_timer, l_pendingPing, l_fetch, l_cache, l_list, l_drops,
      l_heard>>
streamsVars == <<part, tailVars, listVars, generationVars, vars>>

Replay == INSTANCE ReplayTail WITH
    Sessions <- {"a"}, Renders <- {"load", "refresh", "again"}, MaxVersion <- 3,
    MaxGrowth <- 1, MaxDrift <- 1, MaxBytes <- 6,
    Session <- "a", Load <- "load", Refreshes <- {"refresh", "again"},
    source <- t_source, events <- t_events, ansi <- t_ansi, inflight <-
    t_inflight, render <- t_render, screen <- t_screen, live <- t_live, page <-
    t_page, sent <- t_sent, tail <- t_tail

List == INSTANCE SessionList WITH
    Notifiers <- {"index", "handler"}, MaxChanges <- 3, MaxDrops <- 1,
    version <- l_version, epoch <- l_epoch, listRev <- l_listRev, notifier <-
    l_notifier, hub <- l_hub, wire <- l_wire, source <- l_source, missed <-
    l_missed, timer <- l_timer, pendingPing <- l_pendingPing, fetch <-
    l_fetch, cache <- l_cache, list <- l_list, drops <- l_drops, heard <-
    l_heard

Scheduling(A) == part = "schedule" /\ A /\ UNCHANGED <<part, tailVars, listVars, generationVars>>
Tailing(A)    == part = "tail" /\ A /\ UNCHANGED <<part, listVars, generationVars, vars>>
Listing(A)    == part = "list" /\ A /\ UNCHANGED <<part, tailVars, generationVars, vars>>
Generating(A) == part = "generation" /\ A /\ UNCHANGED <<part, tailVars, listVars, vars>>

StreamsInit ==
    /\ Init /\ Replay!TailInit /\ List!Init /\ GenerationInit
    /\ \/ part = "tail"
       \/ part \in {"schedule", "list", "generation"} /\ t_live

StreamsNext ==
    \/ Scheduling(Next)
    \/ Tailing(Replay!TailNext)
    \/ Listing(List!Next)
    \/ Generating(GenerationNext)

\* The part that moves is as fair as it is on its own, each thread of it at a time:
\* these are the conditions of Fairness in IndexScheduler and SessionList, of
\* TailFairness and of GenerationFairness.
StreamsFairness ==
    /\ \A c \in Callers : WF_streamsVars(Scheduling(Notify(c)))
    /\ WF_streamsVars(Scheduling(
            TakeRequests \/ (\E a \in Agents : ListReader(a)) \/ AbandonPass \/ FinishPass))
    /\ SF_streamsVars(Scheduling(WakeOnKick)) /\ SF_streamsVars(Scheduling(WakeOnTick))
    /\ SF_streamsVars(Scheduling(Stop))
    /\ WF_streamsVars(Tailing(Replay!WindowEnds)) /\ WF_streamsVars(Tailing(Replay!Poll))
    /\ WF_streamsVars(Tailing(Replay!Open \/ Replay!ServePage("load") \/ Replay!FirstShown))
    /\ \A f \in {"refresh", "again"} : WF_streamsVars(Tailing(
            Replay!RefreshArrives(f) \/ Replay!ServePage(f) \/ Replay!Refreshed(f)))
    /\ \A n \in {"index", "handler"} : WF_streamsVars(Listing(List!Bump(n) \/ List!Broadcast(n)))
    /\ WF_streamsVars(Listing(List!Connect \/ List!Subscribe \/ List!Forward))
    /\ \A f \in List!Fetches : WF_streamsVars(Listing(
            List!CompareETag(f) \/ List!Query(f) \/ List!Show(f)))
    /\ WF_streamsVars(Listing(List!OnOpen)) /\ WF_streamsVars(Listing(List!OnPing))
    /\ WF_streamsVars(Listing(List!Refetch))
    /\ WF_streamsVars(Generating(Handler)) /\ WF_streamsVars(Generating(Reader))
    /\ WF_streamsVars(Generating(ContextEnds)) /\ WF_streamsVars(Generating(ContextKills))

StreamsSpec == StreamsInit /\ [][StreamsNext]_streamsVars /\ StreamsFairness

(*******************************************************************************)
(* The properties of the parts, under names of their own.                      *)
(*******************************************************************************)

\* See ReplayTail: a replay shows all of a session that is written no more.
TailCatchesUp == <>[](part = "tail" => Replay!CaughtUp)

\* See ReplayTail: the one-shot cleanup makes the row of a turn in progress disappear.
StaleRowCleared == part = "tail" => Replay!StaleRowCleared

\* See SessionList: a change that was announced to a browser gets into its list.
PingsAreServed == List!PingsAreServed

\* See Generation: the handler returns, and the agent it started is gone.
GenerationAlwaysEnds ==
    <>[](part = "generation" => handler.at = "returned" /\ ~agent.alive /\ mu = "nobody")
=============================================================================
