------------------------------- MODULE SessionList -------------------------------
(* How a change of the index reaches the session list of a browser: the list     *)
(* revision and the event hub (internal/server/events.go), the conditional list  *)
(* request (handleListSessions), and the sidebar that refetches on a ping        *)
(* (frontend/src/components/Sidebar.tsx, frontend/src/api.ts).                   *)
(*                                                                               *)
(* The list is abstracted to the number of changes it contains. A change is      *)
(* committed, then the list revision is bumped, then every subscriber's channel, *)
(* which has room for one, is offered a ping. A list request compares its ETag   *)
(* with the revision and only then queries the database. One browser is modelled *)
(* with its HTTP cache, its event source and its two kinds of list requests: the *)
(* one made when the page opens and the throttled refetches.                     *)
EXTENDS Integers, FiniteSets, FiniteSetsExt

CONSTANTS
    Notifiers,      \* the callers of NotifySessionsChanged that overlap
    MaxChanges,     \* bound: the changes of the index
    MaxDrops        \* bound: how often the connection drops or the server restarts

VARIABLES
    version,        \* the changes committed so far
    epoch,          \* startNano: which start of the server this is
    listRev,        \* the list revision of this start
    notifier,       \* what each notifier is doing, and for which change
    hub,            \* the server's end of the event stream, and its channel
    wire,           \* pings written to the stream and not yet received
    source,         \* the browser's end: "connecting" or "open"
    missed,         \* everDisconnected: the stream was lost and nothing fetched since
    timer,          \* a refetch is scheduled
    pendingPing,    \* a ping came while a refetch was in flight
    fetch,          \* the list requests in flight, "mount" and "refetch"
    cache,          \* the browser's cached list response
    list,           \* the list the sidebar shows
    drops,          \* history: drops and restarts so far
    heard           \* history: the newest change this browser was sent a ping for when
                    \* its opening request was over

server == <<version, epoch, listRev, notifier>>
stream == <<hub, wire, source>>
client == <<missed, timer, pendingPing, list>>
vars == <<server, stream, client, fetch, cache, drops, heard>>

Fetches == {"mount", "refetch"}
NoFetch == [at |-> "none"]
Quiet == [at |-> "idle", change |-> 0]

\* The ETag: which start of the server, and the list revision.
ETag == <<epoch, listRev>>
NothingCached == [etag |-> <<0, 0>>, content |-> 0]

\* A list request leaves the browser with the ETag of what is cached.
Sent == [at |-> "sent", cached |-> cache]

Init ==
    /\ version = 1 /\ epoch = 1 /\ listRev = 0
    /\ notifier = [n \in Notifiers |-> Quiet]
    /\ hub = [at |-> "closed", ping |-> FALSE]
    /\ wire = 0
    /\ source = "connecting"
    /\ missed = FALSE /\ timer = FALSE /\ pendingPing = FALSE
    /\ cache = NothingCached
    /\ fetch = [f \in Fetches |-> IF f = "mount" THEN [at |-> "sent", cached |-> NothingCached] ELSE NoFetch]
    /\ list = 0
    /\ drops = 0
    /\ heard = 0

(*******************************************************************************)
(* The server: a change, its revision, its ping.                               *)
(*******************************************************************************)

Commit(n) ==
    /\ notifier[n] = Quiet
    /\ version < MaxChanges
    /\ version' = version + 1
    /\ notifier' = [notifier EXCEPT ![n] = [at |-> "committed", change |-> version + 1]]
    /\ UNCHANGED <<epoch, listRev, stream, client, fetch, cache, drops, heard>>

\* NotifySessionsChanged, first half.
Bump(n) ==
    /\ notifier[n].at = "committed"
    /\ listRev' = listRev + 1
    /\ notifier' = [notifier EXCEPT ![n].at = "bumped"]
    /\ UNCHANGED <<version, epoch, stream, client, fetch, cache, drops, heard>>

\* NotifySessionsChanged, second half: a channel that holds a ping is left alone.
Broadcast(n) ==
    /\ notifier[n].at = "bumped"
    /\ notifier' = [notifier EXCEPT ![n] = Quiet]
    /\ IF hub.at = "subscribed"
       THEN /\ hub' = [hub EXCEPT !.ping = TRUE]
            /\ heard' = IF fetch["mount"] = NoFetch THEN Max({heard, notifier[n].change}) ELSE heard
       ELSE UNCHANGED <<hub, heard>>
    /\ UNCHANGED <<version, epoch, listRev, wire, source, client, fetch, cache, drops>>

\* handleEvents writes its first bytes, and subscribes only then.
Connect ==
    /\ source = "connecting"
    /\ hub.at = "closed"
    /\ hub' = [at |-> "greeted", ping |-> FALSE]
    /\ UNCHANGED <<server, wire, source, client, fetch, cache, drops, heard>>

Subscribe ==
    /\ hub.at = "greeted"
    /\ hub' = [at |-> "subscribed", ping |-> FALSE]
    /\ UNCHANGED <<server, wire, source, client, fetch, cache, drops, heard>>

\* The stream's loop takes the ping out of its channel and writes it.
Forward ==
    /\ hub.at = "subscribed" /\ hub.ping
    /\ hub' = [hub EXCEPT !.ping = FALSE]
    /\ wire' = wire + 1
    /\ UNCHANGED <<server, source, client, fetch, cache, drops, heard>>

\* handleListSessions compares the revision before it asks the database.
CompareETag(f) ==
    /\ fetch[f].at = "sent"
    /\ fetch' = [fetch EXCEPT ![f] =
                    IF fetch[f].cached.etag = ETag
                    THEN [at |-> "response", etag |-> ETag, content |-> fetch[f].cached.content]
                    ELSE [at |-> "query", etag |-> ETag]]
    /\ UNCHANGED <<server, stream, client, cache, drops, heard>>

Query(f) ==
    /\ fetch[f].at = "query"
    /\ fetch' = [fetch EXCEPT ![f] = [at |-> "response", etag |-> fetch[f].etag, content |-> version]]
    /\ UNCHANGED <<server, stream, client, cache, drops, heard>>

(*******************************************************************************)
(* The browser.                                                                *)
(*******************************************************************************)

InFlight == fetch["refetch"] # NoFetch

\* Seeded fault: a ping that comes during a refetch is taken for served by it.
FetchSoonUnlessBusy ==
    /\ timer' = (timer \/ ~InFlight)
    /\ UNCHANGED pendingPing

\* What a ping, or the end of an interruption, makes the sidebar do.
FetchSoon ==
    /\ timer' = (timer \/ ~InFlight)
    /\ pendingPing' = (pendingPing \/ InFlight)

\* onopen: after an interruption the list is fetched, on the first connection not.
OnOpen ==
    /\ source = "connecting"
    /\ hub.at # "closed"
    /\ source' = "open"
    /\ missed' = FALSE
    /\ IF missed THEN FetchSoon ELSE UNCHANGED <<timer, pendingPing>>
    /\ UNCHANGED <<server, hub, wire, fetch, cache, list, drops, heard>>

OnPing ==
    /\ source = "open" /\ wire > 0
    /\ wire' = wire - 1
    /\ FetchSoon
    /\ UNCHANGED <<server, hub, source, missed, fetch, cache, list, drops, heard>>

\* The throttle's timer.
Refetch ==
    /\ timer
    /\ timer' = FALSE
    /\ IF InFlight
       THEN pendingPing' = TRUE /\ UNCHANGED fetch
       ELSE fetch' = [fetch EXCEPT !["refetch"] = Sent] /\ UNCHANGED pendingPing
    /\ UNCHANGED <<server, stream, missed, cache, list, drops, heard>>

\* A refetch that is over lets the pings that came meanwhile cause another one.
Settle(f) ==
    IF f = "refetch" /\ pendingPing
    THEN timer' = TRUE /\ pendingPing' = FALSE
    ELSE UNCHANGED <<timer, pendingPing>>

Show(f) ==
    /\ fetch[f].at = "response"
    /\ list' = fetch[f].content
    /\ cache' = [etag |-> fetch[f].etag, content |-> fetch[f].content]
    /\ fetch' = [fetch EXCEPT ![f] = NoFetch]
    /\ Settle(f)
    /\ UNCHANGED <<server, stream, missed, drops, heard>>

(*******************************************************************************)
(* Interruptions.                                                              *)
(*******************************************************************************)

StreamLost ==
    /\ hub' = [at |-> "closed", ping |-> FALSE]
    /\ wire' = 0
    /\ source' = "connecting"

Drop ==
    /\ drops < MaxDrops
    /\ source = "open"
    /\ StreamLost
    /\ missed' = TRUE
    /\ drops' = drops + 1
    /\ UNCHANGED <<server, timer, pendingPing, list, fetch, cache, heard>>

\* The server is killed and started again: requests fail, notifiers are gone.
Restart ==
    /\ drops < MaxDrops
    /\ StreamLost
    /\ missed' = TRUE
    /\ drops' = drops + 1
    /\ epoch' = epoch + 1
    /\ listRev' = 0
    /\ notifier' = [n \in Notifiers |-> Quiet]
    /\ fetch' = [f \in Fetches |-> NoFetch]
    /\ Settle("refetch")
    /\ UNCHANGED <<version, cache, list, heard>>

ServerStep ==
    \/ \E n \in Notifiers : Bump(n) \/ Broadcast(n)
    \/ Connect \/ Subscribe \/ Forward
    \/ \E f \in Fetches : CompareETag(f) \/ Query(f)

BrowserStep == OnOpen \/ OnPing \/ Refetch \/ \E f \in Fetches : Show(f)

Next ==
    \/ \E n \in Notifiers : Commit(n)
    \/ ServerStep \/ BrowserStep
    \/ Drop \/ Restart

\* Whoever can go on does so: goroutines, requests, timers and the event source's
\* reconnection. Nothing says that the index changes or that a connection breaks.
Fairness ==
    /\ \A n \in Notifiers : WF_vars(Bump(n) \/ Broadcast(n))
    /\ WF_vars(Connect \/ Subscribe) /\ WF_vars(Forward)
    /\ \A f \in Fetches : WF_vars(CompareETag(f) \/ Query(f)) /\ WF_vars(Show(f))
    /\ WF_vars(OnOpen) /\ WF_vars(OnPing) /\ WF_vars(Refetch)

Spec == Init /\ [][Next]_vars /\ Fairness

(*******************************************************************************)
(* Properties.                                                                 *)
(*******************************************************************************)

\* The shape of the state of server, stream and browser.
TypeOK ==
    /\ version \in 1 .. MaxChanges /\ list \in 0 .. MaxChanges /\ heard \in 0 .. MaxChanges
    /\ listRev \in 0 .. MaxChanges /\ drops \in 0 .. MaxDrops /\ epoch \in 1 .. MaxDrops + 1
    /\ notifier \in [Notifiers -> [at : {"idle", "committed", "bumped"}, change : 0 .. MaxChanges]]
    /\ hub \in [at : {"closed", "greeted", "subscribed"}, ping : BOOLEAN]
    /\ wire \in 0 .. MaxChanges
    /\ source \in {"connecting", "open"}
    /\ {missed, timer, pendingPing} \subseteq BOOLEAN

\* A change that the hub announced to this browser gets into its list and stays
\* there, however pings coalesce, refetches overlap changes, ETags match and the
\* connection breaks: a ping carries nothing, and a 304 must not stand for a list
\* without the change. (Not so while the request of the opening page is under way:
\* nothing keeps its late answer from replacing a newer list.)
PingsAreServed == \A n \in 1 .. MaxChanges : (heard >= n) ~> [](list >= n)

\* Once the index rests, the list shows it: the comment on handleListSessions says
\* that clients refetch right after new data lands.
ListCatchesUp == <>[](list = version)
=============================================================================
