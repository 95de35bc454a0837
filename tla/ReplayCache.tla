------------------------------- MODULE ReplayCache -------------------------------
(* The server's cache of parsed transcripts and rendered replays                *)
(* (internal/server/replay_cache.go). A request looks at the revision of the    *)
(* source, which is a stat of its file, and then finds the parsed events under  *)
(* that revision, waits for a parse another request is already doing, or parses *)
(* itself; a render request goes on to the rendered text, kept per revision.    *)
(* Each step is what one request does under the cache's mutex, or between two   *)
(* such sections; the transcript grows between any two of them.                 *)
(*                                                                              *)
(* What a parse returns has two parts. The version of the main transcript is    *)
(* also what the live revision tells (size and modification time of its file).  *)
(* The rest moves without the revision: the files of subagents that are spliced *)
(* in, and the trailing row of a turn in progress, which is there only for some *)
(* minutes after the last write. Renders differ in width and options too: other *)
(* widths are other keys, here there is one.                                    *)
EXTENDS Integers, Sequences, FiniteSets, SequencesExt, FiniteSetsExt

CONSTANTS
    Sessions,       \* the sessions of readers that can tell a live revision
    Renders,        \* the HTTP requests that may be under way at once
    MaxVersion,     \* bound: the versions one transcript goes through
    MaxGrowth,      \* bound: how often transcripts grow altogether
    MaxDrift,       \* bound: how often what they do not tell of moves altogether
    MaxBytes        \* the budget of each of the two sub-caches

\* newReplayCache: a positive number of bytes.
ASSUME BudgetAssumption == MaxBytes \in Nat \ {0}
ASSUME VersionsAssumption == MaxVersion \in Nat \ {0}

VARIABLES
    source,         \* what a parse of each session would return now
    events,         \* the events sub-cache: entries, least recently used last, bytes
    ansi,           \* the same for the rendered text, keyed by session and revision
    inflight,       \* for each session being parsed, the request that does it
    render          \* what each request is doing

cacheVars == <<source, events, ansi, inflight, render>>

Versions == 1 .. MaxVersion

\* What a parse returns: the version of the main transcript, and the rest.
Contents == [main : Versions, rest : Nat]

\* What a failed parse returns.
Failed == [main |-> 0, rest |-> 0]

\* LiveRevision: a stat of the main transcript.
LiveRevision(s) == source[s].main

\* estimateEventsBytes and len(ansi): more content takes more room.
Size(c) == c.main + c.rest + 1

NoRender == [at |-> "idle"]

EmptyCache == [entries |-> <<>>, lru |-> <<>>, bytes |-> 0]

(*******************************************************************************)
(* One sub-cache.                                                              *)
(*******************************************************************************)

Without(f, keys) == [k \in DOMAIN f \ keys |-> f[k]]

\* An entry's element in the list.
LruElem(lru, k) == CHOOSE i \in DOMAIN lru : lru[i] = k

\* MoveToFront.
Touch(cache, k) ==
    [cache EXCEPT !.lru = <<k>> \o RemoveAt(cache.lru, LruElem(cache.lru, k))]

Drop(cache, k) ==
    IF k \in DOMAIN cache.entries
    THEN [entries |-> Without(cache.entries, {k}),
          lru |-> RemoveAt(cache.lru, LruElem(cache.lru, k)),
          bytes |-> cache.bytes - cache.entries[k].bytes]
    ELSE cache

\* What the entries of some keys take.
Bytes(entries, keys) == MapThenSumSet(LAMBDA k : entries[k].bytes, keys)

\* The n keys used longest ago: the back of the list.
Oldest(cache, n) == Range(SubSeq(cache.lru, Len(cache.lru) - n + 1, Len(cache.lru)))

\* Entries leave from the back until the rest fits or the list is empty.
Evict(cache) ==
    LET fits(n) == cache.bytes - Bytes(cache.entries, Oldest(cache, n)) <= MaxBytes
        n == CHOOSE m \in 0 .. Len(cache.lru) :
                /\ fits(m) \/ m = Len(cache.lru)
                /\ \A l \in 0 .. m - 1 : ~fits(l)
    IN  [entries |-> Without(cache.entries, Oldest(cache, n)),
         lru |-> SubSeq(cache.lru, 1, Len(cache.lru) - n),
         bytes |-> cache.bytes - Bytes(cache.entries, Oldest(cache, n))]

\* One entry may not take more than half of the budget.
Insert(cache, k, entry) ==
    IF entry.bytes > MaxBytes \div 2
    THEN cache
    ELSE Evict([entries |-> [x \in DOMAIN cache.entries \cup {k} |->
                                IF x = k THEN entry ELSE cache.entries[x]],
                lru |-> <<k>> \o cache.lru,
                bytes |-> cache.bytes + entry.bytes])

(*******************************************************************************)
(* A request.                                                                  *)
(*******************************************************************************)

CacheInit ==
    /\ source = [s \in Sessions |-> [main |-> 1, rest |-> 0]]
    /\ events = EmptyCache
    /\ ansi = EmptyCache
    /\ inflight = <<>>
    /\ render = [r \in Renders |-> NoRender]

\* The agent appends to its transcript.
Grow(s) ==
    /\ source[s].main < MaxVersion
    /\ MapThenSumSet(LAMBDA x : source[x].main - 1, Sessions) < MaxGrowth
    /\ source' = [source EXCEPT ![s].main = @ + 1]
    /\ UNCHANGED <<events, ansi, inflight, render>>

\* A subagent writes to its own file, or the row of the turn in progress goes.
Drift(s) ==
    /\ MapThenSumSet(LAMBDA x : source[x].rest, Sessions) < MaxDrift
    /\ source' = [source EXCEPT ![s].rest = @ + 1]
    /\ UNCHANGED <<events, ansi, inflight, render>>

\* A request arrives and takes the live revision, before it has the mutex.
Arrive(r, s) ==
    /\ render[r] = NoRender
    /\ render' = [render EXCEPT ![r] = [at |-> "lookup", s |-> s, rev |-> LiveRevision(s), content |-> Failed]]
    /\ UNCHANGED <<source, events, ansi, inflight>>

\* Its events are cached under the revision it saw.
EventsHit(r) ==
    LET s == render[r].s IN
    /\ render[r].at = "lookup"
    /\ s \in DOMAIN events.entries
    /\ events.entries[s].rev = render[r].rev
    /\ events' = Touch(events, s)
    /\ render' = [render EXCEPT ![r].at = "render", ![r].content = events.entries[s].content]
    /\ UNCHANGED <<source, ansi, inflight>>

EventsMissed(r) ==
    LET s == render[r].s IN
    /\ render[r].at = "lookup"
    /\ s \in DOMAIN events.entries => events.entries[s].rev # render[r].rev

\* Somebody parses the session already: wait for what comes of it.
Join(r) ==
    /\ EventsMissed(r)
    /\ render[r].s \in DOMAIN inflight
    /\ render' = [render EXCEPT ![r].at = "wait"]
    /\ UNCHANGED <<source, events, ansi, inflight>>

Lead(r) ==
    LET s == render[r].s IN
    /\ EventsMissed(r)
    /\ s \notin DOMAIN inflight
    /\ inflight' = [x \in DOMAIN inflight \cup {s} |-> IF x = s THEN r ELSE inflight[x]]
    /\ render' = [render EXCEPT ![r].at = "parse"]
    /\ UNCHANGED <<source, events, ansi>>

\* The reader parses what the transcript holds now, or fails.
Parse(r) ==
    /\ render[r].at = "parse"
    /\ \E content \in {source[render[r].s], Failed} :
        render' = [render EXCEPT ![r].at = "store", ![r].content = content]
    /\ UNCHANGED <<source, events, ansi, inflight>>

\* Seeded fault: a parse is cached without a second look at the revision.
CachedUnchecked(r) ==
    IF render[r].content # Failed
    THEN Insert(Drop(events, render[r].s), render[r].s,
                [rev |-> render[r].rev, content |-> render[r].content, bytes |-> Size(render[r].content)])
    ELSE events

\* Parsed events are cached when the revision is still the one the parse began at;
\* whether the rest has moved meanwhile, or moves later, nobody looks.
Cached(r) ==
    LET s == render[r].s
    IN  IF render[r].content # Failed /\ LiveRevision(s) = render[r].rev
        THEN Insert(Drop(events, s), s,
                    [rev |-> render[r].rev, content |-> render[r].content, bytes |-> Size(render[r].content)])
        ELSE events

\* The requests that receive the result of r's parse, r itself among them.
Receivers(r) == {r} \cup {w \in Renders : render[w].at = "wait" /\ render[w].s = render[r].s}

\* Seeded fault: a waiting request goes on under the revision it saw itself.
StoreReportsOwn(r) ==
    /\ render[r].at = "store"
    /\ inflight' = Without(inflight, {render[r].s})
    /\ events' = Cached(r)
    /\ render' = [w \in Renders |->
                IF w \notin Receivers(r) THEN render[w]
                ELSE IF render[r].content = Failed THEN NoRender
                ELSE [render[w] EXCEPT !.at = "render", !.content = render[r].content]]
    /\ UNCHANGED <<source, ansi>>

\* The parse is over: it leaves the table, its events may be cached, and every
\* request that waited gets its events and its revision, or its error.
Store(r) ==
    /\ render[r].at = "store"
    /\ inflight' = Without(inflight, {render[r].s})
    /\ events' = Cached(r)
    /\ render' = [w \in Renders |->
                IF w \notin Receivers(r) THEN render[w]
                ELSE IF render[r].content = Failed THEN NoRender
                ELSE [render[w] EXCEPT !.at = "render", !.rev = render[r].rev, !.content = render[r].content]]
    /\ UNCHANGED <<source, ansi>>

\* renderEventsFor: the edits, tool outputs and positions need no more than the events.
AnswerEvents(r) ==
    /\ render[r].at = "render"
    /\ render' = [render EXCEPT ![r].at = "done"]
    /\ UNCHANGED <<source, events, ansi, inflight>>

AnsiHit(r) ==
    LET k == <<render[r].s, render[r].rev>> IN
    /\ render[r].at = "render"
    /\ k \in DOMAIN ansi.entries
    /\ ansi' = Touch(ansi, k)
    /\ render' = [render EXCEPT ![r].at = "done", ![r].content = ansi.entries[k].content]
    /\ UNCHANGED <<source, events, inflight>>

\* The mutex is given up for the time of the formatting.
AnsiMissed(r) ==
    /\ render[r].at = "render"
    /\ <<render[r].s, render[r].rev>> \notin DOMAIN ansi.entries
    /\ render' = [render EXCEPT ![r].at = "format"]
    /\ UNCHANGED <<source, events, ansi, inflight>>

\* Seeded fault: the existence guard after the format pass is missing.
StoreAnsiAgain(r) ==
    LET k == <<render[r].s, render[r].rev>> IN
    /\ render[r].at = "format"
    /\ ansi' = Insert(ansi, k, [content |-> render[r].content, bytes |-> Size(render[r].content)])
    /\ render' = [render EXCEPT ![r].at = "done"]
    /\ UNCHANGED <<source, events, inflight>>

\* Somebody else may have inserted the same render meanwhile.
StoreAnsi(r) ==
    LET k == <<render[r].s, render[r].rev>> IN
    /\ render[r].at = "format"
    /\ ansi' = IF k \in DOMAIN ansi.entries THEN ansi
               ELSE Insert(ansi, k, [content |-> render[r].content, bytes |-> Size(render[r].content)])
    /\ render' = [render EXCEPT ![r].at = "done"]
    /\ UNCHANGED <<source, events, inflight>>

\* The answer is out.
RenderAnswered(r) ==
    /\ render[r].at = "done"
    /\ render' = [render EXCEPT ![r] = NoRender]
    /\ UNCHANGED <<source, events, ansi, inflight>>

\* What the server does for a request once it has arrived.
Serve(r) ==
    \/ EventsHit(r) \/ Join(r) \/ Lead(r) \/ Parse(r) \/ Store(r)
    \/ AnswerEvents(r) \/ AnsiHit(r) \/ AnsiMissed(r) \/ StoreAnsi(r)

CacheNext ==
    \/ \E s \in Sessions : Grow(s) \/ Drift(s)
    \/ \E r \in Renders : Serve(r) \/ RenderAnswered(r) \/ \E s \in Sessions : Arrive(r, s)

CacheSpec == CacheInit /\ [][CacheNext]_cacheVars

(*******************************************************************************)
(* Properties.                                                                 *)
(*******************************************************************************)

EventsEntries == [rev : Versions, content : Contents, bytes : Nat]
AnsiEntries == [content : Contents, bytes : Nat]
Lookups ==
    [at : {"lookup", "wait", "parse", "store", "render", "format", "done"},
     s : Sessions, rev : Versions, content : Contents \cup {Failed}]

CacheShape(cache, keys, entries) ==
    /\ DOMAIN cache = {"entries", "lru", "bytes"}
    /\ DOMAIN cache.entries \subseteq keys
    /\ cache.entries \in [DOMAIN cache.entries -> entries]
    /\ cache.lru \in Seq(keys)
    /\ cache.bytes \in Nat

\* The shape of the state: what is cached, which sessions are being parsed, and
\* which content a request carries.
CacheTypeOK ==
    /\ source \in [Sessions -> Contents]
    /\ CacheShape(events, Sessions, EventsEntries)
    /\ CacheShape(ansi, Sessions \X Versions, AnsiEntries)
    /\ DOMAIN inflight \subseteq Sessions
    /\ inflight \in [DOMAIN inflight -> Renders]
    /\ render \in [Renders -> {NoRender} \cup Lookups]

CacheOK(cache) ==
    /\ IsInjective(cache.lru)
    /\ Range(cache.lru) = DOMAIN cache.entries
    /\ cache.bytes = Bytes(cache.entries, DOMAIN cache.entries)
    /\ cache.bytes <= MaxBytes

\* The books of both sub-caches are right at every moment: each entry is in the
\* order of use once, what is counted is what is kept, and it is within the budget.
\* An element of the order without its entry would make the next eviction panic.
BooksBalance == CacheOK(events) /\ CacheOK(ansi)

\* The main transcript in what is cached under a revision is never older than that
\* revision, whoever parsed it, waited for it or formatted it while the transcript
\* grew; in cached events it is exactly of their revision. Otherwise a repeat open
\* would show an old transcript for as long as the session is written no more. Of
\* the rest nothing is claimed: it may be as old as the entry.
CachedTranscriptCurrent ==
    /\ \A s \in DOMAIN events.entries : events.entries[s].content.main = events.entries[s].rev
    /\ \A k \in DOMAIN ansi.entries : ansi.entries[k].content.main >= k[2]

\* A session is parsed by one request at a time, the one in the table, and nobody
\* waits for a parse that is not under way.
ParsedOnce ==
    /\ \A s \in DOMAIN inflight :
        {r \in Renders : render[r].at \in {"parse", "store"} /\ render[r].s = s} = {inflight[s]}
    /\ \A r \in Renders : render[r].at \in {"parse", "store", "wait"} => render[r].s \in DOMAIN inflight
=============================================================================
