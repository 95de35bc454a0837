# Session Insight in TLA+

Session Insight is a local server that lists, indexes, replays and analyses the
transcripts that coding agents (Claude Code, Codex, Grok, ...) leave on disk. The
agents write whenever they like and know nothing of the reader; the server keeps a
SQLite index, a set of in-memory caches and any number of browser clients in step
with files it does not control. That is where its difficulty lies, and what the
modules of this directory are about.

## Inventory

| Component | State | Operations | Talks to | Hard behaviour |
|---|---|---|---|---|
| File watcher (`internal/watch`) | pending timer and its deadline, watched directories | `handleEvent`, `trigger`, timer callback | fsnotify, `KickAgent` | event storms, events at the moment the timer fires |
| Index scheduler (`internal/indexer`: `Kick`, `KickAgent`, `RunBackground`) | recorded requests, one-slot `kick` channel | record, notify, take, tick, stop | watchers, index cycle | record and token are two steps; ticker, token and context share one select |
| Index cycle (`indexOnce`, `indexReaderSessions`) | worker pool, jobs, results, progress | list, dispatch, index, collect, tombstone | readers, pipeline, `OnChanged` | cancellation against a dispatcher, workers and a collector |
| Session pipeline (`indexSession`, `handleReadFailure`, the stores of `internal/db`) | rows of a session in eight tables, watermark, verify cache | decide, verify, read, write, fail, tombstone | readers, Git evidence, handlers that delete | separate transactions, a source that moves, crashes |
| Git evidence (`indexer/git_evidence.go`, `internal/gitevidence`) | binding, snapshots, files, patches | bind, capture, recheck, derive, publish | git, pipeline, Change Requests | staged publication, source recheck, a pass beside users who bind |
| Change Requests (`db/change_request_store.go`, `change_request_link_store.go`, `changehost/sync.go`) | cached versions and their head, links, confirmations, published authority | synchronise, bind, unbind, demote, delete content | hosted Git services, Git evidence | responses out of order, a confirmation that outlives what it confirmed |
| Collaboration graph (`internal/collaboration`) | none that lasts: the maps of `Validate` | validate, project canonical parents | readers, pipeline | graphs in circles, duplicates, missing invocations |
| Session list, ETag and events (`server/events.go`, `handleListSessions`) | list revision, subscribers | list, notify, subscribe | clients, `OnChanged` | a change between a client's list and its subscription |
| Replay cache (`server/replay_cache.go`) | parsed events by session, in-flight parses, LRU sizes | `eventsFor`, `renderANSIFor`, evict | readers, live-tail clients | joined parses, a file that moves while it is parsed |
| Terminal resume (`server/resume.go`, `internal/terminal`) | binding of a session to a process | resume, poll, focus | operating system | two resumes at once, processes that die or are reused |
| Quota manager (`internal/quota`) | snapshots per provider with two lifetimes | fetch, refresh | provider APIs | failures beside older good data |
| Language models (`internal/llm`) | ACP connection: pending calls | call, dispatch, cancel | child process | answers, cancellation and process death race |
| AI generations and Deep Insight (`server/llm_handlers.go`, `insight_handlers.go`) | generation rows | start, finish, list | language models | a session that moves during a generation |
| Change hosts (`internal/changehost`, `server/change_host_profiles.go`) | profiles, credential references, fetched change requests | create, test, update, sync | hosted Git services | credential store and database in two steps |
| Import and export (`internal/bundle`, `server/import_export.go`) | import records, bundles | export, import, delete | imported reader | duplicate imports, half-written files |
| Readers (`internal/reader/*`) | none of their own | list, read, stat, delete | agent files | formats; listing and reading are not atomic |
| Render, presentation, analytics | none | pure functions | | |
| Frontend | React state | | HTTP API | |
| Reference manager (`developer/agent-adapters/reference-manager`) | work orders, locks | | git | a developer tool |

What makes each correct, in a line: the watcher forgets no event and is never late;
the scheduler serves every request and is not starved; the cycle attempts every
listed session once and ends; the pipeline ends up mirroring the source and never
skips an incomplete session; evidence is published whole; a client ends up with the
newest list; the transcript in what the replay cache answers is of the revision it says; one launch of a
session at a time; a generation ends and is whole; a host whose approval is revoked is
asked no more; a confirmation never outlives what it confirmed; every parent chain of a
collaboration graph ends; a quota is never older than it says.

## Modules

| Module | Models | State |
|---|---|---|
| `IndexScheduler` | `Kick`, `KickAgent`, `notify`, `takeRequests`, `RunBackground` and the reader loop of `indexOnce` | request flags, the channel, the loop's position |
| `WatchThrottle` | `Watcher.trigger` and the timer callback, in discrete time | timer, time left, callbacks under way |
| `IndexCycle` | `indexOnce` and `indexReaderSessions`: listing, dispatcher, workers, collector, omissions, progress | caller's position, plan, pool, channels, totals |
| `IndexRound` | what a cycle promises, without goroutines or channels | listed, indexed, tombstoned, outcome |
| `SessionIndex` | `indexSession` with everything it calls that changes state, `handleReadFailure`, tombstones, `handleDeleteSession`, `handleRemoveFromIndex` | source, rows, process memory, worker and handler positions |
| `ChangeRequests` | provider synchronisations, the hosted-change cache and its heads, links, confirmations, demotion | host, requests in flight, cache rows, links, authority |
| `GitEvidence` | the pass of `git_evidence.go` on top of `ChangeRequests` | stored row, patches, snapshots, the pass and its copy |
| `ReplayCache` | `eventsFor`, `renderANSIFor` and the two LRU sub-caches | transcripts, entries and bytes, parses in flight, requests |
| `ReplayTail` | an open replay and its live tail, on top of `ReplayCache` | the screen, the page's requests, the polling loop, the live window |
| `SessionList` | list revision, hub, event stream, conditional list request, sidebar | both ends of the stream, requests in flight, browser cache |
| `Generation` | one streamed AI generation over an ACP connection | two goroutines, mutex, pipes, agent, pending calls |
| `ChangeHosts` | approval, revocation and profile life cycle of one change host | lifecycles, registered parsers, capabilities, requests |
| `TerminalResume` | status, resume and binding of one session | live tabs, binding, `resumeInFlight`, requests |
| `CollaborationGraph` | the loop of `Validate` that derives canonical parents | the loop's maps |
| `SessionIndexProofs`, `IndexCycleProofs`, `ChangeRequestsProofs`, `GitEvidenceProofs`, `ReplayCacheProofs`, `GenerationProofs` | the theorems about the module they are named after | |
| `HandlersProofs` | the theorems about `IndexScheduler`, `WatchThrottle`, `ChangeHosts`, `TerminalResume`, `CollaborationGraph` and their sum `MCHandlers` | |
| `Counting` | lemmas without a model: least members, induction over a set, sums as sets of pairs | |
| `MC*` | the instances TLC checks | |

How they fit together: `WatchThrottle`'s callback is a caller of `IndexScheduler`
(`OnChange` calls `KickAgent`); the pass of `IndexScheduler` is a cycle of
`IndexCycle`, which it sees only through the order of its listings; the step
`IndexSession` of a worker of `IndexCycle` is a pass of `SessionIndex`, which may
assume that no other worker holds its session because `IndexCycle` keeps
`OneWorkerPerSession`. `IndexCycle` tells `SessionIndex` when a tombstone may be
written: after a complete inventory whose sessions were all indexed. The step
`IndexSession` ends in "same", "changed" or "failed", which is what `SessionIndex`
returns to it. The change that a cycle announces at its end (`announced` in `IndexCycle`)
is a change of `SessionList`, whose notifier "index" is that cycle. The Git part of
`SessionIndex` is one step; `GitEvidence` opens it up. The modules named in this
paragraph are composed by these contracts and not as one state machine: their product is
far out of TLC's reach.

Two modules are composed in full: `GitEvidence` EXTENDS `ChangeRequests`, so that its
behaviours are those of all the handlers and of the pass on the same rows, and
`ReplayTail` EXTENDS `ReplayCache`.

`MCHandlers` and `MCStreams` are sums, not compositions: they put parts that share no
state into one run, with a variable `part` that picks the part which moves. No part reads
a variable of another, so what a property of one part sees of a behaviour is the same
whether the others move or not. `MCHandlers` EXTENDS its five parts, `MCStreams` EXTENDS
`IndexScheduler` and `Generation` and instantiates `ReplayTail` and `SessionList`. The lemma `PartsAreThemselves` proves the
claim of `MCHandlers`: the sum implies the specification of every part.

### IndexScheduler

A caller (a watcher callback, or `main`) records its request under `requestMu` and,
after the unlock, sends a token into a channel of capacity one with a default case.
The loop selects among tick, token and context, takes the requests and makes a pass.
The history variable `owed` holds the agents whose request no pass has served by
listing them afterwards. `NoLostRequest` is the reason why the two-step protocol
works; `RequestServed` is what callers rely on, without any help of the ticker;
`ReconcileRecurs` and `StopsWhenCancelled` rest on strong fairness of the select
cases: Go's `select` picks uniformly among the ready ones.

`ScopedPassStaysScoped` is not true of this code: with two watchers a token may arrive
after its request was served, and an empty agent set filters nothing.

### WatchThrottle

Ticks of a discrete clock; `Fast` and `Slow` keep the order of the 500 ms and 5 s
windows. A timer fires exactly on time (the action `Tick` waits for `Fire`), its
callback may run arbitrarily late, as a goroutine may. `waiting` measures, per kind
of event, how long the oldest unreported one has waited.

### IndexCycle and IndexRound

One cycle from its first listing to its return. A goroutine is a worker, the dispatcher
(`jobsOpen` while it runs), the closer of `results` (`resultsOpen` while the collector's
range goes on) or the caller. A send on an unbuffered channel and its receipt are one
step: `Dispatch` for `jobs`, `Collect` for `results`. Where both the channel and
`ctx.Done` are ready, either case is taken. The context may end between any two steps.
A worker's element of `worker` is "gone", "wait", "busy", or the result it is sending.

A dispatcher that has lost its workers to the cancellation may still be in its select
when the caller goes on with nothing left to collect; it closes `jobs` later. The model
lets it, and `CycleReturns` says that it does.

`IndexRound` forgets all that. Its refinement mapping is at the end of `IndexCycle`: a
session is indexed when `indexSession` has been called for it, and a change or an error
counts from the moment a worker found it, so that a result lost on its way through the
channels would be a step `IndexRound` does not have. A round that is told "ready" or
"errors" left nothing out; only the end of the context excuses the others, and only then
may a round with changes end without an announcement.

### SessionIndex

One session, one worker: two workers never hold the same session and share no row.
Contents are version numbers, so that a table's content is the version it was derived
from. Each read of the source and each transaction is one step; `pc` names the step of
`indexSession` that comes next. The two optional reader interfaces that change the
control flow are constants: `Authoritative` (Codex) and `Collaborates`.

The database rows are one record `row`; `memory` is what a crash loses. The
environment may append, rewrite in place with the old `UpdatedAt`, rewrite
"stealthily" with the old size and modification time, remove and restore the source.
Faults are drawn from a budget: an incomplete inventory, a typed read failure, an
untyped error, a failed transaction, a crash. The readers that are modelled hand over the
provenance of what they read, without which `ReplaceSessionSnapshot` leaves the capture
state alone; only Hermes has none, and its inventory is never complete.

### ChangeRequests

One hosted Change Request with content versions, which the host changes as it likes. A
synchronisation takes its start time (`StartSync`), gets an answer whenever the host is
ready (`FetchSnapshot`), and commits it in one transaction (`StoreSnapshot`), so that any number
overlap and commit in any order. A request that names a version (a historical
synchronisation, `want` not `None`) is stored but never becomes the head. Handlers that
bind take two steps: they read the graph's revision, and the link is stored later by a
transaction that checks it again (`ReadGraph`, `Bind`). `DeleteContent`, and `Bind` of
an existing link, are operations of the store that no handler calls today; they are
modelled as callable at any time, so that the properties do not depend on who calls them.

`CacheHeadAgrees` relates three tables; `ArrivalOrderIrrelevant` compares the cache with
the history variable `responses`, from which the right contents can be read off without
regard to order. `ConfirmedLinksCurrent` and `HostedAuthorityJustified` say that every
write which moves a head, a content or a graph finds all the confirmations it leaves
behind. A link needs a binding with a row of evidence; the code checks the binding and
reads the row, which one transaction writes together and nothing deletes alone. Merging the
fields of metadata is data.

### GitEvidence

The pass of one binding takes up to eight steps: it reads row and links, publishes what
is known, captures, checks the source again, derives local files, stores the patches, and
makes them visible. Its copy of the row is a record of `pass`; `row` is what is stored.
Between two steps users bind and unbind, responses demote, the transcript grows and the
process may die, which loses `pass` and nothing else. File lists are abstracted to the
revision of the transcript they were derived for, which is what "the old file set under
the new revision" tells apart; what git finds in a worktree is external.

`BindingCopy` has a fallback for a selected link that is not current. It is translated
and `ConfirmedLinksCurrent` shows why a pass that has just read the links never needs it.
`NoOldFilesUnderNewRevision` quotes a comment that the code does not keep: files of an
older revision stay in the row while a hosted change has the authority, and they are
there when it is given back, until the next pass.

### ReplayCache and ReplayTail

A request is a small program: look at the revision, look into the cache, wait for a parse
in flight or parse, look at the revision again, store, render, store. Each section under
the mutex is one step, and a transcript may grow between any two. Bytes are counted as
the code counts them, so that `BooksBalance` also says that eviction stops where it should.

What a parse returns is a pair. `main` is the version of the main transcript, and it is
also what `LiveRevision` tells, which is a stat of that file. `rest` moves without the
revision (`Drift`): the files of subagents that the Claude reader splices in, and the row
of a turn in progress, which `TrailingInProgress` adds or not by the clock. The cache
looks at the revision alone. `CachedTranscriptCurrent` therefore speaks of `main`; of
`rest` the code promises nothing, and an entry may keep it for as long as it lives.

In `ReplayTail` one browser opens a replay: the first render is asked for and shown, the
details of the session come in and may start the polling loop anew, the loop polls the
revision, refetches when it moved and once more when the session has been quiet for the
live window. `refreshContent` does nothing before the first render is on the screen. A
loop that was left behind may still have a refetch under way, whose answer is shown all
the same. A poll that fails ends its loop for good (`PollFails`); a refetch that fails
counts as one without news. `TailCatchesUp` needs the second look at the revision, since
what a refetch gets may have been parsed by somebody else, earlier, and it needs that the
loop remembers the revision it polled before the refetch and not the one after it.

`TailCatchesUp` exempts two situations in which the code really leaves the page behind:

- a loop that a failed poll has ended. Nothing polls again until the effect restarts;
- a cleanup that was used up when it could not help ("spent"): a page that opens an idle
  session polls at once, before its first render is on the screen, `refreshContent` does
  nothing, and the cleanup counts as made. If the session was written between that render
  and that poll, the older render stays until the next write. The comment at
  `ReplayView.tsx:610` means to prevent this ("Do not consume the one-shot cleanup before
  its control exists"), but the control exists before it has written anything.

The limits of the module: the first render is answered, and parses for this page succeed
(a failing parse is in `ReplayCache`); within the tail `rest` moves only when the live
window ends; at most two refetches are under way at once; resizing, which renders at
another width under another key, is left out.

`StaleRowCleared` is what the comment on the one-shot cleanup promises: after it the row
of a turn in progress is gone. It does not hold (the run `replay_row`): the refetch hits
the entry that was parsed within the window.

### SessionList

A change is committed, the revision bumped, and every subscriber's channel of capacity
one is offered a ping, in three steps of a notifier. A list request compares its ETag and
then queries. The browser has an HTTP cache, an `EventSource` that reconnects by itself,
a throttle timer and a flag for a ping that came during a refetch. A restart of the server
begins a new `epoch`, which is the half of the ETag that prevents a new revision from
passing for an old one. A request fails only with the server. The several queries of one
list request are one step (`Query`): each reads committed rows, and a change committed
between two of them bumps the revision afterwards and pings. A list that is degraded
because a collaboration query failed is left out.

`PingsAreServed` is about pings this browser was sent, counted from the end of its
opening request. The stronger `ListCatchesUp` does not hold: `handleEvents` flushes its
greeting before it subscribes.

### Generation

The handler's goroutine makes four calls (`initialize`, `session/new`, the choice of the
model, `session/prompt`), the reader goroutine handles the agent's lines, and both write
under `c.mu` into a pipe with room for `PipeRoom` messages. The agent is not fair: it may
stall, stop reading, or exit at any point. The context ends at any moment, and it does
end; it kills the process, after which nobody who writes or reads is blocked. That the mutex is held
across a blocking write is the reason why `GenerationEnds` had to be checked; the run checks it as
`GenerationAlwaysEnds`, which is `GenerationEnds` of the part that moves.
The first output is announced on the handler's stream by the reader goroutine, under
`streamMu` and for as long as the browser takes to receive it (`AnnounceOutput`,
`Announced`); the fairness assumes that a browser takes what is written to it or has gone.
`LastEventIsLast` is stated and not checked: the mutex keeps the two writers apart, but a
reader that comes for it late may write after the handler's last event.

`GenerationWhole` takes from the protocol that an agent's output comes before its answer.

### ChangeHosts

Handlers of one host and its profile revisions: preview, approve, revoke; import, map,
probe, verify, activate; the requests that ask the host for something. Each database
statement, each section under `hostMu` and each network call is one step, and `Requests`
of them overlap. A restart loses capabilities and parsers. A document is kept as
"validates" or not.

`RevocationHolds` speaks about requests that come in after the revocation returned. Not
modelled: the refresh of built-in hosts, which have no profile, the lifecycle "invalid",
`DeleteChangeHostProfile`, `handleTest` (a probe without consequence), and credentials: a
request that fails for want of one after it has its capability ends like one the policy
refuses. A request may go on with an answer that arrived before the revocation; any further
call of it is checked again.
`RevokedStopsParsing` is stated and not checked: two refreshes of the parsers may replace
the registry in the wrong order, so that a revoked revision is parsed until the next one.

### TerminalResume

Polls and resumes of one session. A session counts as live by its process or by a recent
transcript. Each look at the process table, each read and write of the binding and the
in-flight flag is a step of its own. An agent somebody starts in a terminal of their own
runs `Elsewhere`. `TabNotInherited` is stated and not checked: a poll that read the
binding before another one saw its agent stopped may write it back as active, and a later
run elsewhere then inherits the tab.

### CollaborationGraph

The loop over the sorted delegations, one iteration a step, over any graph a parser might
produce. `createsCycle` climbs the parents found so far without a bound, so the forest is
what makes it end. Its climb is modelled as membership in the smallest set closed under
"parent of", which needs no recursion. `QuarantinedIsExcluded` is the comment on
`Quarantined`; it is stated and not checked: an identifier may be quarantined for its
second use after its first became canonical.

## Runs, bounds and what they show

Passing runs:

| Run | Question | Bounds |
|---|---|---|
| `cycle` | one worker per session, quiet ends, honest progress, return, the promises of `IndexRound` | two readers (a pool follows a pool), up to three sessions for two workers (a worker takes a second job), full and scoped |
| `session_plain` | the pipeline of an ordinary reader with a graph, with appends, both handlers and faults | three versions (a write between any two reads and one after), two removals, one fault, no crash |
| `session_authoritative` | the verify cache under rewrites of every kind, deletions, faults and crashes | three versions, one removal, one fault or crash |
| `changes` | the cache does not depend on the order of responses, and no confirmation or authority outlives what it confirmed | two versions, two synchronisations (they overlap and overtake), one change at the host, two bindings, two links (a second confirmation takes the first one's place), two graph revisions; 308,414 states |
| `evidence` | a visible patch belongs to its files, local files to their revision, hosted authority stays backed although passes publish copies | as above with one binding and one link, three transcript revisions (a pass overtaken twice), one crash; 3,343,772 states, about a minute |
| `handlers` | a watcher forgets nothing and is never late; the replay cache keeps its books and caches no transcript under a newer revision; revocations hold and verified documents stay; one launch at a time; canonical parents form a forest | windows 2 and 5 with two late callbacks; three sessions for two requests, a budget for two or three entries, one growth with and one without the revision; two requests and two profile revisions; two requests, one launch, one outside run; any graph of three invocations and three delegations; 4,066,931 states, two minutes |
| `streams` | the scheduler loses nothing, serves every request, is not starved and stops; a replay and a session list catch up; a generation ends and is whole | two agents, two callers (enough for a token that comes late); one growth and one drift of the transcript, the first render and two refetches (one of a loop left behind); three changes, two notifiers, one drop or restart; pipes for two messages, two pieces of output, two permission requests; 102,081 states, two to three minutes |

A session run with one fault shows that no single failure, wherever it falls, breaks the
property; two faults in one history are not explored by these runs. The proofs below allow
any number, except for `SkipSound`. Versions, bindings and links are symmetric in `changes` and
`evidence`, which check invariants only.

Deadlock is checked in the session runs. Elsewhere the system rests when it is done or the
budgets are spent: a cycle that has returned has nothing left to do, nor has a scheduler
that was stopped, a generation, a loop at its last delegation, or a host that nobody asks. Where something
must happen before that rest, a liveness property says so.

Each remaining run is one TLC must find violated: a disagreement between the code and
what its own comments, tests or documents say. `PROJECT.json` quotes them under
"findings".

| Run | Property | What the code does |
|---|---|---|
| `session_resurrect` | `DeletedStaysDeleted` | a pass that had read the source writes the rows back after they were deleted |
| `evidence_confirmed` | `ConfirmationSurvivesPass` | a pass that had read the links before a user confirmed one publishes its own authority over the user's |
| `replay_row` | `StaleRowCleared` | the one-shot refetch after the live window is answered from the cache, with the row it is to remove |
| `list_lost` | `ListCatchesUp` | a change between the stream's greeting and its subscription reaches no client |
| `hosts_verified` | `VerifiedIsValidated` | a mapping that replaces a draft after its validation is verified unvalidated |

Smaller disagreements are stated as properties beside the others, each with the comment
it quotes, and belong to no run: `ScopedPassStaysScoped`; `OrphanSwept` (rows whose
deletion failed become a tombstone and stay), `FailureLeavesNoHits` (a read failure cut
short leaves search hits of a metadata-only session), `ChangesAnnounced` (a change
followed by a failed write is not announced), `OnlyChangesAnnounced` (every cycle
announces the tombstones again), `OnlyMissingRemoved` (a session restored after the check
is removed from the index); `NoOldFilesUnderNewRevision`, `LastEventIsLast`,
`TabNotInherited`, `RevokedStopsParsing` and `QuarantinedIsExcluded`, described above.

### Fairness

Goroutines that can run do run (weak fairness of the loop, of each worker, of the caller,
of the two closing goroutines, of a handler that has begun); `select` is strongly fair
per case, as Go's is random. Listing and indexing a session take a finite time. The
ticker ticks for `ReconcileRecurs`. `VerifiedExpires` is weakly fair: six hours pass.

In `streams`, the first render is answered and refetches that were sent come back while
the server lives, browsers reconnect, timers fire, polls recur and the live window of a
session that is written no more ends; the context of a generation ends, because it has
a deadline, and a cancelled context kills the process, because `exec.CommandContext`
does. Fairness is per thread: each request, caller, goroutine or browser is fair on its
own. `StreamsFairness` repeats the four parts' conditions for the part that moves.

No agent has to write, answer or exit, no fault has to happen, no client has to call, no
connection has to drop.

## Proofs

Every invariant and every action property of the passing runs, and the refinement of
`IndexRound`, is a theorem: TLAPS proves it for every value of the constants that
satisfies the named assumptions of the modules. Apart from bounds
being numbers and special values differing from ordinary ones, these ask for a pool and
windows that are not empty, for identifiers that are ordered, for finitely many requests
at a host, and for `Fast < Slow`. One theorem, `SkipsAreSound`, has a hypothesis of its
own. The invariants it and its neighbours rest on were first checked by TLC, as
invariants of the same runs.

### Scheduler and throttle (`HandlersProofs`)

`IndexScheduler`: `TypeOK` and `NoLostRequest` for every set of agents and callers:
a recorded request has a token in the channel, a caller on its way to send one, or a loop
that is about to take it. The invariant is inductive once the types are known.

`WatchThrottle`: `NothingForgotten`, `NeverLate` and `Throttled` for all windows
with `Fast < Slow`. `NeverLate` needs `NothingForgotten`: only because
no event waits when there is neither timer nor callback may a write take the slow window.
`Throttled` needs that an armed timer's remaining time and the time
since the last firing add up to at least `Fast` (`GapOK`).

### Cycle (`IndexCycleProofs`)

`TypeOK`, `OneWorkerPerSession`, `PoolQuiet`, the refinement `ImplementsRound` and
`ProgressHonest`, for any number of readers, sessions and workers. None of them is
inductive alone; `IInv` adds what each goroutine knows of the others:

- `Planning`, `InOrder`: readers are planned, indexed and marked in order;
- `Channels`: the range over `results` goes on only in a pool and ends only when the
  workers are gone, and unless the context ended a dispatcher that has not closed `jobs`
  still has its first worker. This is what makes the dispatcher hand out everything;
- `HandedOut`: a position handed out is in one worker's hands or was indexed. At the end
  of a pool without cancellation, `Channels` and `HandedOut` give `PoolComplete`: the
  reader's listed sessions are exactly its indexed ones;
- `Uncut`, `Summed`: so it is for all earlier readers, and what they found is in the
  totals. This is what `Finish` needs to be a step `End` of the round.

The refinement is a lemma per action: seven of them are the round's own steps, `EndPool` is
one when the context ended, the rest are stutters.

`ProgressHonest` is about numbers that the code adds up: how many sessions all readers
list, and how many are done. `MeterInv` says what these numbers count. `Once` and
`WithinList`: a session is indexed at most once, and only if it was listed. `Counted`:
`done` and the results still on their way to the collector make up the sessions that were
indexed. `Shown`: what is shown is no more than `done`, of all that was listed. A percentage
of 100 then means two finite sets of the same size, one within the other. The total is a
running sum over the readers; `TotalIsListed` turns it into the size of the set of listed
sessions by `PairsSum` of `Counting`.

### Sessions (`SessionIndexProofs`)

`TypeOK`, `WatermarkHonest`, `VerifiedHonest`, `NoFalseTombstone` and `TombstoneKept`, for
every reader, any number of versions and any budget of faults, removals and crashes. Three
lemmas say once what a step can do to the row, to the source and to the worker's locals
(`RowSteps`, `SourceSteps`, `JobSteps`), and the arguments build on them.
`WatermarkHonest` (`DetailFresh`) rests on what the worker's local variables know: the
listed revision it will commit as the watermark was taken before the detail it will commit
as the turns, and versions only grow. `VerifiedHonest` (`StatsOrdered`) rests on the order
of the stat and the read: the stat in hand is no newer than the bytes in hand.
`NoFalseTombstone` (`MissingSeen`) needs that a worker about to mark has a complete
inventory without the session, or a read that found no source.

`SkipSound` (`SkipsAreSound`) is about state, turns, creation evidence and graph of a row:
all at least as new as the listed revision and, for an authoritative reader, turns and
evidence of one capture; search hits and usage it does not mention. It holds under `FewFaults`, no condition of which can simply be
dropped. Either no transaction ever fails and the process lives, while listings, reads and
queries may fail any number of times; or at most one thing goes wrong, which may be a
crash only if the reader is authoritative. TLC refutes it with any of these lifted: a
failed read whose record fails half way through its four transactions, or is cut short
there by a crash, leaves a session that is skipped although it is metadata-only; a
transaction that fails after the snapshot, and then the clearing of the watermark that
this calls for, leave creation evidence of an older revision; so does, for an ordinary
reader, one crash between the snapshot and the creation evidence, because any evidence
counts as current. The invariant `SkipInv` follows what is stored and what the worker
holds: a row with a watermark is `Whole` except while a failure is being written; creation
evidence that does not go with the turns (`Parted`) is about to be written, about to lose
its watermark, or was never verified (`PartsAgree`); what the worker compared when it
decided is still so when it skips (`Gates`), because nobody else writes the row but the
handlers that delete it.

### Change Requests and Git evidence

`ChangeRequestsProofs`: `ChangeTypeOK` and the four invariants of the run `changes`, for
any number of versions, bindings, links, overlapping synchronisations and graph revisions.
Two strengthenings carry them. `Backed` is the chain from an authority to its
confirmation, from that to a cached version and from that to the head; demotion has to
cut it at the link nobody else holds. `Ordered` says that no two requests have the same
start time, that the head is of the latest current response, and each version's metadata
of the latest response for it; a transaction that is too late then changes nothing.

`GitEvidenceProofs`: `EvidenceTypeOK`, `PatchesBelongToFiles`,
`LocalFilesAreOfTheirRevision` and, once more, `HostedAuthorityJustified`, now that passes
write authority too. `PassAgrees` says what a pass may know at each of its positions: its
copy's hosted authority was backed by links it has seen, its copy's files belong to the
retained patches, and between the staged and the exact publication no patch is visible.
The steps of the handlers are cited from `ChangeRequestsProofs` and not proved again.

### Change hosts, resume and graphs (`HandlersProofs`)

`ChangeHosts`: `RevocationHolds`, `RevisionsImmutable` and `HostsTypeOK` for any number of
overlapping requests and profile revisions. The invariant `Controlled` has three parts:
a request that came in after the revocation is blocked by every capability it could hold
(`LateIsBlocked`), a draft is imported by one request alone (`ImportsAlone`), and every
check in a request's hands is one the handler makes (`ChecksAreKnown`). The types hold
more than types: no two revisions are active (`OneActive`), and a token is free whenever a
capability is made, by counting those that are held (`SomeTokenIsFree`).

`TerminalResume`: `ResumeTypeOK` and `LaunchesExclusive` for any number of resumes. While a
request launches the flag is set, and no other request launches (`FlagGuards`); a restart
of the server takes flag and requests together.

`CollaborationGraph`: `GraphTypeOK` and `ProjectionIsForest` for graphs of any size. No
induction is needed: were there a set in which everybody has a parent after an edge was
added, its part inside the set closed under parents would have been one before, or the
new edge would have closed a circle that `CreatesCycle` refuses.

`HandlersTypesCorrect` puts the five parts of `MCHandlers` together: `HandlersTypeOK`.

### Replay cache (`ReplayCacheProofs`)

`BooksBalance`, `CachedTranscriptCurrent` and `CacheTypeOK` for every budget and any number
of requests and sessions, and `ParsedOnce`, which no run checks. `Bytes` adds up
what the entries take, one chosen entry after the other; `SumIsUnique` shows that
the choice does not matter, so that an entry that joins or leaves adds or takes its own
size (`BytesAdds`, `BytesRemoves`). Each operation on a sub-cache then keeps its books
(`TouchIsSound`, `DropIsSound`, `InsertIsSound`), and eviction ends at the
budget without a lookup of something that is not there (`EvictIsSound`). `Carried` is the
reason why no old transcript is cached: the one in a request's hands is of a version
between the revision it was looked up under and the one the source has now, and events
are cached only if these agree.

### Generation (`GenerationProofs`)

`GenerationTypeOK` and `GenerationWhole` for every room in the pipes. The prompt is in one place at
a time, in a pipe, with the agent, or answered (`PromptOnce`), so there is one answer; no
output comes after it (`AnswerLast`); and text, reader and pipe hold the agent's output,
each piece once and in order (`OutputInOrder`). When the answer is received, all of the
output is in the text. Nothing is said of how the agent ends: the outcome is decided before
`close` kills it.

### Sums without induction

The provers cannot instantiate a theorem whose parameter is an operator, which is how the
libraries state induction. `Counting` avoids it: `Less` is well-founded by a library
theorem about relations, so every set of naturals has a least member, and a set that
holds 0 and all successors is `Nat` (`Induction`). A sum `c[1] + ... + c[n]` is the size
of a set of pairs (`PairsSum`), and sizes of finite sets add up by `FS_AddElement` and
its neighbours. `ReplayCacheProofs` does the same for the recursive sum of the community
module, by the set of sizes for which it is right.

### Only model-checked, and why

Liveness under fairness, which the prover does not reach: `RequestServed`,
`ReconcileRecurs`, `StopsWhenCancelled`, `CycleReturns`, `Converges`, `TailCatchesUp`,
`PingsAreServed`, `GenerationAlwaysEnds`. No invariant and no action property of a passing
run is left to TLC alone, except `SkipSound` with more faults than `FewFaults` allows,
where it is false.

## What is left

1. The types of `SessionList` and `ReplayTail`, whose runs check liveness only, and a
   proof that an ETag never stands for two lists.
2. `QuotaManager`: two lifetimes of a snapshot beside failures.
3. `ImportRecords`: duplicate imports and half-written bundles.
4. `SessionIndex` with `GitEvidence` in place of its one Git step, for one version.

## Not modelled

- Agent readers, bundle formats, render, presentation and analytics transform data and
  keep no state. They are most of the code, which is why the modules cover a small share
  of its lines: what the indexer relies on of a reader is in `SessionIndex`.
- `internal/gitevidence` runs git and reads worktrees; the process finder reads the
  process table. The modules let both find anything.
- The schema and its migrations are SQL; the stores are modelled by their transactions.
- The quota manager and the import of bundles: a cache around HTTP calls, and archive
  I/O around one transaction; independent of everything modelled here.
- The frontend beyond the sidebar and the live tail is presentation; the reference
  manager, scripts and packaging are programs of their own.

`PROJECT.json` lists each component with its reason, and every hazard with the properties
that would notice it or the reason why none does.
