----------------------------- MODULE IndexCycle -----------------------------
(***************************************************************************)
(* One indexing cycle, indexOnce and indexReaderSessions of                *)
(* internal/indexer/indexer.go: the readers are listed first, then each    *)
(* reader's sessions go through a pool of workers over two unbuffered      *)
(* channels, jobs and results, while the context may end at any moment.    *)
(*                                                                         *)
(* A goroutine of the pool is a worker, the dispatcher that feeds and      *)
(* closes jobs, the one that waits for the workers and closes results, or  *)
(* the caller, which collects.  A send on an unbuffered channel and its    *)
(* receipt are one step.                                                   *)
(***************************************************************************)
EXTENDS Integers, FiniteSets

CONSTANTS
    NumReaders,     \* readers the agent filter lets through
    MaxSessions,    \* bound on the sessions a reader lists
    PoolSize,       \* sessionIndexWorkers
    Cancellable     \* TRUE when the context may end

ASSUME SizesAssumption ==
    /\ NumReaders \in Nat \ {0}
    /\ MaxSessions \in Nat \ {0}
    /\ PoolSize \in Nat \ {0}
ASSUME CancellableAssumption == Cancellable \in BOOLEAN

Readers == 1..NumReaders
Positions == 1..MaxSessions
Workers == 1..PoolSize

VARIABLES
    stage,       \* "list", "agents", "pool", "tombstone" or "returned"
    at,          \* the reader indexOnce is at
    plan,        \* planned: per reader its sessions, inventoryComplete and listErr
    worker,      \* "gone", "wait" (for a job), "busy", or the result it is sending
    holds,       \* the position of the worker's job
    size,        \* sessions the dispatcher ranges over
    sent,        \* positions it has handed out
    jobsOpen,    \* the dispatcher runs
    resultsOpen, \* the collector's range goes on
    result,      \* completedResults: per position "none", "same", "changed", "failed"
    changed,     \* changed > 0 over the readers so far
    failed,      \* errs is not empty
    progress,    \* ix.progress
    done,        \* sessions reported by onEach
    cancelled,   \* ctx.Done is closed
    announced,   \* OnChanged was called
    full,        \* the agent filter is empty: the cycle reports its progress
    attempts,    \* history: per reader and position, calls of indexSession
    marked       \* history: readers whose omissions were tombstoned

pool == <<worker, holds, size, sent, jobsOpen, resultsOpen, result>>
totals == <<changed, failed, announced>>
meter == <<progress, done>>
histories == <<attempts, marked>>
vars == <<stage, at, plan, pool, totals, meter, cancelled, full, histories>>

Results == {"same", "changed", "failed"}
NoPlan == [count |-> -1, complete |-> FALSE, failed |-> FALSE]
NoResults == [p \in Positions |-> "none"]

Init ==
    /\ stage = "list"
    /\ at = 1
    /\ plan = [r \in Readers |-> NoPlan]
    /\ worker = [w \in Workers |-> "gone"]
    /\ holds = [w \in Workers |-> 0]
    /\ size = 0
    /\ sent = 0
    /\ jobsOpen = FALSE
    /\ resultsOpen = FALSE
    /\ result = NoResults
    /\ changed = FALSE
    /\ failed = FALSE
    /\ progress = [state |-> "idle", done |-> 0, total |-> 0, percent |-> 0]
    /\ done = 0
    /\ cancelled = FALSE
    /\ announced = FALSE
    /\ full \in BOOLEAN
    /\ attempts = [r \in Readers |-> [p \in Positions |-> 0]]
    /\ marked = {}

-----------------------------------------------------------------------------
(* Progress.                                                               *)

\* The sum of the listed sessions of readers 1..r, all of them listed.
Total[r \in 0..NumReaders] ==
    IF r = 0 THEN 0 ELSE Total[r - 1] + plan[r].count

\* setProgress computes the percentage and caps it.
Percent(state, d, total) ==
    IF total > 0 THEN IF d > total THEN 100 ELSE (d * 100) \div total
    ELSE IF state = "idle" THEN 100 ELSE 0

\* setCycleProgress: scoped cycles stay invisible.
SetProgress(state, d, total) ==
    progress' = IF full
                THEN [state |-> state, done |-> d, total |-> total,
                      percent |-> Percent(state, d, total)]
                ELSE progress

-----------------------------------------------------------------------------
(* indexOnce: the listing.                                                 *)

\* A listing that failed has no sessions and is remembered as an error.
ListReader ==
    /\ stage = "list"
    /\ at <= NumReaders
    /\ ~cancelled
    /\ \E n \in 0..MaxSessions, c \in BOOLEAN, f \in BOOLEAN :
          /\ f => n = 0 /\ ~c
          /\ plan' = [plan EXCEPT ![at] = [count |-> n, complete |-> c, failed |-> f]]
    /\ at' = at + 1
    /\ UNCHANGED <<stage, pool, totals, meter, cancelled, full, histories>>

ListCancelled ==
    /\ stage = "list"
    /\ at <= NumReaders
    /\ cancelled
    /\ stage' = "returned"
    /\ SetProgress("idle", 0, 0)
    /\ UNCHANGED <<at, plan, pool, totals, done, cancelled, full, histories>>

BeginIndexing ==
    /\ stage = "list"
    /\ at > NumReaders
    /\ stage' = "agents"
    /\ at' = 1
    /\ SetProgress("running", 0, Total[NumReaders])
    /\ UNCHANGED <<plan, pool, totals, done, cancelled, full, histories>>

-----------------------------------------------------------------------------
(* indexOnce: the loop over the planned readers.                           *)

AgentsCancelled ==
    /\ stage = "agents"
    /\ at <= NumReaders
    /\ cancelled
    /\ stage' = "returned"
    /\ SetProgress("idle", done, Total[NumReaders])
    /\ UNCHANGED <<at, plan, pool, totals, done, cancelled, full, histories>>

SkipFailedReader ==
    /\ stage = "agents"
    /\ at <= NumReaders
    /\ ~cancelled
    /\ plan[at].failed
    /\ failed' = TRUE
    /\ at' = at + 1
    /\ UNCHANGED <<stage, plan, pool, changed, announced, meter, cancelled, full, histories>>

\* sessionIndexWorkerCount
WorkerCount(n) == IF PoolSize > n THEN n ELSE PoolSize

\* indexReaderSessions up to its range over results; no pool without sessions.
StartPool ==
    /\ stage = "agents"
    /\ at <= NumReaders
    /\ ~cancelled
    /\ ~plan[at].failed
    /\ stage' = "pool"
    /\ LET n == plan[at].count IN
       /\ worker' = [w \in Workers |-> IF w <= WorkerCount(n) THEN "wait" ELSE "gone"]
       /\ size' = n
       /\ jobsOpen' = (n > 0)
       /\ resultsOpen' = (n > 0)
    /\ sent' = 0
    /\ result' = NoResults
    /\ UNCHANGED <<at, plan, holds, totals, meter, cancelled, full, histories>>

-----------------------------------------------------------------------------
(* The pool.                                                               *)

\* Seeded fault: the dispatcher advances when it likes, not when a job is taken.
DispatchTwice(w) ==
    /\ jobsOpen
    /\ sent < size
    /\ worker[w] = "wait"
    /\ holds' = [holds EXCEPT ![w] = sent + 1]
    /\ worker' = [worker EXCEPT ![w] = "busy"]
    /\ sent' \in {sent, sent + 1}
    /\ UNCHANGED <<stage, at, plan, size, jobsOpen, resultsOpen, result, totals, meter, cancelled, full, histories>>

\* Seeded fault: the last position is compared with the wrong bound.
DispatchBeyond(w) ==
    /\ jobsOpen
    /\ sent <= size
    /\ worker[w] = "wait"
    /\ sent' = sent + 1
    /\ holds' = [holds EXCEPT ![w] = sent + 1]
    /\ worker' = [worker EXCEPT ![w] = "busy"]
    /\ UNCHANGED <<stage, at, plan, size, jobsOpen, resultsOpen, result, totals, meter, cancelled, full, histories>>

\* jobs <- and <-jobs.  Both selects may prefer the job to a context that is done.
Dispatch(w) ==
    /\ jobsOpen
    /\ sent < size
    /\ worker[w] = "wait"
    /\ sent' = sent + 1
    /\ holds' = [holds EXCEPT ![w] = sent + 1]
    /\ worker' = [worker EXCEPT ![w] = "busy"]
    /\ UNCHANGED <<stage, at, plan, size, jobsOpen, resultsOpen, result, totals, meter, cancelled, full, histories>>

\* Seeded fault: the dispatcher does not look at the context.
CloseJobsAtEnd ==
    /\ jobsOpen
    /\ sent = size
    /\ jobsOpen' = FALSE
    /\ UNCHANGED <<stage, at, plan, worker, holds, size, sent, resultsOpen, result, totals, meter, cancelled, full, histories>>

\* close(jobs), after the last session or when the context is done.  In the second
\* case the caller may have gone on before the dispatcher notices.
CloseJobs ==
    /\ jobsOpen
    /\ sent = size \/ cancelled
    /\ jobsOpen' = FALSE
    /\ UNCHANGED <<stage, at, plan, worker, holds, size, sent, resultsOpen, result, totals, meter, cancelled, full, histories>>

\* A waiting worker sees the context done or jobs closed and returns.
WorkerLeaves(w) ==
    /\ worker[w] = "wait"
    /\ cancelled \/ ~jobsOpen
    /\ worker' = [worker EXCEPT ![w] = "gone"]
    /\ UNCHANGED <<stage, at, plan, holds, size, sent, jobsOpen, resultsOpen, result, totals, meter, cancelled, full, histories>>

\* indexSession, see SessionIndex.
IndexSession(w) ==
    /\ worker[w] = "busy"
    /\ \E res \in Results : worker' = [worker EXCEPT ![w] = res]
    /\ attempts' = [attempts EXCEPT ![at][holds[w]] = @ + 1]
    /\ UNCHANGED <<stage, at, plan, holds, size, sent, jobsOpen, resultsOpen, result, totals, meter, cancelled, full, marked>>

\* Seeded fault: onEach runs for every session whose worker is under way.
CollectCountsAhead(w) ==
    /\ resultsOpen
    /\ worker[w] \in Results
    /\ worker' = [worker EXCEPT ![w] = "wait"]
    /\ result' = [result EXCEPT ![holds[w]] = worker[w]]
    /\ done' = sent
    /\ SetProgress("running", sent, Total[NumReaders])
    /\ UNCHANGED <<stage, at, plan, holds, size, sent, jobsOpen, resultsOpen, totals, cancelled, full, histories>>

\* results <- and the body of the collector's range, with onEach.
Collect(w) ==
    /\ resultsOpen
    /\ worker[w] \in Results
    /\ worker' = [worker EXCEPT ![w] = "wait"]
    /\ result' = [result EXCEPT ![holds[w]] = worker[w]]
    /\ done' = done + 1
    /\ SetProgress("running", done + 1, Total[NumReaders])
    /\ UNCHANGED <<stage, at, plan, holds, size, sent, jobsOpen, resultsOpen, totals, cancelled, full, histories>>

\* Seeded fault: results is closed with jobs, without waiting for the workers.
CloseResultsEarly ==
    /\ resultsOpen
    /\ ~jobsOpen
    /\ resultsOpen' = FALSE
    /\ UNCHANGED <<stage, at, plan, worker, holds, size, sent, jobsOpen, result, totals, meter, cancelled, full, histories>>

\* workerGroup.Wait and close(results).
CloseResults ==
    /\ resultsOpen
    /\ \A w \in Workers : worker[w] = "gone"
    /\ resultsOpen' = FALSE
    /\ UNCHANGED <<stage, at, plan, worker, holds, size, sent, jobsOpen, result, totals, meter, cancelled, full, histories>>

-----------------------------------------------------------------------------
(* indexReaderSessions after the range, and the end of indexOnce.          *)

SomeResult(res) == \E p \in Positions : result[p] = res

\* Seeded fault: the context is not looked at before the omissions.
EndPoolAnyway ==
    /\ stage = "pool"
    /\ ~resultsOpen
    /\ changed' = (changed \/ SomeResult("changed"))
    /\ failed' = (failed \/ SomeResult("failed"))
    /\ stage' = IF plan[at].complete THEN "tombstone" ELSE "agents"
    /\ at' = IF stage' = "tombstone" THEN at ELSE at + 1
    /\ UNCHANGED <<plan, pool, announced, meter, cancelled, full, histories>>

\* The results are summed; a cancelled reader declares nothing missing.
EndPool ==
    /\ stage = "pool"
    /\ ~resultsOpen
    /\ changed' = (changed \/ SomeResult("changed"))
    /\ failed' = (failed \/ cancelled \/ SomeResult("failed"))
    /\ stage' = IF plan[at].complete /\ ~cancelled THEN "tombstone" ELSE "agents"
    /\ at' = IF stage' = "tombstone" THEN at ELSE at + 1
    /\ UNCHANGED <<plan, pool, announced, meter, cancelled, full, histories>>

\* tombstoneMissingSessions, which may have nothing to mark or fail.
MarkOmissions ==
    /\ stage = "tombstone"
    /\ changed' \in {changed, TRUE}
    /\ marked' = marked \union {at}
    /\ stage' = "agents"
    /\ at' = at + 1
    /\ UNCHANGED <<plan, pool, failed, announced, meter, cancelled, full, attempts>>

\* OnChanged, whatever failed.
Finish ==
    /\ stage = "agents"
    /\ at > NumReaders
    /\ stage' = "returned"
    /\ SetProgress("idle", done, Total[NumReaders])
    /\ announced' = changed
    /\ UNCHANGED <<at, plan, pool, changed, failed, done, cancelled, full, histories>>

Cancel ==
    /\ Cancellable
    /\ ~cancelled
    /\ stage # "returned"
    /\ cancelled' = TRUE
    /\ UNCHANGED <<stage, at, plan, pool, totals, meter, full, histories>>

-----------------------------------------------------------------------------

Caller ==
    \/ ListReader \/ ListCancelled \/ BeginIndexing
    \/ AgentsCancelled \/ SkipFailedReader \/ StartPool
    \/ (\E w \in Workers : Collect(w)) \/ EndPool \/ MarkOmissions
    \/ Finish

Worker(w) == Dispatch(w) \/ WorkerLeaves(w) \/ IndexSession(w)

Next ==
    \/ Caller
    \/ \E w \in Workers : Worker(w)
    \/ CloseJobs
    \/ CloseResults
    \/ Cancel

\* Every goroutine that can run does; listing and indexing a session end.
Fairness ==
    /\ WF_vars(Caller)
    /\ \A w \in Workers : WF_vars(Worker(w))
    /\ WF_vars(CloseJobs)
    /\ WF_vars(CloseResults)

Spec == Init /\ [][Next]_vars /\ Fairness

-----------------------------------------------------------------------------
(* Properties.                                                             *)

\* The shape of caller, pool and channels.
TypeOK ==
    /\ stage \in {"list", "agents", "pool", "tombstone", "returned"}
    /\ at \in 1..(NumReaders + 1)
    /\ plan \in [Readers -> [count : -1..MaxSessions, complete : BOOLEAN, failed : BOOLEAN]]
    /\ worker \in [Workers -> {"gone", "wait", "busy"} \union Results]
    /\ holds \in [Workers -> 0..MaxSessions]
    /\ size \in 0..MaxSessions
    /\ sent \in 0..size
    /\ jobsOpen \in BOOLEAN
    /\ resultsOpen \in BOOLEAN
    /\ result \in [Positions -> {"none"} \union Results]
    /\ changed \in BOOLEAN
    /\ failed \in BOOLEAN
    /\ cancelled \in BOOLEAN
    /\ announced \in BOOLEAN
    /\ full \in BOOLEAN
    /\ attempts \in [Readers -> [Positions -> Nat]]
    /\ marked \in SUBSET Readers

Working(w) == worker[w] \notin {"gone", "wait"}

\* No session is in two hands: two workers never work on the same position, and
\* a position whose result was collected is not handed out again.  SessionIndex
\* rests on it.
OneWorkerPerSession ==
    /\ \A v, w \in Workers : v # w /\ Working(v) /\ Working(w) => holds[v] # holds[w]
    /\ \A w \in Workers : Working(w) => result[holds[w]] = "none"

\* No goroutine of a pool is left behind: when indexReaderSessions sums its
\* results every worker has returned, so that the next reader, or the next
\* cycle, starts alone.
PoolQuiet ==
    stage # "pool" \/ ~resultsOpen => \A w \in Workers : worker[w] = "gone"

\* What clients see of a full cycle: as many sessions as were really finished,
\* of those that were listed; 100 per cent of something means all of it.
ProgressHonest ==
    /\ progress.done <= progress.total
    /\ progress.total > 0 /\ progress.percent = 100 =>
          \A r \in Readers : \A p \in 1..plan[r].count : attempts[r][p] = 1

\* A cycle returns, whatever the context does meanwhile, and leaves neither a
\* worker nor the dispatcher of its last pool behind.
CycleReturns ==
    <>(stage = "returned" /\ ~jobsOpen /\ \A w \in Workers : worker[w] = "gone")

\* The cycle as IndexRound sees it.  What a worker found counts from the moment it
\* found it: a result lost on its way to the collector would be a change or an
\* error that is taken back.
IndexedBy(r) == {p \in Positions : attempts[r][p] > 0}
ListedBy(r) == IF plan[r].count = -1 THEN {-1} ELSE 1..plan[r].count
Complete == {r \in Readers : plan[r].complete}
Found(res) == SomeResult(res) \/ \E w \in Workers : worker[w] = res
Dirty == changed \/ Found("changed")
Trouble == failed \/ Found("failed") \/ \E r \in Readers : plan[r].failed
LeftNothingOut == Complete \subseteq marked /\ \A r \in Readers : IndexedBy(r) = ListedBy(r)
Outcome ==
    IF stage # "returned" THEN "none"
    ELSE IF at <= NumReaders \/ ~LeftNothingOut THEN "cancelled"
    ELSE IF failed THEN "errors" ELSE "ready"

round == INSTANCE IndexRound WITH
    listed <- [r \in Readers |-> ListedBy(r)],
    complete <- Complete,
    indexed <- [r \in Readers |-> IndexedBy(r)],
    tombstoned <- marked,
    dirty <- Dirty,
    trouble <- Trouble,
    over <- cancelled,
    outcome <- Outcome

\* The cycle keeps the promises of IndexRound.
ImplementsRound == round!Round

=============================================================================
