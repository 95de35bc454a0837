-------------------------- MODULE IndexCycleProofs --------------------------
(* Theorems about IndexCycle for every number of readers, sessions and      *)
(* workers.                                                                 *)
EXTENDS IndexCycle, Counting, TLAPS

(***************************************************************************)
(* The inductive invariant, in parts.                                      *)
(***************************************************************************)

\* Plans are made in order, all of them before the first session is indexed.
Planning ==
    /\ stage = "list" => \A r \in Readers : IF r < at THEN plan[r].count >= 0 ELSE plan[r] = NoPlan
    /\ stage \in {"agents", "pool", "tombstone"} => \A r \in Readers : plan[r].count >= 0
    /\ stage \in {"pool", "tombstone"} => at <= NumReaders /\ ~plan[at].failed
    /\ \A r \in Readers : plan[r].failed => plan[r].count = 0 /\ ~plan[r].complete

\* Readers are indexed and marked in order.
InOrder ==
    /\ \A r \in Readers, p \in Positions : attempts[r][p] > 0 =>
          stage # "list" /\ (r < at \/ (r = at /\ stage \in {"pool", "tombstone"}))
    /\ \A r \in marked : stage # "list" /\ r < at /\ plan[r].complete
    /\ stage = "tombstone" => plan[at].complete /\ IndexedBy(at) = ListedBy(at)

\* As long as the context is there, nothing is left out.
Uncut ==
    ~cancelled /\ stage # "list" =>
        \A r \in Readers : r < at =>
            IndexedBy(r) = ListedBy(r) /\ (plan[r].complete => r \in marked)

\* What was found is summed up before the next reader, and told at the end.
Summed ==
    /\ stage # "pool" => \A p \in Positions :
          (result[p] = "changed" => changed) /\ (result[p] = "failed" => failed)
    /\ stage \in {"agents", "pool", "tombstone"} =>
          \A r \in Readers : r < at /\ plan[r].failed => failed
    /\ stage # "returned" => ~announced

\* The channels and the workers around them.
Channels ==
    /\ resultsOpen => stage = "pool"
    /\ ~resultsOpen => \A w \in Workers : worker[w] = "gone"
    /\ jobsOpen /\ ~cancelled => resultsOpen /\ worker[1] # "gone"
    /\ stage = "pool" => size = plan[at].count
    /\ stage = "pool" /\ ~jobsOpen /\ ~cancelled => sent = size

\* Every session handed out is in one worker's hands or was indexed.
HandedOut ==
    /\ \A w \in Workers : Working(w) => holds[w] \in 1..sent
    /\ \A p \in Positions : stage = "pool" /\ p > sent => attempts[at][p] = 0 /\ result[p] = "none"
    /\ \A w \in Workers : stage = "pool" /\ worker[w] = "busy" => attempts[at][holds[w]] = 0
    /\ \A p \in Positions : stage = "pool" /\ p <= sent =>
          attempts[at][p] > 0 \/ \E w \in Workers : worker[w] = "busy" /\ holds[w] = p

IInv ==
    /\ TypeOK
    /\ Planning
    /\ InOrder
    /\ Uncut
    /\ Summed
    /\ Channels
    /\ HandedOut
    /\ OneWorkerPerSession

\* Cardinalities the steps of a pool rely on.
LEMMA Sizes ==
    /\ NumReaders \in Nat /\ 1 \in Readers /\ Readers \subseteq Nat
    /\ MaxSessions \in Nat /\ 1 \in Positions /\ Positions \subseteq Nat
    /\ PoolSize \in Nat /\ 1 \in Workers /\ Workers \subseteq Nat
BY SizesAssumption DEF Readers, Positions, Workers

\* The first state of a cycle satisfies the invariant.
LEMMA InitIInv == Init => IInv
<1> SUFFICES ASSUME Init PROVE IInv
  OBVIOUS
<1> USE Sizes, SizesAssumption
<1>1. TypeOK
  <2>1. NoPlan \in [count : -1..MaxSessions, complete : BOOLEAN, failed : BOOLEAN]
    BY DEF NoPlan
  <2>2. plan \in [Readers -> [count : -1..MaxSessions, complete : BOOLEAN, failed : BOOLEAN]]
    BY <2>1 DEF Init
  <2>3. at \in 1..(NumReaders + 1)
    BY DEF Init
  <2>4. result \in [Positions -> {"none"} \union Results]
    BY DEF Init, NoResults
  <2>5. marked \in SUBSET Readers /\ attempts \in [Readers -> [Positions -> Nat]]
    BY DEF Init
  <2>6. worker \in [Workers -> {"gone", "wait", "busy"} \union Results]
        /\ holds \in [Workers -> 0..MaxSessions]
    BY DEF Init
  <2>7. size \in 0..MaxSessions /\ sent \in 0..size
    BY DEF Init
  <2>8. stage \in {"list", "agents", "pool", "tombstone", "returned"}
    BY DEF Init
  <2>9. /\ jobsOpen \in BOOLEAN /\ resultsOpen \in BOOLEAN /\ changed \in BOOLEAN
        /\ failed \in BOOLEAN /\ cancelled \in BOOLEAN /\ announced \in BOOLEAN
        /\ full \in BOOLEAN
    BY DEF Init
  <2> QED
    BY <2>2, <2>3, <2>4, <2>5, <2>6, <2>7, <2>8, <2>9 DEF TypeOK
<1>2. Planning
  <2>1. /\ stage = "list" /\ at = 1
        /\ \A r \in Readers : plan[r] = NoPlan /\ ~(r < at)
    BY DEF Init, Readers
  <2>2. ~NoPlan.failed
    BY DEF NoPlan
  <2> QED
    BY <2>1, <2>2 DEF Planning
<1>3. InOrder /\ Uncut /\ Summed
  BY DEF Init, InOrder, Uncut, Summed, NoResults
<1>4. Channels /\ HandedOut /\ OneWorkerPerSession
  BY DEF Init, Channels, HandedOut, OneWorkerPerSession, Working
<1> QED
  BY <1>1, <1>2, <1>3, <1>4 DEF IInv

\* ListReader preserves the invariant of the cycle.
LEMMA ListReaderKeeps ==
    ASSUME IInv, ListReader
    PROVE  IInv'
<1> USE Sizes DEF pool, totals, meter, histories
<1>0. TypeOK /\ Planning /\ InOrder /\ Uncut /\ Summed /\ Channels /\ HandedOut /\ OneWorkerPerSession
  BY DEF IInv
<1>1. TypeOK'
  <2>1. at \in Readers /\ at + 1 \in 1..(NumReaders + 1)
    BY <1>0 DEF ListReader, TypeOK, Readers
  <2>2. plan' \in [Readers -> [count : -1..MaxSessions, complete : BOOLEAN, failed : BOOLEAN]]
    <3>1. PICK n \in 0..MaxSessions, c \in BOOLEAN, f \in BOOLEAN :
             plan' = [plan EXCEPT ![at] = [count |-> n, complete |-> c, failed |-> f]]
      BY DEF ListReader
    <3>2. [count |-> n, complete |-> c, failed |-> f]
             \in [count : -1..MaxSessions, complete : BOOLEAN, failed : BOOLEAN]
      OBVIOUS
    <3> QED
      BY <1>0, <3>1, <3>2 DEF TypeOK
  <2> QED
    BY <1>0, <2>1, <2>2 DEF ListReader, TypeOK
<1>2. Planning'
  BY <1>0 DEF ListReader, TypeOK, Planning
<1>3. InOrder'
  BY <1>0 DEF ListReader, TypeOK, InOrder, IndexedBy, ListedBy
<1>4. Uncut'
  BY <1>0 DEF ListReader, TypeOK, Uncut, IndexedBy, ListedBy
<1>5. Summed'
  BY <1>0 DEF ListReader, TypeOK, Summed
<1>6. Channels'
  BY <1>0 DEF ListReader, TypeOK, Channels
<1>7. HandedOut'
  BY <1>0 DEF ListReader, TypeOK, HandedOut, Working
<1>8. OneWorkerPerSession'
  BY <1>0 DEF ListReader, TypeOK, OneWorkerPerSession, Working
<1> QED
  BY <1>1, <1>2, <1>3, <1>4, <1>5, <1>6, <1>7, <1>8 DEF IInv

\* ListCancelled preserves the invariant of the cycle.
LEMMA ListCancelledKeeps ==
    ASSUME IInv, ListCancelled
    PROVE  IInv'
<1> USE Sizes DEF pool, totals, meter, histories
<1>0. TypeOK /\ Planning /\ InOrder /\ Uncut /\ Summed /\ Channels /\ HandedOut /\ OneWorkerPerSession
  BY DEF IInv
<1>1. TypeOK'
  BY <1>0 DEF ListCancelled, TypeOK, Results
<1>2. Planning'
  BY <1>0 DEF ListCancelled, TypeOK, Planning
<1>3. InOrder'
  BY <1>0 DEF ListCancelled, TypeOK, InOrder, IndexedBy, ListedBy
<1>4. Uncut'
  BY <1>0 DEF ListCancelled, TypeOK, Uncut, IndexedBy, ListedBy
<1>5. Summed'
  BY <1>0 DEF ListCancelled, TypeOK, Summed
<1>6. Channels'
  BY <1>0 DEF ListCancelled, TypeOK, Channels
<1>7. HandedOut'
  BY <1>0 DEF ListCancelled, TypeOK, HandedOut, Working
<1>8. OneWorkerPerSession'
  BY <1>0 DEF ListCancelled, TypeOK, OneWorkerPerSession, Working
<1> QED
  BY <1>1, <1>2, <1>3, <1>4, <1>5, <1>6, <1>7, <1>8 DEF IInv

\* BeginIndexing preserves the invariant of the cycle.
LEMMA BeginIndexingKeeps ==
    ASSUME IInv, BeginIndexing
    PROVE  IInv'
<1> USE Sizes DEF pool, totals, meter, histories
<1>0. TypeOK /\ Planning /\ InOrder /\ Uncut /\ Summed /\ Channels /\ HandedOut /\ OneWorkerPerSession
  BY DEF IInv
<1>1. TypeOK'
  BY <1>0 DEF BeginIndexing, TypeOK, Results
<1>2. Planning'
  BY <1>0 DEF BeginIndexing, TypeOK, Planning, Readers
<1>3. InOrder'
  BY <1>0 DEF BeginIndexing, TypeOK, InOrder, IndexedBy, ListedBy
<1>4. Uncut'
  BY <1>0 DEF BeginIndexing, TypeOK, Uncut, Readers
<1>5. Summed'
  <2>1. at' = 1 /\ \A r \in Readers : ~(r < 1)
    BY DEF BeginIndexing, Readers
  <2> QED
    BY <1>0, <2>1 DEF BeginIndexing, Summed
<1>6. Channels'
  BY <1>0 DEF BeginIndexing, TypeOK, Channels
<1>7. HandedOut'
  BY <1>0 DEF BeginIndexing, TypeOK, HandedOut, Working
<1>8. OneWorkerPerSession'
  BY <1>0 DEF BeginIndexing, TypeOK, OneWorkerPerSession, Working
<1> QED
  BY <1>1, <1>2, <1>3, <1>4, <1>5, <1>6, <1>7, <1>8 DEF IInv

\* AgentsCancelled preserves the invariant of the cycle.
LEMMA AgentsCancelledKeeps ==
    ASSUME IInv, AgentsCancelled
    PROVE  IInv'
<1> USE Sizes DEF pool, totals, meter, histories
<1>0. TypeOK /\ Planning /\ InOrder /\ Uncut /\ Summed /\ Channels /\ HandedOut /\ OneWorkerPerSession
  BY DEF IInv
<1>1. TypeOK'
  BY <1>0 DEF AgentsCancelled, TypeOK, Results
<1>2. Planning'
  BY <1>0 DEF AgentsCancelled, TypeOK, Planning
<1>3. InOrder'
  BY <1>0 DEF AgentsCancelled, TypeOK, InOrder, IndexedBy, ListedBy
<1>4. Uncut'
  BY <1>0 DEF AgentsCancelled, TypeOK, Uncut, IndexedBy, ListedBy
<1>5. Summed'
  BY <1>0 DEF AgentsCancelled, TypeOK, Summed
<1>6. Channels'
  BY <1>0 DEF AgentsCancelled, TypeOK, Channels
<1>7. HandedOut'
  BY <1>0 DEF AgentsCancelled, TypeOK, HandedOut, Working
<1>8. OneWorkerPerSession'
  BY <1>0 DEF AgentsCancelled, TypeOK, OneWorkerPerSession, Working
<1> QED
  BY <1>1, <1>2, <1>3, <1>4, <1>5, <1>6, <1>7, <1>8 DEF IInv

\* SkipFailedReader preserves the invariant of the cycle.
LEMMA SkipFailedReaderKeeps ==
    ASSUME IInv, SkipFailedReader
    PROVE  IInv'
<1> USE Sizes DEF pool, totals, meter, histories
<1>0. TypeOK /\ Planning /\ InOrder /\ Uncut /\ Summed /\ Channels /\ HandedOut /\ OneWorkerPerSession
  BY DEF IInv
<1>1. TypeOK'
  BY <1>0 DEF SkipFailedReader, TypeOK, Results
<1>2. Planning'
  BY <1>0 DEF SkipFailedReader, TypeOK, Planning
<1>3. InOrder'
  BY <1>0 DEF SkipFailedReader, TypeOK, InOrder, IndexedBy, ListedBy
<1>4. Uncut'
  <2>1. plan[at].failed /\ stage = "agents" /\ at \in Readers /\ at' = at + 1
        /\ UNCHANGED <<plan, cancelled, attempts, marked>>
    BY <1>0 DEF SkipFailedReader, TypeOK, Readers
  <2>2. plan[at].count = 0 /\ ~plan[at].complete
    BY <1>0, <2>1 DEF Planning
  <2>3. IndexedBy(at) = {} /\ ListedBy(at) = {}
    <3>1. \A p \in Positions : ~(attempts[at][p] > 0)
      BY <1>0, <2>1 DEF InOrder
    <3>2. IndexedBy(at) = {}
      BY <3>1 DEF IndexedBy
    <3>3. ListedBy(at) = 1..0
      BY <2>2 DEF ListedBy
    <3>4. 1..0 = {}
      OBVIOUS
    <3> QED
      BY <3>2, <3>3, <3>4
  <2>4. \A r \in Readers : r < at + 1 => r < at \/ r = at
    BY <1>0 DEF TypeOK, Readers
  <2>5. \A r \in Readers : IndexedBy(r)' = IndexedBy(r) /\ ListedBy(r)' = ListedBy(r)
    BY <2>1 DEF IndexedBy, ListedBy
  <2> QED
    BY <1>0, <2>1, <2>2, <2>3, <2>4, <2>5 DEF Uncut
<1>5. Summed'
  BY <1>0 DEF SkipFailedReader, TypeOK, Summed
<1>6. Channels'
  BY <1>0 DEF SkipFailedReader, TypeOK, Channels
<1>7. HandedOut'
  BY <1>0 DEF SkipFailedReader, TypeOK, HandedOut, Working
<1>8. OneWorkerPerSession'
  BY <1>0 DEF SkipFailedReader, TypeOK, OneWorkerPerSession, Working
<1> QED
  BY <1>1, <1>2, <1>3, <1>4, <1>5, <1>6, <1>7, <1>8 DEF IInv

\* StartPool preserves the invariant of the cycle.
LEMMA StartPoolKeeps ==
    ASSUME IInv, StartPool
    PROVE  IInv'
<1> USE Sizes DEF pool, totals, meter, histories
<1>0. TypeOK /\ Planning /\ InOrder /\ Uncut /\ Summed /\ Channels /\ HandedOut /\ OneWorkerPerSession
  BY DEF IInv
<1>1. TypeOK'
  <2>1. at \in Readers /\ plan[at].count \in 0..MaxSessions
    BY <1>0 DEF StartPool, TypeOK, Planning, Readers
  <2>2. size' \in 0..MaxSessions /\ sent' \in 0..size'
    BY <2>1 DEF StartPool
  <2>3. worker' \in [Workers -> {"gone", "wait", "busy"} \union Results]
        /\ result' \in [Positions -> {"none"} \union Results]
    BY DEF StartPool, NoResults
  <2>4. jobsOpen' \in BOOLEAN /\ resultsOpen' \in BOOLEAN
    BY DEF StartPool
  <2> QED
    BY <1>0, <2>2, <2>3, <2>4 DEF StartPool, TypeOK
<1>2. Planning'
  BY <1>0 DEF StartPool, TypeOK, Planning
<1>3. InOrder'
  BY <1>0 DEF StartPool, TypeOK, InOrder, IndexedBy, ListedBy
<1>4. Uncut'
  BY <1>0 DEF StartPool, TypeOK, Uncut, IndexedBy, ListedBy
<1>5. Summed'
  BY <1>0 DEF StartPool, TypeOK, Summed
<1>6. Channels'
  <2> DEFINE n == plan[at].count
  <2>1. n \in 0..MaxSessions
    BY <1>0 DEF StartPool, TypeOK, Planning, Readers
  <2>2. stage' = "pool" /\ size' = n /\ sent' = 0 /\ UNCHANGED <<at, plan, cancelled>>
        /\ jobsOpen' = (n > 0) /\ resultsOpen' = (n > 0)
        /\ worker' = [w \in Workers |-> IF w <= WorkerCount(n) THEN "wait" ELSE "gone"]
    BY DEF StartPool
  <2>3. n > 0 => 1 <= WorkerCount(n)
    BY <2>1, SizesAssumption DEF WorkerCount
  <2>4. n = 0 => \A w \in Workers : ~(w <= WorkerCount(n))
    BY SizesAssumption DEF WorkerCount, Workers
  <2>5. n > 0 => worker'[1] = "wait"
    BY <2>2, <2>3
  <2>6. n = 0 => \A w \in Workers : worker'[w] = "gone"
    BY <2>2, <2>4
  <2>7. (n > 0 <=> resultsOpen') /\ (n > 0 <=> jobsOpen')
    <3> HIDE DEF n
    <3> QED
      BY <2>2, Zenon
  <2>8. n > 0 \/ n = 0
    BY <2>1
  <2> QED
    BY <2>2, <2>5, <2>6, <2>7, <2>8 DEF Channels
<1>7. HandedOut'
  <2>1. stage = "agents" /\ at' = at /\ sent' = 0 /\ attempts' = attempts /\ result' = NoResults
        /\ \A w \in Workers : worker'[w] \in {"wait", "gone"}
    BY DEF StartPool
  <2>2. at \in Readers
    BY <1>0 DEF StartPool, TypeOK, Readers
  <2>3. \A p \in Positions : attempts[at][p] = 0
    BY <1>0, <2>1, <2>2 DEF InOrder, TypeOK
  <2>4. \A p \in Positions : p > 0 /\ ~(p <= 0)
    BY DEF Positions
  <2>5. \A w \in Workers : ~Working(w)' /\ worker'[w] # "busy"
    BY <2>1 DEF Working
  <2>6. \A p \in Positions : ~(p <= 0) /\ result'[p] = "none"
    BY <2>1, <2>4 DEF NoResults
  <2> QED
    BY <2>1, <2>3, <2>5, <2>6 DEF HandedOut
<1>8. OneWorkerPerSession'
  BY <1>0 DEF StartPool, TypeOK, OneWorkerPerSession, Working
<1> QED
  BY <1>1, <1>2, <1>3, <1>4, <1>5, <1>6, <1>7, <1>8 DEF IInv

\* Dispatch preserves the invariant of the cycle.
LEMMA DispatchKeeps ==
    ASSUME IInv, NEW w \in Workers, Dispatch(w)
    PROVE  IInv'
<1> USE Sizes DEF pool, totals, meter, histories
<1>0. TypeOK /\ Planning /\ InOrder /\ Uncut /\ Summed /\ Channels /\ HandedOut /\ OneWorkerPerSession
  BY DEF IInv
<1>1. TypeOK'
  BY <1>0 DEF Dispatch, TypeOK, Results
<1>2. Planning'
  BY <1>0 DEF Dispatch, TypeOK, Planning
<1>3. InOrder'
  BY <1>0 DEF Dispatch, TypeOK, InOrder, IndexedBy, ListedBy
<1>4. Uncut'
  BY <1>0 DEF Dispatch, TypeOK, Uncut, IndexedBy, ListedBy
<1>5. Summed'
  BY <1>0 DEF Dispatch, TypeOK, Summed
<1>6. Channels'
  BY <1>0 DEF Dispatch, TypeOK, Channels
<1>7. HandedOut'
  <2>1. /\ worker' = [worker EXCEPT ![w] = "busy"] /\ holds' = [holds EXCEPT ![w] = sent + 1]
        /\ sent' = sent + 1 /\ sent < size /\ worker[w] = "wait"
        /\ UNCHANGED <<stage, at, attempts, result>>
    BY DEF Dispatch
  <2>2. sent \in Nat /\ sent + 1 \in Positions /\ stage = "pool"
    BY <1>0, <2>1 DEF TypeOK, Channels, Positions
  <2>3. worker \in [Workers -> {"gone", "wait", "busy"} \union Results]
        /\ holds \in [Workers -> 0..MaxSessions]
    BY <1>0 DEF TypeOK
  <2>4. \A v \in Workers : Working(v)' => holds'[v] \in 1..sent'
    BY <1>0, <2>1, <2>2, <2>3 DEF HandedOut, Working
  <2>5. \A p \in Positions : p > sent' => attempts'[at][p] = 0 /\ result'[p] = "none"
    BY <1>0, <2>1, <2>2 DEF HandedOut
  <2>6. \A v \in Workers : worker'[v] = "busy" => attempts'[at][holds'[v]] = 0
    BY <1>0, <2>1, <2>2, <2>3 DEF HandedOut
  <2>7. \A p \in Positions : p <= sent' =>
           attempts'[at][p] > 0 \/ \E v \in Workers : worker'[v] = "busy" /\ holds'[v] = p
    <3> SUFFICES ASSUME NEW p \in Positions, p <= sent + 1, ~(attempts[at][p] > 0)
                 PROVE  \E v \in Workers : worker'[v] = "busy" /\ holds'[v] = p
      BY <2>1
    <3>1. CASE p = sent + 1
      BY <2>1, <2>3, <3>1
    <3>2. CASE p <= sent
      <4>1. PICK v \in Workers : worker[v] = "busy" /\ holds[v] = p
        BY <1>0, <2>2, <3>2 DEF HandedOut
      <4>2. v # w
        BY <2>1, <4>1
      <4> QED
        BY <2>1, <2>3, <4>1, <4>2
    <3>3. p = sent + 1 \/ p <= sent
      <4>1. p \in Nat
        BY DEF Positions
      <4> QED
        BY <2>2, <4>1
    <3> QED
      BY <3>1, <3>2, <3>3, Zenon
  <2> QED
    BY <2>1, <2>4, <2>5, <2>6, <2>7 DEF HandedOut
<1>8. OneWorkerPerSession'
  <2>1. /\ worker' = [worker EXCEPT ![w] = "busy"] /\ holds' = [holds EXCEPT ![w] = sent + 1]
        /\ sent < size /\ worker[w] = "wait" /\ result' = result
    BY DEF Dispatch
  <2>2. sent \in Nat /\ sent + 1 \in Positions /\ stage = "pool"
    BY <1>0, <2>1 DEF TypeOK, Channels, Positions
  <2>3. worker \in [Workers -> {"gone", "wait", "busy"} \union Results]
        /\ holds \in [Workers -> 0..MaxSessions]
    BY <1>0 DEF TypeOK
  <2>4. \A v \in Workers : v # w => worker'[v] = worker[v] /\ holds'[v] = holds[v]
    BY <2>1, <2>3
  <2>5. holds'[w] = sent + 1 /\ result[sent + 1] = "none"
    BY <1>0, <2>1, <2>2, <2>3 DEF HandedOut
  <2>6. \A v \in Workers : Working(v) => holds[v] # sent + 1
    <3>1. \A v \in Workers : Working(v) => holds[v] \in 1..sent
      BY <1>0 DEF HandedOut
    <3>2. sent + 1 \notin 1..sent
      BY <2>2
    <3> SUFFICES ASSUME NEW v \in Workers, Working(v) PROVE holds[v] # sent + 1
      OBVIOUS
    <3>3. holds[v] \in 1..sent
      BY <3>1, Zenon
    <3> QED
      BY <2>2, <3>3
  <2> QED
    BY <1>0, <2>1, <2>4, <2>5, <2>6 DEF OneWorkerPerSession, Working
<1> QED
  BY <1>1, <1>2, <1>3, <1>4, <1>5, <1>6, <1>7, <1>8 DEF IInv

\* CloseJobs preserves the invariant of the cycle.
LEMMA CloseJobsKeeps ==
    ASSUME IInv, CloseJobs
    PROVE  IInv'
<1> USE Sizes DEF pool, totals, meter, histories
<1>0. TypeOK /\ Planning /\ InOrder /\ Uncut /\ Summed /\ Channels /\ HandedOut /\ OneWorkerPerSession
  BY DEF IInv
<1>1. TypeOK'
  BY <1>0 DEF CloseJobs, TypeOK, Results
<1>2. Planning'
  BY <1>0 DEF CloseJobs, TypeOK, Planning
<1>3. InOrder'
  BY <1>0 DEF CloseJobs, TypeOK, InOrder, IndexedBy, ListedBy
<1>4. Uncut'
  BY <1>0 DEF CloseJobs, TypeOK, Uncut, IndexedBy, ListedBy
<1>5. Summed'
  BY <1>0 DEF CloseJobs, TypeOK, Summed
<1>6. Channels'
  BY <1>0 DEF CloseJobs, TypeOK, Channels
<1>7. HandedOut'
  BY <1>0 DEF CloseJobs, TypeOK, HandedOut, Working
<1>8. OneWorkerPerSession'
  BY <1>0 DEF CloseJobs, TypeOK, OneWorkerPerSession, Working
<1> QED
  BY <1>1, <1>2, <1>3, <1>4, <1>5, <1>6, <1>7, <1>8 DEF IInv

\* WorkerLeaves preserves the invariant of the cycle.
LEMMA WorkerLeavesKeeps ==
    ASSUME IInv, NEW w \in Workers, WorkerLeaves(w)
    PROVE  IInv'
<1> USE Sizes DEF pool, totals, meter, histories
<1>0. TypeOK /\ Planning /\ InOrder /\ Uncut /\ Summed /\ Channels /\ HandedOut /\ OneWorkerPerSession
  BY DEF IInv
<1>1. TypeOK'
  BY <1>0 DEF WorkerLeaves, TypeOK, Results
<1>2. Planning'
  BY <1>0 DEF WorkerLeaves, TypeOK, Planning
<1>3. InOrder'
  BY <1>0 DEF WorkerLeaves, TypeOK, InOrder, IndexedBy, ListedBy
<1>4. Uncut'
  BY <1>0 DEF WorkerLeaves, TypeOK, Uncut, IndexedBy, ListedBy
<1>5. Summed'
  BY <1>0 DEF WorkerLeaves, TypeOK, Summed
<1>6. Channels'
  BY <1>0 DEF WorkerLeaves, TypeOK, Channels
<1>7. HandedOut'
  BY <1>0 DEF WorkerLeaves, TypeOK, HandedOut, Working
<1>8. OneWorkerPerSession'
  BY <1>0 DEF WorkerLeaves, TypeOK, OneWorkerPerSession, Working
<1> QED
  BY <1>1, <1>2, <1>3, <1>4, <1>5, <1>6, <1>7, <1>8 DEF IInv

\* IndexSession preserves the invariant of the cycle.
LEMMA IndexSessionKeeps ==
    ASSUME IInv, NEW w \in Workers, IndexSession(w)
    PROVE  IInv'
<1> USE Sizes DEF pool, totals, meter, histories
<1>0. TypeOK /\ Planning /\ InOrder /\ Uncut /\ Summed /\ Channels /\ HandedOut /\ OneWorkerPerSession
  BY DEF IInv
<1>1. TypeOK'
  <2>1. at \in Readers /\ holds[w] \in Positions
    BY <1>0 DEF IndexSession, TypeOK, Planning, Channels, HandedOut, Working, Readers, Positions
  <2>2. attempts' \in [Readers -> [Positions -> Nat]]
    BY <1>0, <2>1 DEF IndexSession, TypeOK
  <2>3. worker' \in [Workers -> {"gone", "wait", "busy"} \union Results]
    BY <1>0 DEF IndexSession, TypeOK
  <2> QED
    BY <1>0, <2>2, <2>3 DEF IndexSession, TypeOK
<1>2. Planning'
  BY <1>0 DEF IndexSession, TypeOK, Planning
<1>3. InOrder'
  <2>1. stage = "pool" /\ UNCHANGED <<stage, at, plan, marked>>
        /\ attempts' = [attempts EXCEPT ![at][holds[w]] = @ + 1]
    BY <1>0 DEF IndexSession, Channels
  <2>2. \A r \in Readers, p \in Positions : r # at => attempts'[r][p] = attempts[r][p]
    BY <1>0, <2>1 DEF TypeOK
  <2> QED
    BY <1>0, <2>1, <2>2 DEF InOrder
<1>4. Uncut'
  BY <1>0 DEF IndexSession, TypeOK, Uncut, IndexedBy, ListedBy
<1>5. Summed'
  BY <1>0 DEF IndexSession, TypeOK, Summed
<1>6. Channels'
  <2>1. UNCHANGED <<stage, at, plan, size, sent, jobsOpen, resultsOpen, cancelled>>
        /\ worker[w] = "busy" /\ resultsOpen
    BY <1>0 DEF IndexSession, Channels
  <2>2. \A v \in Workers : worker'[v] = worker[v] \/ (v = w /\ worker'[v] # "gone")
    BY <1>0 DEF IndexSession, TypeOK, Results
  <2> QED
    BY <1>0, <2>1, <2>2 DEF Channels
<1>7. HandedOut'
  <2>1. /\ stage = "pool" /\ at \in Readers /\ holds[w] \in Positions
        /\ worker[w] = "busy" /\ attempts' = [attempts EXCEPT ![at][holds[w]] = @ + 1]
        /\ UNCHANGED <<stage, at, holds, sent, result>>
    BY <1>0
    DEF IndexSession, TypeOK, Planning, Channels, HandedOut, Working, Readers, Positions
  <2>2. \A v \in Workers : IF v = w THEN worker'[v] \in Results ELSE worker'[v] = worker[v]
    BY <1>0 DEF IndexSession, TypeOK
  <2>3. \A p \in Positions : attempts'[at][p] =
           IF p = holds[w] THEN attempts[at][p] + 1 ELSE attempts[at][p]
    BY <1>0, <2>1 DEF TypeOK
  <2>4. \A p \in Positions : attempts[at][p] \in Nat
    BY <1>0, <2>1 DEF TypeOK
  <2>5. \A v \in Workers : Working(v)' => holds'[v] \in 1..sent'
    BY <1>0, <2>1, <2>2 DEF HandedOut, Working
  <2>6. \A p \in Positions : p > sent => attempts'[at][p] = 0 /\ result[p] = "none"
    <3>1. holds[w] \in 1..sent
      BY <1>0, <2>1 DEF HandedOut, Working
    <3>2. \A p \in Positions : p > sent => p # holds[w]
      <4>1. sent \in Nat /\ holds[w] \in Nat /\ ~(holds[w] > sent)
        BY <1>0, <3>1 DEF TypeOK
      <4> QED
        BY <4>1
    <3>3. \A p \in Positions : p > sent => attempts[at][p] = 0 /\ result[p] = "none"
      BY <1>0, <2>1 DEF HandedOut
    <3> QED
      BY <2>3, <3>2, <3>3
  <2>7. \A v \in Workers : worker'[v] = "busy" => attempts'[at][holds[v]] = 0
    <3> SUFFICES ASSUME NEW v \in Workers, worker'[v] = "busy" PROVE attempts'[at][holds[v]] = 0
      OBVIOUS
    <3>1. v # w /\ worker[v] = "busy"
      BY <2>2 DEF Results
    <3>2. holds[v] # holds[w]
      BY <1>0, <2>1, <3>1 DEF OneWorkerPerSession, Working
    <3>3. holds[v] \in 1..sent /\ sent \in 0..MaxSessions
      BY <1>0, <3>1 DEF TypeOK, HandedOut, Working
    <3>4. holds[v] \in Positions
      BY <3>3 DEF Positions
    <3>5. attempts[at][holds[v]] = 0
      BY <1>0, <2>1, <3>1 DEF HandedOut
    <3> QED
      BY <2>3, <3>2, <3>4, <3>5
  <2>8. \A p \in Positions : p <= sent =>
           attempts'[at][p] > 0 \/ \E v \in Workers : worker'[v] = "busy" /\ holds[v] = p
    <3>0. \A p \in Positions : p = holds[w] \/ attempts[at][p] > 0 => attempts'[at][p] > 0
      <4> SUFFICES ASSUME NEW p \in Positions, p = holds[w] \/ attempts[at][p] > 0
                   PROVE  attempts'[at][p] > 0
        OBVIOUS
      <4> DEFINE k == attempts[at][p]
      <4>1. k \in Nat /\ (p # holds[w] => k > 0)
        BY <2>4
      <4>2. attempts'[at][p] = IF p = holds[w] THEN k + 1 ELSE k
        BY <2>3
      <4> QED
        BY <4>1, <4>2
    <3> SUFFICES ASSUME NEW p \in Positions, p <= sent, p # holds[w], ~(attempts[at][p] > 0)
                 PROVE  \E v \in Workers : worker'[v] = "busy" /\ holds[v] = p
      BY <3>0
    <3>1. PICK v \in Workers : worker[v] = "busy" /\ holds[v] = p
      BY <1>0, <2>1 DEF HandedOut
    <3> QED
      BY <2>2, <3>1
  <2> QED
    BY <2>1, <2>5, <2>6, <2>7, <2>8 DEF HandedOut
<1>8. OneWorkerPerSession'
  BY <1>0 DEF IndexSession, TypeOK, OneWorkerPerSession, Working
<1> QED
  BY <1>1, <1>2, <1>3, <1>4, <1>5, <1>6, <1>7, <1>8 DEF IInv

\* Collect preserves the invariant of the cycle.
LEMMA CollectKeeps ==
    ASSUME IInv, NEW w \in Workers, Collect(w)
    PROVE  IInv'
<1> USE Sizes DEF pool, totals, meter, histories
<1>0. TypeOK /\ Planning /\ InOrder /\ Uncut /\ Summed /\ Channels /\ HandedOut /\ OneWorkerPerSession
  BY DEF IInv
<1>1. TypeOK'
  BY <1>0 DEF Collect, TypeOK, Results
<1>2. Planning'
  BY <1>0 DEF Collect, TypeOK, Planning
<1>3. InOrder'
  BY <1>0 DEF Collect, TypeOK, InOrder, IndexedBy, ListedBy
<1>4. Uncut'
  BY <1>0 DEF Collect, TypeOK, Uncut, IndexedBy, ListedBy
<1>5. Summed'
  BY <1>0 DEF Collect, Channels, Summed
<1>6. Channels'
  BY <1>0 DEF Collect, TypeOK, Channels
<1>7. HandedOut'
  <2>1. /\ stage = "pool" /\ worker[w] \in Results
        /\ worker' = [worker EXCEPT ![w] = "wait"]
        /\ result' = [result EXCEPT ![holds[w]] = worker[w]]
        /\ UNCHANGED <<stage, at, holds, sent, attempts>>
    BY <1>0 DEF Collect, Channels
  <2>2. \A v \in Workers : IF v = w THEN worker'[v] = "wait" ELSE worker'[v] = worker[v]
    BY <1>0, <2>1 DEF TypeOK
  <2>3. holds[w] \in 1..sent
    BY <1>0, <2>1 DEF HandedOut, Working, Results
  <2>4. \A p \in Positions : p > sent => result'[p] = result[p]
    BY <1>0, <2>1, <2>3 DEF TypeOK
  <2>5. \A v \in Workers : worker'[v] = "busy" <=> worker[v] = "busy"
    BY <2>1, <2>2 DEF Results
  <2>6. \A v \in Workers : Working(v)' => Working(v)
    BY <2>2 DEF Working
  <2> QED
    BY <1>0, <2>1, <2>4, <2>5, <2>6 DEF HandedOut
<1>8. OneWorkerPerSession'
  <2>1. /\ worker[w] \in Results /\ holds' = holds
        /\ worker' = [worker EXCEPT ![w] = "wait"]
        /\ result' = [result EXCEPT ![holds[w]] = worker[w]]
    BY DEF Collect
  <2>2. \A v \in Workers : Working(v)' => v # w /\ Working(v)
    BY <1>0, <2>1 DEF TypeOK, Working
  <2>3. Working(w)
    BY <2>1 DEF Working, Results
  <2>4. \A v \in Workers : v # w /\ Working(v) => holds[v] # holds[w] /\ holds[v] \in Positions
    BY <1>0, <2>3 DEF OneWorkerPerSession, TypeOK, HandedOut, Positions
  <2>5. \A v \in Workers : v # w /\ Working(v) => result'[holds[v]] = result[holds[v]]
    BY <1>0, <2>1, <2>4 DEF TypeOK
  <2> QED
    BY <1>0, <2>1, <2>2, <2>5 DEF OneWorkerPerSession
<1> QED
  BY <1>1, <1>2, <1>3, <1>4, <1>5, <1>6, <1>7, <1>8 DEF IInv

\* CloseResults preserves the invariant of the cycle.
LEMMA CloseResultsKeeps ==
    ASSUME IInv, CloseResults
    PROVE  IInv'
<1> USE Sizes DEF pool, totals, meter, histories
<1>0. TypeOK /\ Planning /\ InOrder /\ Uncut /\ Summed /\ Channels /\ HandedOut /\ OneWorkerPerSession
  BY DEF IInv
<1>1. TypeOK'
  BY <1>0 DEF CloseResults, TypeOK, Results
<1>2. Planning'
  BY <1>0 DEF CloseResults, TypeOK, Planning
<1>3. InOrder'
  BY <1>0 DEF CloseResults, TypeOK, InOrder, IndexedBy, ListedBy
<1>4. Uncut'
  BY <1>0 DEF CloseResults, TypeOK, Uncut, IndexedBy, ListedBy
<1>5. Summed'
  BY <1>0 DEF CloseResults, TypeOK, Summed
<1>6. Channels'
  BY <1>0 DEF CloseResults, TypeOK, Channels
<1>7. HandedOut'
  BY <1>0 DEF CloseResults, TypeOK, HandedOut, Working
<1>8. OneWorkerPerSession'
  BY <1>0 DEF CloseResults, TypeOK, OneWorkerPerSession, Working
<1> QED
  BY <1>1, <1>2, <1>3, <1>4, <1>5, <1>6, <1>7, <1>8 DEF IInv

\* A pool that ends while the context is there has indexed all its sessions.
LEMMA PoolComplete ==
    ASSUME IInv, stage = "pool", ~resultsOpen, ~cancelled
    PROVE  IndexedBy(at) = ListedBy(at)
<1>0. TypeOK /\ Planning /\ Channels /\ HandedOut
  BY DEF IInv
<1>1. sent = plan[at].count /\ \A w \in Workers : worker[w] # "busy"
  BY <1>0 DEF Channels
<1>2. at \in Readers /\ plan[at].count \in 0..MaxSessions
  BY <1>0 DEF TypeOK, Planning, Readers
<1>3. \A p \in Positions : attempts[at][p] > 0 <=> p <= sent
  BY <1>0, <1>1, <1>2 DEF HandedOut, TypeOK, Positions
<1>4. ListedBy(at) = 1..sent
  BY <1>1, <1>2 DEF ListedBy
<1>5. sent \in 0..MaxSessions /\ MaxSessions \in Nat
  BY <1>1, <1>2, SizesAssumption
<1>6. \A p \in Positions : p \in 1..sent <=> p <= sent
  BY <1>5 DEF Positions
<1>7. 1..sent \subseteq Positions
  BY <1>5 DEF Positions
<1>8. IndexedBy(at) = {p \in Positions : p \in 1..sent}
  BY <1>3, <1>6, Zenon DEF IndexedBy
<1> QED
  BY <1>4, <1>7, <1>8

\* EndPool preserves the invariant of the cycle.
LEMMA EndPoolKeeps ==
    ASSUME IInv, EndPool
    PROVE  IInv'
<1> USE Sizes DEF pool, totals, meter, histories
<1>0. TypeOK /\ Planning /\ InOrder /\ Uncut /\ Summed /\ Channels /\ HandedOut /\ OneWorkerPerSession
  BY DEF IInv
<1>1. TypeOK'
  <2>1. at \in 1..NumReaders
    BY <1>0 DEF EndPool, TypeOK, Planning
  <2>2. at' \in 1..(NumReaders + 1) /\ stage' \in {"agents", "tombstone"}
    BY <2>1 DEF EndPool
  <2>3. changed' \in BOOLEAN /\ failed' \in BOOLEAN
    BY DEF EndPool
  <2> QED
    BY <1>0, <2>2, <2>3 DEF EndPool, TypeOK
<1>2. Planning'
  BY <1>0 DEF EndPool, TypeOK, Planning
<1>3. InOrder'
  <2>1. /\ stage = "pool" /\ stage' \in {"agents", "tombstone"}
        /\ UNCHANGED <<plan, attempts, marked>>
        /\ at' = IF stage' = "tombstone" THEN at ELSE at + 1
        /\ (stage' = "tombstone" => plan[at].complete /\ ~cancelled)
    BY DEF EndPool
  <2>2. at \in Nat
    BY <1>0 DEF TypeOK
  <2>3. \A r \in Readers, p \in Positions : attempts'[r][p] > 0 =>
           r < at' \/ (r = at' /\ stage' = "tombstone")
    BY <1>0, <2>1, <2>2 DEF InOrder
  <2>4. \A r \in marked' : r < at' /\ plan'[r].complete
    BY <1>0, <2>1, <2>2 DEF InOrder, TypeOK
  <2>5. stage' = "tombstone" => IndexedBy(at) = ListedBy(at)
    BY <2>1, PoolComplete DEF EndPool
  <2>6. stage' = "tombstone" => IndexedBy(at)' = ListedBy(at)' /\ at' = at
    BY <2>1, <2>5 DEF IndexedBy, ListedBy
  <2> QED
    BY <2>1, <2>3, <2>4, <2>6 DEF InOrder
<1>4. Uncut'
  <2>1. /\ stage = "pool" /\ stage' \in {"agents", "tombstone"}
        /\ UNCHANGED <<plan, attempts, marked, cancelled>>
        /\ at' = IF stage' = "tombstone" THEN at ELSE at + 1
        /\ (stage' = "agents" => ~plan[at].complete \/ cancelled)
    BY DEF EndPool
  <2>2. at \in Readers /\ \A r \in Readers : r < at + 1 => r < at \/ r = at
    BY <1>0, <2>1 DEF TypeOK, Planning, Readers
  <2>3. ~cancelled => IndexedBy(at) = ListedBy(at)
    BY PoolComplete DEF EndPool
  <2>4. \A r \in Readers : IndexedBy(r)' = IndexedBy(r) /\ ListedBy(r)' = ListedBy(r)
    BY <2>1 DEF IndexedBy, ListedBy
  <2> QED
    BY <1>0, <2>1, <2>2, <2>3, <2>4 DEF Uncut
<1>5. Summed'
  <2>1. /\ stage = "pool" /\ stage' \in {"agents", "tombstone"}
        /\ UNCHANGED <<plan, result, announced>>
        /\ at' = IF stage' = "tombstone" THEN at ELSE at + 1
        /\ changed' = (changed \/ SomeResult("changed"))
        /\ failed' = (failed \/ cancelled \/ SomeResult("failed"))
    BY DEF EndPool
  <2>2. \A p \in Positions : (result[p] = "changed" => changed') /\ (result[p] = "failed" => failed')
    BY <2>1 DEF SomeResult
  <2>3. at \in Nat /\ ~plan[at].failed
    BY <1>0, <2>1 DEF TypeOK, Planning
  <2>4. \A r \in Readers : r < at' /\ plan[r].failed => failed'
    <3>1. \A r \in Readers : r < at' => r < at \/ r = at
      BY <2>1, <2>3 DEF Readers
    <3>2. \A r \in Readers : r < at /\ plan[r].failed => failed
      BY <1>0, <2>1 DEF Summed
    <3> QED
      BY <2>1, <2>3, <3>1, <3>2, Zenon
  <2> QED
    BY <1>0, <2>1, <2>2, <2>4 DEF Summed
<1>6. Channels'
  BY <1>0 DEF EndPool, TypeOK, Channels
<1>7. HandedOut'
  BY <1>0 DEF EndPool, TypeOK, HandedOut, Working
<1>8. OneWorkerPerSession'
  BY <1>0 DEF EndPool, TypeOK, OneWorkerPerSession, Working
<1> QED
  BY <1>1, <1>2, <1>3, <1>4, <1>5, <1>6, <1>7, <1>8 DEF IInv

\* MarkOmissions preserves the invariant of the cycle.
LEMMA MarkOmissionsKeeps ==
    ASSUME IInv, MarkOmissions
    PROVE  IInv'
<1> USE Sizes DEF pool, totals, meter, histories
<1>0. TypeOK /\ Planning /\ InOrder /\ Uncut /\ Summed /\ Channels /\ HandedOut /\ OneWorkerPerSession
  BY DEF IInv
<1>1. TypeOK'
  <2>1. at \in Readers /\ at' \in 1..(NumReaders + 1)
    BY <1>0 DEF MarkOmissions, TypeOK, Planning, Readers
  <2>2. changed' \in BOOLEAN /\ marked' \in SUBSET Readers
    BY <1>0, <2>1 DEF MarkOmissions, TypeOK
  <2> QED
    BY <1>0, <2>1, <2>2 DEF MarkOmissions, TypeOK
<1>2. Planning'
  BY <1>0 DEF MarkOmissions, TypeOK, Planning
<1>3. InOrder'
  BY <1>0 DEF MarkOmissions, TypeOK, InOrder, IndexedBy, ListedBy
<1>4. Uncut'
  <2>1. stage = "tombstone" /\ at' = at + 1 /\ marked' = marked \union {at}
        /\ UNCHANGED <<plan, attempts, cancelled>>
    BY DEF MarkOmissions
  <2>2. at \in Readers /\ \A r \in Readers : r < at + 1 => r < at \/ r = at
    BY <1>0, <2>1 DEF TypeOK, Planning, Readers
  <2>3. IndexedBy(at) = ListedBy(at)
    BY <1>0, <2>1 DEF InOrder
  <2>4. \A r \in Readers : IndexedBy(r)' = IndexedBy(r) /\ ListedBy(r)' = ListedBy(r)
    BY <2>1 DEF IndexedBy, ListedBy
  <2> QED
    BY <1>0, <2>1, <2>2, <2>3, <2>4 DEF Uncut
<1>5. Summed'
  <2>1. /\ stage = "tombstone" /\ stage' = "agents" /\ at' = at + 1 /\ (changed => changed')
        /\ UNCHANGED <<plan, result, failed, announced>>
    BY <1>0 DEF MarkOmissions, TypeOK
  <2>2. at \in Nat /\ ~plan[at].failed
    BY <1>0, <2>1 DEF TypeOK, Planning
  <2>3. \A r \in Readers : r < at + 1 => r < at \/ r = at
    BY <2>2 DEF Readers
  <2> QED
    BY <1>0, <2>1, <2>2, <2>3 DEF Summed
<1>6. Channels'
  BY <1>0 DEF MarkOmissions, TypeOK, Channels
<1>7. HandedOut'
  BY <1>0 DEF MarkOmissions, TypeOK, HandedOut, Working
<1>8. OneWorkerPerSession'
  BY <1>0 DEF MarkOmissions, TypeOK, OneWorkerPerSession, Working
<1> QED
  BY <1>1, <1>2, <1>3, <1>4, <1>5, <1>6, <1>7, <1>8 DEF IInv

\* Finish preserves the invariant of the cycle.
LEMMA FinishKeeps ==
    ASSUME IInv, Finish
    PROVE  IInv'
<1> USE Sizes DEF pool, totals, meter, histories
<1>0. TypeOK /\ Planning /\ InOrder /\ Uncut /\ Summed /\ Channels /\ HandedOut /\ OneWorkerPerSession
  BY DEF IInv
<1>1. TypeOK'
  BY <1>0 DEF Finish, TypeOK, Results
<1>2. Planning'
  BY <1>0 DEF Finish, TypeOK, Planning
<1>3. InOrder'
  BY <1>0 DEF Finish, TypeOK, InOrder, IndexedBy, ListedBy
<1>4. Uncut'
  BY <1>0 DEF Finish, TypeOK, Uncut, IndexedBy, ListedBy
<1>5. Summed'
  BY <1>0 DEF Finish, TypeOK, Summed
<1>6. Channels'
  BY <1>0 DEF Finish, TypeOK, Channels
<1>7. HandedOut'
  BY <1>0 DEF Finish, TypeOK, HandedOut, Working
<1>8. OneWorkerPerSession'
  BY <1>0 DEF Finish, TypeOK, OneWorkerPerSession, Working
<1> QED
  BY <1>1, <1>2, <1>3, <1>4, <1>5, <1>6, <1>7, <1>8 DEF IInv

\* Cancel preserves the invariant of the cycle.
LEMMA CancelKeeps ==
    ASSUME IInv, Cancel
    PROVE  IInv'
<1> USE Sizes DEF pool, totals, meter, histories
<1>0. TypeOK /\ Planning /\ InOrder /\ Uncut /\ Summed /\ Channels /\ HandedOut /\ OneWorkerPerSession
  BY DEF IInv
<1>1. TypeOK'
  BY <1>0 DEF Cancel, TypeOK, Results
<1>2. Planning'
  BY <1>0 DEF Cancel, TypeOK, Planning
<1>3. InOrder'
  BY <1>0 DEF Cancel, TypeOK, InOrder, IndexedBy, ListedBy
<1>4. Uncut'
  BY <1>0 DEF Cancel, TypeOK, Uncut, IndexedBy, ListedBy
<1>5. Summed'
  BY <1>0 DEF Cancel, TypeOK, Summed
<1>6. Channels'
  BY <1>0 DEF Cancel, TypeOK, Channels
<1>7. HandedOut'
  BY <1>0 DEF Cancel, TypeOK, HandedOut, Working
<1>8. OneWorkerPerSession'
  BY <1>0 DEF Cancel, TypeOK, OneWorkerPerSession, Working
<1> QED
  BY <1>1, <1>2, <1>3, <1>4, <1>5, <1>6, <1>7, <1>8 DEF IInv

-----------------------------------------------------------------------------

\* Every step preserves the invariant: one lemma above per action.
LEMMA NextIInv == IInv /\ [Next]_vars => IInv'
<1> SUFFICES ASSUME IInv, [Next]_vars PROVE IInv'
  OBVIOUS
<1>1. CASE Caller
  BY <1>1, ListReaderKeeps, ListCancelledKeeps, BeginIndexingKeeps, AgentsCancelledKeeps,
     SkipFailedReaderKeeps, StartPoolKeeps, CollectKeeps, EndPoolKeeps, MarkOmissionsKeeps,
     FinishKeeps, Zenon DEF Caller
<1>2. CASE \E w \in Workers : Worker(w)
  BY <1>2, DispatchKeeps, WorkerLeavesKeeps, IndexSessionKeeps, Zenon DEF Worker
<1>3. CASE CloseJobs \/ CloseResults \/ Cancel
  BY <1>3, CloseJobsKeeps, CloseResultsKeeps, CancelKeeps, Zenon
<1>4. CASE UNCHANGED vars
  <2> USE <1>4 DEF vars, pool, totals, meter, histories
  <2>1. TypeOK' /\ Planning' /\ Summed' /\ Channels'
    BY DEF IInv, TypeOK, Planning, Summed, Channels
  <2>2. InOrder' /\ Uncut'
    BY DEF IInv, InOrder, Uncut, IndexedBy, ListedBy
  <2>3. HandedOut' /\ OneWorkerPerSession'
    BY DEF IInv, HandedOut, OneWorkerPerSession, Working
  <2> QED
    BY <2>1, <2>2, <2>3 DEF IInv
<1> QED
  BY <1>1, <1>2, <1>3, <1>4, Zenon DEF Next

\* The invariant holds throughout a cycle.
LEMMA SpecIInv == Spec => []IInv
BY InitIInv, NextIInv, PTL DEF Spec

\* Every variable of a cycle keeps its type, whatever the context does; in
\* particular the dispatcher stays within the planned sessions.
THEOREM TypeCorrect == Spec => []TypeOK
<1>1. IInv => TypeOK
  BY DEF IInv
<1> QED
  BY <1>1, SpecIInv, PTL

\* No session is ever in two hands, for every number of workers and sessions.
THEOREM SessionsHaveOneWorker == Spec => []OneWorkerPerSession
<1>1. IInv => OneWorkerPerSession
  BY DEF IInv
<1> QED
  BY <1>1, SpecIInv, PTL

\* indexReaderSessions leaves no worker behind.
THEOREM PoolsEndQuiet == Spec => []PoolQuiet
<1>1. IInv => PoolQuiet
  BY DEF IInv, Channels, PoolQuiet
<1> QED
  BY <1>1, SpecIInv, PTL

-----------------------------------------------------------------------------
(* The cycle keeps the promises of IndexRound: the initial states map to      *)
(* initial states, and every step to a step of the round or to none.          *)

\* A cycle that begins is a round that begins.
LEMMA InitRound == Init => round!Init
<1> SUFFICES ASSUME Init PROVE round!Init
  OBVIOUS
<1>1. \A r \in Readers : plan[r].count = -1 /\ ~plan[r].complete /\ ~plan[r].failed
  BY DEF Init, NoPlan
<1>2. \A r \in Readers : ListedBy(r) = {-1} /\ IndexedBy(r) = {}
  BY <1>1 DEF Init, ListedBy, IndexedBy
<1>3. Complete = {} /\ marked = {} /\ Outcome = "none"
  BY <1>1 DEF Complete, Outcome, Init
<1>4. ~Found("changed") /\ ~Found("failed")
  BY DEF Init, Found, SomeResult, NoResults
<1>5. Dirty = FALSE /\ Trouble = FALSE
  BY <1>1, <1>4, Zenon DEF Dirty, Trouble, Init
<1>6. cancelled = FALSE /\ announced = FALSE
  BY DEF Init
<1>7. [r \in Readers |-> ListedBy(r)] = [r \in Readers |-> {-1}]
  BY <1>2
<1>8. [r \in Readers |-> IndexedBy(r)] = [r \in Readers |-> {}]
  BY <1>2
<1> QED
  BY <1>3, <1>5, <1>6, <1>7, <1>8, Zenon DEF round!Init, round!Unlisted

\* A step that leaves the plan, the history and the totals alone is none of the round.
LEMMA Still ==
    ASSUME UNCHANGED <<plan, attempts, marked, cancelled, announced>>,
           Dirty' <=> Dirty, Trouble' <=> Trouble, Outcome' = Outcome
    PROVE  UNCHANGED round!roundVars
<1>1. \A r \in Readers : ListedBy(r)' = ListedBy(r) /\ IndexedBy(r)' = IndexedBy(r)
  BY DEF ListedBy, IndexedBy
<1>2. [r \in Readers |-> ListedBy(r)]' = [r \in Readers |-> ListedBy(r)]
  BY <1>1
<1>3. [r \in Readers |-> IndexedBy(r)]' = [r \in Readers |-> IndexedBy(r)]
  BY <1>1
<1>4. Complete' = Complete
  BY DEF Complete
<1>5. Dirty' = Dirty /\ Trouble' = Trouble
  BY Zenon DEF Dirty, Trouble
<1> QED
  BY <1>2, <1>3, <1>4, <1>5, Zenon DEF round!roundVars

\* As long as the cycle goes on the round has no outcome.
LEMMA GoesOn == ASSUME stage # "returned", stage' # "returned" PROVE Outcome = "none" /\ Outcome' = "none"
BY DEF Outcome

\* Between two readers nothing found is in a worker's hands.
LEMMA Settled ==
    ASSUME IInv, stage # "pool"
    PROVE  /\ Dirty <=> changed
           /\ Trouble <=> failed \/ \E r \in Readers : plan[r].failed
<1>1. ~Found("changed") \/ changed
  BY DEF IInv, Channels, Summed, Found, SomeResult
<1>2. ~Found("failed") \/ failed
  BY DEF IInv, Channels, Summed, Found, SomeResult
<1> QED
  BY <1>1, <1>2, Zenon DEF Dirty, Trouble

\* BeginIndexing is no step of the round: it stutters.
LEMMA BeginIndexingStill == ASSUME IInv, BeginIndexing PROVE UNCHANGED round!roundVars
<1>1. UNCHANGED <<plan, attempts, marked, cancelled, announced, changed, failed, worker, result>>
      /\ stage # "returned" /\ stage' # "returned"
  BY DEF BeginIndexing, pool, totals, histories
<1> QED
  BY <1>1, Still, GoesOn DEF Dirty, Trouble, Found, SomeResult

\* SkipFailedReader is no step of the round: it stutters.
LEMMA SkipFailedReaderStill == ASSUME IInv, SkipFailedReader PROVE UNCHANGED round!roundVars
<1>1. /\ UNCHANGED <<plan, attempts, marked, cancelled, announced, changed, worker, result>>
      /\ stage # "returned" /\ stage' # "returned"
      /\ failed' /\ plan[at].failed /\ at \in Readers
  BY DEF IInv, TypeOK, Readers, SkipFailedReader, pool, totals, histories
<1>2. Dirty' <=> Dirty
  BY <1>1 DEF Dirty, Found, SomeResult
<1>3. Trouble' /\ Trouble
  BY <1>1 DEF Trouble
<1> QED
  BY <1>1, <1>2, <1>3, Still, GoesOn

\* StartPool is no step of the round: it stutters.
LEMMA StartPoolStill == ASSUME IInv, StartPool PROVE UNCHANGED round!roundVars
<1>1. /\ UNCHANGED <<plan, attempts, marked, cancelled, announced, changed, failed>>
      /\ stage = "agents" /\ stage' = "pool" /\ result' = NoResults
      /\ \A w \in Workers : worker'[w] \in {"wait", "gone"}
  BY DEF StartPool, totals, histories
<1>2. Dirty <=> changed
  BY <1>1, Settled
<1>3. Trouble <=> failed \/ \E r \in Readers : plan[r].failed
  BY <1>1, Settled
<1>4. ~Found("changed")' /\ ~Found("failed")'
  BY <1>1 DEF Found, SomeResult, NoResults
<1>5. Dirty' <=> Dirty
  BY <1>1, <1>2, <1>4, Zenon DEF Dirty
<1>6. Trouble' <=> Trouble
  BY <1>1, <1>3, <1>4, Zenon DEF Trouble
<1> QED
  BY <1>1, <1>5, <1>6, Still, GoesOn

\* What a worker or a channel does between its results changes nothing found.
LEMMA NothingFoundStill ==
    ASSUME UNCHANGED <<plan, attempts, marked, cancelled, announced, changed, failed, result>>,
           stage' = stage, at' = at,
           \A w \in Workers : worker'[w] = worker[w] \/ (worker'[w] \notin Results /\ worker[w] \notin Results)
    PROVE  UNCHANGED round!roundVars
<1>1. \A res \in Results : Found(res)' <=> Found(res)
  BY DEF Found, SomeResult
<1>2. (Dirty' <=> Dirty) /\ (Trouble' <=> Trouble)
  BY <1>1 DEF Dirty, Trouble, Results
<1>3. LeftNothingOut' <=> LeftNothingOut
  BY DEF LeftNothingOut, Complete, IndexedBy, ListedBy
<1>4. Outcome' = Outcome
  BY <1>3 DEF Outcome
<1> QED
  BY <1>2, <1>4, Still

\* Dispatch is no step of the round: it stutters.
LEMMA DispatchStill == ASSUME IInv, NEW w \in Workers, Dispatch(w) PROVE UNCHANGED round!roundVars
<1>1. \A v \in Workers : worker'[v] = worker[v] \/ (worker'[v] \notin Results /\ worker[v] \notin Results)
  BY DEF IInv, TypeOK, Dispatch, Results
<1> QED
  BY <1>1, NothingFoundStill DEF Dispatch, totals, histories

\* WorkerLeaves is no step of the round: it stutters.
LEMMA WorkerLeavesStill == ASSUME IInv, NEW w \in Workers, WorkerLeaves(w) PROVE UNCHANGED round!roundVars
<1>1. \A v \in Workers : worker'[v] = worker[v] \/ (worker'[v] \notin Results /\ worker[v] \notin Results)
  BY DEF IInv, TypeOK, WorkerLeaves, Results
<1> QED
  BY <1>1, NothingFoundStill DEF WorkerLeaves, totals, histories

\* Closing a channel is no step of the round.
LEMMA ChannelStill == ASSUME CloseJobs \/ CloseResults PROVE UNCHANGED round!roundVars
BY NothingFoundStill DEF CloseJobs, CloseResults, totals, histories

\* A result changes hands: it is found before and after.
LEMMA CollectStill == ASSUME IInv, NEW w \in Workers, Collect(w) PROVE UNCHANGED round!roundVars
<1>1. /\ UNCHANGED <<plan, attempts, marked, cancelled, announced, changed, failed>>
      /\ worker[w] \in Results
      /\ worker' = [worker EXCEPT ![w] = "wait"]
      /\ result' = [result EXCEPT ![holds[w]] = worker[w]]
      /\ stage = "pool" /\ stage' = "pool"
  BY DEF IInv, Channels, Collect, totals, histories
<1>2. /\ worker \in [Workers -> {"gone", "wait", "busy"} \union Results]
      /\ result \in [Positions -> {"none"} \union Results]
  BY DEF IInv, TypeOK
<1>3. holds[w] \in Positions /\ result[holds[w]] = "none"
  <2>1. Working(w)
    BY <1>1 DEF Working, Results
  <2>2. holds[w] \in 1..sent /\ result[holds[w]] = "none"
    BY <2>1 DEF IInv, HandedOut, OneWorkerPerSession
  <2>3. sent \in 0..size /\ size \in 0..MaxSessions
    BY DEF IInv, TypeOK
  <2> QED
    BY <2>2, <2>3, Sizes DEF Positions
<1>4. \A v \in Workers : IF v = w THEN worker'[v] = "wait" ELSE worker'[v] = worker[v]
  BY <1>1, <1>2
<1>5. \A p \in Positions : IF p = holds[w] THEN result'[p] = worker[w] ELSE result'[p] = result[p]
  BY <1>1, <1>2
<1>6. \A res \in Results : Found(res)' <=> Found(res)
  <2> SUFFICES ASSUME NEW res \in Results PROVE Found(res)' <=> Found(res)
    OBVIOUS
  <2>1. res # "wait" /\ res # "none"
    BY DEF Results
  <2>2. Found(res) => Found(res)'
    BY <1>3, <1>4, <1>5, <2>1 DEF Found, SomeResult
  <2>3. Found(res)' => Found(res)
    BY <1>3, <1>4, <1>5, <2>1 DEF Found, SomeResult
  <2> QED
    BY <2>2, <2>3
<1>7. (Dirty' <=> Dirty) /\ (Trouble' <=> Trouble)
  BY <1>1, <1>6 DEF Dirty, Trouble, Results
<1> QED
  BY <1>1, <1>7, Still, GoesOn

\* A reader that the end of the context interrupts is an error; otherwise the sums
\* are those of the results.
LEMMA EndPoolRound == ASSUME IInv, EndPool PROVE round!Interrupted \/ UNCHANGED round!roundVars
<1>1. /\ UNCHANGED <<plan, attempts, marked, cancelled, announced, worker, result>>
      /\ changed' = (changed \/ SomeResult("changed"))
      /\ failed' = (failed \/ cancelled \/ SomeResult("failed"))
      /\ stage # "returned" /\ stage' # "returned"
  BY DEF EndPool, pool, histories
<1>2. \A w \in Workers : worker[w] = "gone"
  BY DEF IInv, Channels, EndPool
<1>3. \A res \in Results : (Found(res) <=> SomeResult(res)) /\ (Found(res)' <=> SomeResult(res))
  BY <1>1, <1>2 DEF Found, SomeResult, Results
<1>4. Dirty' <=> Dirty
  BY <1>1, <1>3 DEF Dirty, Results
<1>5. CASE ~cancelled
  <2>1. Trouble' <=> Trouble
    BY <1>1, <1>3, <1>5 DEF Trouble, Results
  <2> QED
    BY <1>1, <1>4, <2>1, Still, GoesOn
<1>6. CASE cancelled
  <2>1. Trouble'
    BY <1>1, <1>6 DEF Trouble
  <2>2. \A r \in Readers : ListedBy(r)' = ListedBy(r) /\ IndexedBy(r)' = IndexedBy(r)
    BY <1>1 DEF ListedBy, IndexedBy
  <2>3. [r \in Readers |-> ListedBy(r)]' = [r \in Readers |-> ListedBy(r)]
    BY <2>2
  <2>4. [r \in Readers |-> IndexedBy(r)]' = [r \in Readers |-> IndexedBy(r)]
    BY <2>2
  <2>5. Complete' = Complete
    BY <1>1 DEF Complete
  <2>6. Dirty' = Dirty /\ Trouble' = TRUE
    BY <1>4, <2>1, Zenon DEF Dirty, Trouble
  <2>7. Outcome = "none" /\ Outcome' = "none"
    BY <1>1, GoesOn
  <2> QED
    BY <1>1, <1>6, <2>3, <2>4, <2>5, <2>6, <2>7, Zenon DEF round!Interrupted
<1> QED
  BY <1>5, <1>6

\* Listing a reader is the round's listing of it.
LEMMA ListReaderRound == ASSUME IInv, ListReader PROVE round!List(at)
<1> USE Sizes
<1>1. PICK n \in 0..MaxSessions, c \in BOOLEAN, f \in BOOLEAN :
         plan' = [plan EXCEPT ![at] = [count |-> n, complete |-> c, failed |-> f]]
  BY DEF ListReader
<1>2. /\ at \in Readers /\ stage = "list" /\ stage' = "list"
      /\ UNCHANGED <<worker, result, changed, failed, announced, cancelled, attempts, marked>>
      /\ plan \in [Readers -> [count : -1..MaxSessions, complete : BOOLEAN, failed : BOOLEAN]]
  BY DEF IInv, TypeOK, Readers, ListReader, pool, totals, histories
<1>3. plan[at] = NoPlan
  BY <1>2 DEF IInv, Planning
<1>4. /\ plan'[at] = [count |-> n, complete |-> c, failed |-> f]
      /\ \A r \in Readers : r # at => plan'[r] = plan[r]
  BY <1>1, <1>2
<1>5. ListedBy(at) = {-1} /\ \A r \in Readers : r = at => ListedBy(r)' = 1..n
  <2>1. plan[at].count = -1 /\ plan'[at].count = n /\ n # -1
    BY <1>3, <1>4 DEF NoPlan
  <2> QED
    BY <2>1 DEF ListedBy
<1>6. 1..n \in SUBSET Positions
  BY DEF Positions
<1>7. [r \in Readers |-> ListedBy(r)]' = [[r \in Readers |-> ListedBy(r)] EXCEPT ![at] = 1..n]
  <2>1. \A r \in Readers : ListedBy(r)' = IF r = at THEN 1..n ELSE ListedBy(r)
    BY <1>2, <1>4, <1>5 DEF ListedBy
  <2> QED
    BY <1>2, <2>1
<1>8. \A r \in Readers : IndexedBy(r) = {} /\ IndexedBy(r)' = {}
  <2>1. \A r \in Readers, p \in Positions : ~(attempts[r][p] > 0)
    BY <1>2 DEF IInv, InOrder
  <2> QED
    BY <1>2, <2>1 DEF IndexedBy
<1>9. [r \in Readers |-> IndexedBy(r)]' = [r \in Readers |-> IndexedBy(r)]
  BY <1>8
<1>10. Complete' \in {Complete, Complete \union {at}}
  <2>1. \A r \in Readers : r # at => (plan'[r].complete <=> plan[r].complete)
    BY <1>4
  <2>2. ~plan[at].complete
    BY <1>3 DEF NoPlan
  <2>3. CASE plan'[at].complete
    BY <1>2, <2>1, <2>2, <2>3 DEF Complete
  <2>4. CASE ~plan'[at].complete
    BY <1>2, <2>1, <2>2, <2>4 DEF Complete
  <2> QED
    BY <2>3, <2>4
<1>11. Trouble' \in {Trouble, TRUE}
  <2>1. Found("failed")' <=> Found("failed")
    BY <1>2 DEF Found, SomeResult
  <2>2. \A r \in Readers : plan[r].failed => plan'[r].failed
    BY <1>3, <1>4 DEF NoPlan
  <2>3. Trouble => Trouble'
    BY <1>2, <2>1, <2>2, Zenon DEF Trouble
  <2> QED
    BY <2>3, Zenon DEF Trouble
<1>12. Dirty' = Dirty
  BY <1>2 DEF Dirty, Found, SomeResult
<1>13. Outcome = "none" /\ Outcome' = "none"
  BY <1>2, GoesOn
<1>14. [r \in Readers |-> ListedBy(r)][at] = {-1} /\ \A q \in Readers : [r \in Readers |-> IndexedBy(r)][q] = {}
  BY <1>2, <1>5, <1>8
<1>15. \E S \in SUBSET Positions :
          [r \in Readers |-> ListedBy(r)]' = [[r \in Readers |-> ListedBy(r)] EXCEPT ![at] = S]
  BY <1>6, <1>7
<1> QED
  BY <1>2, <1>9, <1>10, <1>11, <1>12, <1>13, <1>14, <1>15, Zenon DEF round!List, round!Unlisted

\* The end of a worker's call of indexSession is the round's indexing of that session.
LEMMA IndexSessionRound ==
    ASSUME IInv, NEW w \in Workers, IndexSession(w)
    PROVE  round!Index(at, holds[w])
<1> USE Sizes
<1> DEFINE h == holds[w]
<1>1. PICK res \in Results : worker' = [worker EXCEPT ![w] = res]
  BY DEF IndexSession
<1>2. /\ worker[w] = "busy" /\ attempts' = [attempts EXCEPT ![at][h] = @ + 1]
      /\ UNCHANGED <<stage, at, plan, result, changed, failed, announced, cancelled, marked>>
  BY DEF IndexSession, totals
<1>3. stage = "pool" /\ at \in Readers /\ h \in 1..sent /\ sent \in 0..size /\ size = plan[at].count
      /\ attempts[at][h] = 0 /\ size \in 0..MaxSessions
  BY <1>2 DEF IInv, TypeOK, Planning, Channels, HandedOut, Working, Readers
<1>4. h \in Positions /\ h \in ListedBy(at) /\ h \notin IndexedBy(at)
  BY <1>3 DEF Positions, ListedBy, IndexedBy
<1>5. attempts \in [Readers -> [Positions -> Nat]]
      /\ worker \in [Workers -> {"gone", "wait", "busy"} \union Results]
  BY DEF IInv, TypeOK
<1>6. \A r \in Readers : ListedBy(r) # {-1} /\ ListedBy(r)' = ListedBy(r)
  <2> SUFFICES ASSUME NEW r \in Readers PROVE ListedBy(r) # {-1} /\ ListedBy(r)' = ListedBy(r)
    OBVIOUS
  <2>1. plan[r].count >= 0 /\ plan[r].count \in -1..MaxSessions
    BY <1>3 DEF IInv, Planning, TypeOK
  <2>2. ListedBy(r) = 1..plan[r].count /\ -1 \notin 1..plan[r].count
    BY <2>1 DEF ListedBy
  <2>3. ListedBy(r)' = ListedBy(r)
    BY <1>2 DEF ListedBy
  <2> QED
    BY <2>2, <2>3
<1>7. \A r \in Readers, p \in Positions :
         attempts'[r][p] = IF r = at /\ p = h THEN attempts[r][p] + 1 ELSE attempts[r][p]
  BY <1>2, <1>3, <1>4, <1>5
<1>8. \A r \in Readers : IndexedBy(r)' = IF r = at THEN IndexedBy(at) \union {h} ELSE IndexedBy(r)
  <2>1. \A p \in Positions : attempts'[at][p] > 0 <=> p = h \/ attempts[at][p] > 0
    <3>1. attempts'[at][h] = 1
      BY <1>3, <1>4, <1>7
    <3>2. \A p \in Positions : p # h => attempts'[at][p] = attempts[at][p]
      BY <1>3, <1>7
    <3> HIDE DEF h
    <3> QED
      BY <3>1, <3>2
  <2>2. \A r \in Readers : r = at => IndexedBy(r)' = IndexedBy(at) \union {h}
    BY <1>2, <1>4, <2>1 DEF IndexedBy
  <2>3. \A r \in Readers : r # at => IndexedBy(r)' = IndexedBy(r)
    BY <1>7 DEF IndexedBy
  <2> QED
    BY <2>2, <2>3
<1>9. [r \in Readers |-> IndexedBy(r)]' =
         [[r \in Readers |-> IndexedBy(r)] EXCEPT ![at] = @ \union {h}]
  <2> DEFINE G == [r \in Readers |-> IndexedBy(r)]
  <2>1. G' = [r \in Readers |-> IF r = at THEN IndexedBy(at) \union {h} ELSE IndexedBy(r)]
    BY <1>8
  <2>2. \A r \in Readers : G[r] = IndexedBy(r)
    OBVIOUS
  <2>3. [G EXCEPT ![at] = @ \union {h}] =
           [r \in Readers |-> IF r = at THEN G[at] \union {h} ELSE G[r]]
    <3>1. G = [r \in Readers |-> G[r]]
      OBVIOUS
    <3> HIDE DEF G, h
    <3> QED
      BY <1>3, <3>1
  <2>4. [r \in Readers |-> IF r = at THEN G[at] \union {h} ELSE G[r]] =
           [r \in Readers |-> IF r = at THEN IndexedBy(at) \union {h} ELSE IndexedBy(r)]
    BY <1>3, <2>2
  <2> QED
    BY <2>1, <2>3, <2>4
<1>10. [r \in Readers |-> ListedBy(r)]' = [r \in Readers |-> ListedBy(r)]
  BY <1>6
<1>11. Complete' = Complete
  BY <1>2 DEF Complete
<1>12. at \notin marked
  BY <1>3 DEF IInv, TypeOK, InOrder
<1>13. \A x \in Results : Found(x) => Found(x)'
  BY <1>2, <1>1, <1>5 DEF Found, SomeResult, Results
<1>14. Dirty' \in {Dirty, TRUE}
  <2>1. Dirty => Dirty'
    BY <1>2, <1>13 DEF Dirty, Results
  <2> QED
    BY <2>1, Zenon DEF Dirty
<1>15. Trouble' \in {Trouble, TRUE}
  <2>1. Trouble => Trouble'
    BY <1>2, <1>13 DEF Trouble, Results
  <2> QED
    BY <2>1, Zenon DEF Trouble
<1>16. Outcome = "none" /\ Outcome' = "none"
  BY <1>2, <1>3, GoesOn
<1>17. /\ \A q \in Readers : [r \in Readers |-> ListedBy(r)][q] # {-1}
       /\ h \in [r \in Readers |-> ListedBy(r)][at] \ [r \in Readers |-> IndexedBy(r)][at]
  BY <1>3, <1>4, <1>6
<1> QED
  BY <1>2, <1>9, <1>10, <1>11, <1>12, <1>14, <1>15, <1>16, <1>17, Zenon
  DEF round!Index, round!Unlisted

\* Marking the omissions of a reader is the round's tombstones for it.
LEMMA MarkOmissionsRound == ASSUME IInv, MarkOmissions PROVE round!Tombstone(at)
<1>1. /\ UNCHANGED <<plan, attempts, cancelled, announced, failed, worker, result>>
      /\ marked' = marked \union {at} /\ changed' \in {changed, TRUE}
      /\ stage = "tombstone" /\ stage' = "agents"
  BY DEF MarkOmissions, pool
<1>2. at \in Readers /\ plan[at].complete /\ at \notin marked /\ IndexedBy(at) = ListedBy(at)
  BY <1>1, Sizes DEF IInv, TypeOK, Planning, InOrder, Readers
<1>3. \A r \in Readers : ListedBy(r)' = ListedBy(r) /\ IndexedBy(r)' = IndexedBy(r)
  BY <1>1 DEF ListedBy, IndexedBy
<1>4. [r \in Readers |-> ListedBy(r)]' = [r \in Readers |-> ListedBy(r)]
  BY <1>3
<1>5. [r \in Readers |-> IndexedBy(r)]' = [r \in Readers |-> IndexedBy(r)]
  BY <1>3
<1>6. Complete' = Complete /\ at \in Complete \ marked
  BY <1>1, <1>2 DEF Complete
<1>7. Trouble' = Trouble
  BY <1>1 DEF Trouble, Found, SomeResult
<1>8. Dirty' \in {Dirty, TRUE}
  <2>1. Found("changed")' <=> Found("changed")
    BY <1>1 DEF Found, SomeResult
  <2>2. Dirty => Dirty'
    BY <1>1, <2>1, Zenon DEF Dirty
  <2> QED
    BY <2>2, Zenon DEF Dirty
<1>9. Outcome = "none" /\ Outcome' = "none"
  BY <1>1, GoesOn
<1>10. [r \in Readers |-> IndexedBy(r)][at] = [r \in Readers |-> ListedBy(r)][at]
  BY <1>2
<1> QED
  BY <1>1, <1>4, <1>5, <1>6, <1>7, <1>8, <1>9, <1>10, Zenon DEF round!Tombstone

\* The end of the context is the round's.
LEMMA CancelRound == ASSUME Cancel PROVE round!ContextEnds
<1>1. /\ UNCHANGED <<stage, at, plan, attempts, marked, announced, changed, failed, worker, result>>
      /\ ~cancelled /\ cancelled' = TRUE /\ stage # "returned"
  BY DEF Cancel, pool, totals, histories
<1>2. \A r \in Readers : ListedBy(r)' = ListedBy(r) /\ IndexedBy(r)' = IndexedBy(r)
  BY <1>1 DEF ListedBy, IndexedBy
<1>3. [r \in Readers |-> ListedBy(r)]' = [r \in Readers |-> ListedBy(r)]
  BY <1>2
<1>4. [r \in Readers |-> IndexedBy(r)]' = [r \in Readers |-> IndexedBy(r)]
  BY <1>2
<1>5. Complete' = Complete /\ Trouble' = Trouble /\ Dirty' = Dirty
  BY <1>1 DEF Complete, Trouble, Dirty, Found, SomeResult
<1>6. Outcome' = Outcome
  BY <1>1, GoesOn
<1> QED
  BY <1>1, <1>3, <1>4, <1>5, <1>6, Zenon DEF round!ContextEnds

\* What the three ways to return have in common: nothing but the outcome changes.
LEMMA Returning ==
    ASSUME ListCancelled \/ AgentsCancelled \/ Finish
    PROVE  /\ UNCHANGED <<plan, attempts, marked, cancelled>>
           /\ [r \in Readers |-> ListedBy(r)]' = [r \in Readers |-> ListedBy(r)]
           /\ [r \in Readers |-> IndexedBy(r)]' = [r \in Readers |-> IndexedBy(r)]
           /\ Complete' = Complete /\ Trouble' = Trouble /\ Dirty' = Dirty
           /\ Outcome = "none" /\ LeftNothingOut' = LeftNothingOut
<1>1. UNCHANGED <<at, plan, attempts, marked, cancelled, changed, failed, worker, result>>
      /\ stage # "returned"
  BY DEF ListCancelled, AgentsCancelled, Finish, pool, totals, histories
<1>2. \A r \in Readers : ListedBy(r)' = ListedBy(r) /\ IndexedBy(r)' = IndexedBy(r)
  BY <1>1 DEF ListedBy, IndexedBy
<1>3. [r \in Readers |-> ListedBy(r)]' = [r \in Readers |-> ListedBy(r)]
  BY <1>2
<1>4. [r \in Readers |-> IndexedBy(r)]' = [r \in Readers |-> IndexedBy(r)]
  BY <1>2
<1>5. Complete' = Complete /\ Trouble' = Trouble /\ Dirty' = Dirty
  BY <1>1 DEF Complete, Trouble, Dirty, Found, SomeResult
<1>6. LeftNothingOut' = LeftNothingOut
  BY <1>1 DEF LeftNothingOut, Complete, ListedBy, IndexedBy
<1> QED
  BY <1>1, <1>3, <1>4, <1>5, <1>6, Zenon DEF Outcome

\* A cycle cancelled while listing is a cancelled round.
LEMMA ListCancelledRound == ASSUME IInv, ListCancelled PROVE round!Cancel
<1>1. cancelled /\ at <= NumReaders /\ at' = at /\ stage' = "returned" /\ announced' = announced
      /\ announced = FALSE
  BY DEF IInv, TypeOK, Summed, ListCancelled, totals
<1>2. Outcome' = "cancelled"
  BY <1>1 DEF Outcome
<1> QED
  BY <1>1, <1>2, Returning, Zenon DEF round!Cancel

\* A cycle cancelled between two readers is a cancelled round.
LEMMA AgentsCancelledRound == ASSUME IInv, AgentsCancelled PROVE round!Cancel
<1>1. cancelled /\ at <= NumReaders /\ at' = at /\ stage' = "returned" /\ announced' = announced
      /\ announced = FALSE
  BY DEF IInv, TypeOK, Summed, AgentsCancelled, totals
<1>2. Outcome' = "cancelled"
  BY <1>1 DEF Outcome
<1> QED
  BY <1>1, <1>2, Returning, Zenon DEF round!Cancel

\* A cycle that finishes ends the round, or cancels it when the context is over.
LEMMA FinishRound == ASSUME IInv, Finish PROVE round!End \/ round!Cancel
<1>1. /\ stage = "agents" /\ stage' = "returned" /\ at > NumReaders /\ at' = at
      /\ announced' = changed /\ failed' = failed /\ cancelled' = cancelled
  BY DEF Finish, totals
<1>2. \A r \in Readers : r < at /\ ~(at <= NumReaders)
  BY <1>1, Sizes DEF IInv, TypeOK, Readers
<1>3. Dirty <=> changed
  BY <1>1, Settled
<1>4. Trouble <=> failed
  <2>1. Trouble <=> failed \/ \E r \in Readers : plan[r].failed
    BY <1>1, Settled
  <2>2. \A r \in Readers : plan[r].failed => failed
    BY <1>1, <1>2 DEF IInv, Summed
  <2> QED
    BY <2>1, <2>2, Zenon
<1>5. announced' = Dirty
  <2>1. changed \in BOOLEAN
    BY DEF IInv, TypeOK
  <2> QED
    BY <1>1, <1>3, <2>1, Zenon DEF Dirty
<1>6. CASE LeftNothingOut
  <2>1. Outcome' = IF Trouble THEN "errors" ELSE "ready"
    <3>1. LeftNothingOut' /\ ~(at' <= NumReaders)
      BY <1>1, <1>2, <1>6, Returning, Sizes
    <3>2. Outcome' = IF failed THEN "errors" ELSE "ready"
      BY <1>1, <3>1 DEF Outcome
    <3> QED
      BY <1>4, <3>2
  <2>2. \A r \in Readers : [q \in Readers |-> IndexedBy(q)][r] = [q \in Readers |-> ListedBy(q)][r]
    BY <1>6 DEF LeftNothingOut
  <2>3. Complete = marked
    BY <1>6 DEF LeftNothingOut, Complete, IInv, InOrder, TypeOK
  <2> QED
    BY <1>5, <2>1, <2>2, <2>3, Returning, Zenon DEF round!End
<1>7. CASE ~LeftNothingOut
  <2>1. Outcome' = "cancelled"
    <3>1. ~LeftNothingOut'
      BY <1>7, Returning
    <3> QED
      BY <1>1, <3>1 DEF Outcome
  <2>2. cancelled
    BY <1>1, <1>2, <1>7 DEF IInv, Uncut, LeftNothingOut, Complete
  <2> QED
    BY <1>5, <2>1, <2>2, Returning, Zenon DEF round!Cancel
<1> QED
  BY <1>6, <1>7

\* Every step of a cycle is a step of the round or a stutter.
LEMMA StepRound == IInv /\ [Next]_vars => [round!Next]_(round!roundVars)
<1> SUFFICES ASSUME IInv, [Next]_vars PROVE round!Next \/ UNCHANGED round!roundVars
  OBVIOUS
<1>1. CASE ListReader
  <2>1. at \in Readers
    BY <1>1 DEF ListReader, IInv, TypeOK, Readers
  <2> QED
    BY <1>1, <2>1, ListReaderRound DEF round!Next
<1>2. CASE \E w \in Workers : IndexSession(w)
  <2>1. PICK w \in Workers : IndexSession(w)
    BY <1>2
  <2>2. at \in Readers /\ holds[w] \in Positions
    BY <2>1, Sizes
    DEF IndexSession, IInv, TypeOK, Planning, Channels, HandedOut, Working, Readers, Positions
  <2> QED
    BY <2>1, <2>2, IndexSessionRound DEF round!Next
<1>3. CASE MarkOmissions
  <2>1. at \in Readers
    BY <1>3, Sizes DEF MarkOmissions, IInv, TypeOK, Planning, Readers
  <2> QED
    BY <1>3, <2>1, MarkOmissionsRound DEF round!Next
<1>4. CASE ListCancelled \/ AgentsCancelled \/ Finish
  BY <1>4, ListCancelledRound, AgentsCancelledRound, FinishRound DEF round!Next
<1>5. CASE Cancel
  BY <1>5, CancelRound DEF round!Next
<1>6. CASE EndPool
  BY <1>6, EndPoolRound DEF round!Next
<1>7. CASE BeginIndexing \/ SkipFailedReader \/ StartPool
  BY <1>7, BeginIndexingStill, SkipFailedReaderStill, StartPoolStill, Zenon
<1>8. CASE \E w \in Workers : Dispatch(w) \/ WorkerLeaves(w) \/ Collect(w)
  BY <1>8, DispatchStill, WorkerLeavesStill, CollectStill, Zenon
<1>9. CASE CloseJobs \/ CloseResults
  BY <1>9, ChannelStill, Zenon
<1>10. CASE UNCHANGED vars
  BY <1>10, NothingFoundStill DEF vars, pool, totals, histories
<1> QED
  BY <1>1, <1>2, <1>3, <1>4, <1>5, <1>6, <1>7, <1>8, <1>9, <1>10, Zenon
  DEF Next, Caller, Worker

\* The cycle implements the round, for every number of readers, sessions and
\* workers: indexOnce and indexReaderSessions index every listed session at most
\* once, tombstone only after a complete and finished inventory, and report and
\* announce what they did.
THEOREM CycleImplementsRound == Spec => ImplementsRound
<1>1. Init => round!Init
  BY InitRound
<1>2. IInv /\ [Next]_vars => [round!Next]_(round!roundVars)
  BY StepRound
<1> QED
  BY <1>1, <1>2, SpecIInv, PTL DEF Spec, ImplementsRound, round!Round

-----------------------------------------------------------------------------
(* Progress. A session counts from the moment a worker is through with it; its *)
(* result may still be on its way to the collector, which counts it in done.   *)

Counts == [r \in Readers |-> plan[r].count]
Listed == PairsUnder(Counts, NumReaders)
Attempted == {rp \in Readers \X Positions : attempts[rp[1]][rp[2]] > 0}
Delivering == {w \in Workers : worker[w] \in Results}

\* No session is indexed twice in a cycle.
Once == \A r \in Readers, p \in Positions : attempts[r][p] <= 1

\* No session is indexed that was not listed.
WithinList == \A r \in Readers, p \in Positions : attempts[r][p] > 0 => p <= plan[r].count

\* Every session that was indexed is in done, or its result is on its way there.
Counted == done \in Nat /\ done + Cardinality(Delivering) = Cardinality(Attempted)

\* What is shown is nothing at all, or no more than done of all that was listed.
Shown ==
    /\ stage # "list"
    /\ \A r \in Readers : plan[r].count >= 0
    /\ progress.total = Total[NumReaders]
    /\ progress.done \in 0 .. done
    /\ progress.percent = Percent(progress.state, progress.done, progress.total)
Metered == (progress.total = 0 /\ progress.done = 0) \/ Shown

MeterInv == Once /\ WithinList /\ Counted /\ Metered

\* The sessions listed and indexed, and the workers, are finitely many.
LEMMA FinitelyMany ==
    /\ IsFiniteSet(Attempted) /\ Cardinality(Attempted) \in Nat
    /\ IsFiniteSet(Delivering) /\ Cardinality(Delivering) \in Nat
<1>1. IsFiniteSet(Readers) /\ IsFiniteSet(Positions) /\ IsFiniteSet(Workers)
  BY SizesAssumption, FS_Interval DEF Readers, Positions, Workers
<1>2. IsFiniteSet(Readers \X Positions)
  BY <1>1, FS_Product
<1>3. Attempted \subseteq Readers \X Positions /\ Delivering \subseteq Workers
  BY DEF Attempted, Delivering
<1> QED
  BY <1>1, <1>2, <1>3, FS_Subset, FS_CardinalityType

\* Total is a running sum of the sessions listed.
LEMMA TotalIsRunningSum == IsRunningSum(Total, Counts, NumReaders)
<1> DEFINE E(g) == [r \in 0 .. NumReaders |-> IF r = 0 THEN 0 ELSE g[r - 1] + plan[r].count]
<1>1. Total = CHOOSE g : g = E(g)
  BY DEF Total
<1>2. ASSUME NEW g PROVE E(g) = [r \in 0 .. NumReaders |-> IF r = 0 THEN 0 ELSE g[r - 1] + Counts[r]]
  <2>1. \A r \in 0 .. NumReaders : r = 0 \/ Counts[r] = plan[r].count
    BY SizesAssumption DEF Counts, Readers
  <2> QED
    BY <2>1
<1>3. PICK g : IsRunningSum(g, Counts, NumReaders)
  BY RunningSumExists, SizesAssumption
<1>4. g = E(g)
  <2>1. g = [r \in 0 .. NumReaders |-> IF r = 0 THEN 0 ELSE g[r - 1] + Counts[r]]
    BY <1>3 DEF IsRunningSum
  <2> QED
    BY <1>2, <2>1, Zenon
<1> HIDE DEF E
<1>5. Total = E(Total)
  BY <1>1, <1>4, Zenon
<1> QED
  BY <1>2, <1>5 DEF IsRunningSum

\* When every reader was listed, Total is the number of the sessions listed.
LEMMA TotalIsListed ==
    ASSUME TypeOK, \A r \in Readers : plan[r].count >= 0
    PROVE  IsFiniteSet(Listed) /\ Cardinality(Listed) = Total[NumReaders]
<1>1. \A r \in 1 .. NumReaders : Counts[r] \in Nat
  BY DEF TypeOK, Counts, Readers
<1>2. NumReaders \in Nat
  BY SizesAssumption
<1> QED
  BY <1>1, <1>2, TotalIsRunningSum, PairsSum DEF Listed

\* What is shown is honest: no more is done than was listed, and all of it is done
\* when as much is done.
LEMMA MeterHonest == ASSUME TypeOK, MeterInv PROVE ProgressHonest
<1>1. Once /\ WithinList /\ Counted /\ Metered
  BY DEF MeterInv
<1>2. CASE progress.total = 0 /\ progress.done = 0
  BY <1>2 DEF ProgressHonest
<1>3. CASE Shown
  <2> DEFINE total == progress.total
             d == progress.done
             size1 == Cardinality(Attempted)
  <2>1. IsFiniteSet(Listed) /\ Cardinality(Listed) = total
    BY <1>3, TotalIsListed DEF Shown
  <2>2. Attempted \subseteq Listed
    <3> SUFFICES ASSUME NEW r \in Readers, NEW p \in Positions, attempts[r][p] > 0
                 PROVE  <<r, p>> \in Listed
      BY DEF Attempted
    <3>1. p <= Counts[r]
      BY <1>1 DEF WithinList, Counts
    <3> QED
      BY <3>1 DEF Listed, PairsUnder, Readers, Positions
  <2>3. total \in Nat /\ size1 \in Nat /\ size1 <= total
    BY <2>1, <2>2, FS_Subset, FS_CardinalityType
  <2>4. d \in Nat /\ d <= size1
    <3>1. done \in Nat /\ done + Cardinality(Delivering) = size1 /\ Cardinality(Delivering) \in Nat
      BY <1>1, FinitelyMany DEF Counted
    <3>2. d \in 0 .. done
      BY <1>3 DEF Shown
    <3> QED
      BY <3>1, <3>2
  <2>5. ASSUME total > 0, progress.percent = 100
        PROVE  \A r \in Readers : \A p \in 1 .. plan[r].count : attempts[r][p] = 1
    <3>1. d > total \/ (d * 100) \div total = 100
      BY <1>3, <2>5 DEF Shown, Percent
    <3> HIDE DEF d, total, size1
    <3>2. d >= total
      BY <2>3, <2>4, <2>5, <3>1
    <3>3. size1 = total
      BY <2>3, <2>4, <3>2
    <3>4. Attempted = Listed
      BY <2>1, <2>2, <3>3, FS_Subset DEF size1
    <3> SUFFICES ASSUME NEW r \in Readers, NEW p \in 1 .. plan[r].count
                 PROVE  attempts[r][p] = 1
      OBVIOUS
    <3>5. plan[r].count \in Nat /\ plan[r].count <= MaxSessions /\ MaxSessions \in Nat
      BY <1>3, SizesAssumption DEF TypeOK, Shown
    <3>6. p \in Positions /\ p \in Nat \ {0} /\ p <= Counts[r]
      BY <3>5 DEF Positions, Counts
    <3>7. <<r, p>> \in Listed
      BY <3>6 DEF Listed, PairsUnder, Readers
    <3>8. attempts[r][p] > 0
      BY <3>4, <3>7 DEF Attempted
    <3>9. attempts[r][p] \in Nat /\ attempts[r][p] <= 1
      BY <1>1, <3>6 DEF TypeOK, Once
    <3> QED
      BY <3>8, <3>9
  <2> QED
    BY <2>3, <2>4, <2>5 DEF ProgressHonest
<1> QED
  BY <1>1, <1>2, <1>3 DEF Metered

\* Nothing was indexed and nothing is shown at the start.
LEMMA InitMeterInv == Init => MeterInv
<1> SUFFICES ASSUME Init PROVE MeterInv
  OBVIOUS
<1>1. \A r \in Readers, p \in Positions : attempts[r][p] = 0
  BY DEF Init
<1>2. Attempted = {} /\ Delivering = {}
  BY <1>1 DEF Init, Attempted, Delivering, Results
<1>3. Once /\ WithinList
  BY <1>1 DEF Once, WithinList
<1>4. Counted
  BY <1>2, FS_EmptySet DEF Init, Counted
<1> QED
  BY <1>3, <1>4 DEF Init, MeterInv, Metered

\* What a step does to what is counted: it indexes a session, collects a result, or
\* leaves all of it alone.
CountMoves ==
    \/ \E w \in Workers : IndexSession(w)
    \/ \E w \in Workers : Collect(w)
    \/ /\ attempts' = attempts
       /\ done' = done
       /\ Delivering' = Delivering

\* These are the only ways.
LEMMA CountSteps == ASSUME IInv, [Next]_vars PROVE CountMoves
<1> USE DEF CountMoves, pool, totals, meter, histories
<1>0. TypeOK /\ Channels
  BY DEF IInv
<1>1. ASSUME Caller PROVE CountMoves
  <2>1. CASE StartPool
    <3>1. \A w \in Workers : worker[w] = "gone" /\ worker'[w] \in {"wait", "gone"}
      BY <1>0, <2>1 DEF StartPool, Channels
    <3>2. Delivering = {} /\ Delivering' = {}
      BY <3>1 DEF Delivering, Results
    <3> QED
      BY <2>1, <3>2 DEF StartPool
  <2>2. CASE ListReader \/ ListCancelled \/ BeginIndexing \/ AgentsCancelled \/ SkipFailedReader
    BY <2>2 DEF ListReader, ListCancelled, BeginIndexing, AgentsCancelled, SkipFailedReader,
                Delivering
  <2>3. CASE EndPool \/ MarkOmissions \/ Finish
    BY <2>3 DEF EndPool, MarkOmissions, Finish, Delivering
  <2> QED
    BY <1>1, <2>1, <2>2, <2>3 DEF Caller
<1>2. ASSUME NEW w \in Workers, Dispatch(w) \/ WorkerLeaves(w) PROVE CountMoves
  <2>1. /\ attempts' = attempts /\ done' = done
        /\ worker[w] = "wait"
        /\ \E x \in {"busy", "gone"} : worker' = [worker EXCEPT ![w] = x]
    BY <1>2 DEF Dispatch, WorkerLeaves
  <2>2. \A v \in Workers : worker'[v] \in Results <=> worker[v] \in Results
    BY <1>0, <2>1 DEF TypeOK, Results
  <2>3. Delivering' = Delivering
    BY <2>2 DEF Delivering
  <2> QED
    BY <2>1, <2>3
<1>3. ASSUME CloseJobs \/ CloseResults \/ Cancel PROVE CountMoves
  BY <1>3 DEF CloseJobs, CloseResults, Cancel, Delivering
<1>4. ASSUME UNCHANGED vars PROVE CountMoves
  BY <1>4 DEF vars, Delivering
<1> QED
  BY <1>1, <1>2, <1>3, <1>4 DEF Next, Worker

\* IndexSession is at a listed session that nobody indexed, and changes only its count.
LEMMA Indexing ==
    ASSUME IInv, NEW w \in Workers, IndexSession(w)
    PROVE  /\ at \in Readers /\ holds[w] \in Positions /\ holds[w] <= plan[at].count
           /\ attempts[at][holds[w]] = 0
           /\ \A r \in Readers, p \in Positions :
                 attempts'[r][p] = IF r = at /\ p = holds[w] THEN 1 ELSE attempts[r][p]
           /\ worker[w] = "busy" /\ worker'[w] \in Results
           /\ \A v \in Workers : v # w => worker'[v] = worker[v]
           /\ UNCHANGED <<stage, plan, done, progress>>
<1> USE Sizes DEF meter
<1>0. TypeOK /\ Planning /\ Channels /\ HandedOut
  BY DEF IInv
<1>1. worker[w] = "busy" /\ Working(w)
  BY DEF IndexSession, Working
<1>2. stage = "pool" /\ at \in Readers
  BY <1>0, <1>1 DEF TypeOK, Channels, Planning, Readers
<1>3. holds[w] \in 1 .. sent /\ sent \in 0 .. size /\ size = plan[at].count /\ size \in 0 .. MaxSessions
  BY <1>0, <1>1, <1>2 DEF TypeOK, HandedOut, Channels
<1>4. holds[w] \in Positions /\ holds[w] <= plan[at].count
  BY <1>3 DEF Positions
<1>5. attempts[at][holds[w]] = 0
  BY <1>0, <1>1, <1>2 DEF HandedOut
<1>6. \A r \in Readers, p \in Positions :
         attempts'[r][p] = IF r = at /\ p = holds[w] THEN 1 ELSE attempts[r][p]
  <2>1. attempts' = [attempts EXCEPT ![at][holds[w]] = attempts[at][holds[w]] + 1]
    BY DEF IndexSession
  <2> QED
    BY <1>0, <1>2, <1>4, <1>5, <2>1 DEF TypeOK
<1>7. worker'[w] \in Results /\ \A v \in Workers : v # w => worker'[v] = worker[v]
  BY <1>0 DEF IndexSession, TypeOK
<1> QED
  BY <1>1, <1>2, <1>4, <1>5, <1>6, <1>7 DEF IndexSession

\* No session is indexed a second time.
LEMMA NextOnce == ASSUME IInv, Once, [Next]_vars PROVE Once'
<1>1. CountMoves
  BY CountSteps
<1>2. ASSUME NEW w \in Workers, IndexSession(w) PROVE Once'
  <2> SUFFICES ASSUME NEW r \in Readers, NEW p \in Positions PROVE attempts'[r][p] <= 1
    BY DEF Once
  <2> QED
    BY <1>2, Indexing DEF Once
<1>3. ASSUME attempts' = attempts PROVE Once'
  BY <1>3 DEF Once
<1> QED
  BY <1>1, <1>2, <1>3 DEF CountMoves, Collect, histories

\* A session that is indexed was listed, and a list that is used is final.
LEMMA NextWithinList == ASSUME IInv, WithinList, [Next]_vars PROVE WithinList'
<1>0. TypeOK /\ InOrder
  BY DEF IInv
<1>1. CASE \E w \in Workers : IndexSession(w)
  <2>1. PICK w \in Workers : IndexSession(w)
    BY <1>1
  <2> SUFFICES ASSUME NEW r \in Readers, NEW p \in Positions, attempts'[r][p] > 0
               PROVE  p <= plan'[r].count
    BY DEF WithinList
  <2> QED
    BY <2>1, Indexing DEF WithinList
<1>2. CASE ListReader
  <2>1. \A r \in Readers, p \in Positions : ~ (attempts'[r][p] > 0)
    BY <1>0, <1>2 DEF InOrder, ListReader, histories
  <2> QED
    BY <2>1 DEF WithinList
<1>3. CASE plan' = plan /\ attempts' = attempts
  BY <1>3 DEF WithinList
<1>4. ListReader \/ (\E w \in Workers : IndexSession(w)) \/ (plan' = plan /\ attempts' = attempts)
  BY DEF Next, Caller, Worker, vars, pool, totals, meter, histories, ListCancelled,
     BeginIndexing, AgentsCancelled, SkipFailedReader, StartPool, Collect, EndPool, MarkOmissions,
     Finish, Dispatch, WorkerLeaves, CloseJobs, CloseResults, Cancel
<1> QED
  BY <1>1, <1>2, <1>3, <1>4

\* A session indexed is a result to deliver; a result collected is one more in done.
LEMMA NextCounted == ASSUME IInv, Counted, [Next]_vars PROVE Counted'
<1>0. CountMoves
  BY CountSteps
<1>1. CASE \E w \in Workers : IndexSession(w)
  <2>1. PICK w \in Workers : IndexSession(w)
    BY <1>1
  <2> DEFINE new == <<at, holds[w]>>
  <2>2. new \notin Attempted /\ Attempted' = Attempted \union {new}
    <3>1. at \in Readers /\ holds[w] \in Positions /\ attempts[at][holds[w]] = 0
      BY <2>1, Indexing
    <3>2. \A r \in Readers, p \in Positions :
             attempts'[r][p] > 0 <=> (r = at /\ p = holds[w]) \/ attempts[r][p] > 0
      BY <2>1, Indexing
    <3>3. \A x : x \in Attempted' <=> x \in Attempted \/ x = new
      <4> SUFFICES ASSUME NEW x PROVE x \in Attempted' <=> x \in Attempted \/ x = new
        OBVIOUS
      <4>1. new \in Readers \X Positions
        BY <3>1
      <4>2. CASE x \in Readers \X Positions
        <5>1. PICK r \in Readers, p \in Positions : x = <<r, p>>
          BY <4>2
        <5>2. x \in Attempted <=> attempts[r][p] > 0
          BY <5>1 DEF Attempted
        <5>3. x \in Attempted' <=> attempts'[r][p] > 0
          BY <5>1 DEF Attempted
        <5>4. x = new <=> r = at /\ p = holds[w]
          BY <5>1
        <5> QED
          BY <3>2, <5>2, <5>3, <5>4
      <4>3. CASE x \notin Readers \X Positions
        BY <4>1, <4>3 DEF Attempted
      <4> QED
        BY <4>2, <4>3
    <3>4. new \notin Attempted
      BY <3>1 DEF Attempted
    <3> QED
      BY <3>3, <3>4
  <2>3. w \notin Delivering /\ Delivering' = Delivering \union {w}
    BY <2>1, Indexing DEF Delivering, Results
  <2>4. /\ Cardinality(Attempted') = Cardinality(Attempted) + 1
        /\ Cardinality(Delivering') = Cardinality(Delivering) + 1
    BY <2>2, <2>3, FinitelyMany, FS_AddElement
  <2>5. done' = done
    BY <2>1, Indexing
  <2> QED
    BY <2>4, <2>5, FinitelyMany DEF Counted
<1>2. CASE \E w \in Workers : Collect(w)
  <2>1. PICK w \in Workers : Collect(w)
    BY <1>2
  <2>2. worker[w] \in Results /\ worker' = [worker EXCEPT ![w] = "wait"]
        /\ done' = done + 1 /\ attempts' = attempts
    BY <2>1 DEF Collect, histories
  <2>3. w \in Delivering /\ Delivering' = Delivering \ {w}
    <3>1. worker \in [Workers -> {"gone", "wait", "busy"} \union Results]
      BY DEF IInv, TypeOK
    <3> QED
      BY <2>2, <3>1 DEF Delivering, Results
  <2>4. Cardinality(Delivering') = Cardinality(Delivering) - 1
    BY <2>3, FinitelyMany, FS_RemoveElement
  <2>5. Attempted' = Attempted
    BY <2>2 DEF Attempted
  <2> QED
    BY <2>2, <2>4, <2>5, FinitelyMany DEF Counted
<1>3. CASE attempts' = attempts /\ done' = done /\ Delivering' = Delivering
  <2>1. Attempted' = Attempted
    BY <1>3 DEF Attempted
  <2> QED
    BY <1>3, <2>1 DEF Counted
<1> QED
  BY <1>0, <1>1, <1>2, <1>3 DEF CountMoves

\* What a step does to what is shown: nothing, resets it, or shows no more than is
\* done then, of all that was listed.
ShowMoves ==
    \/ progress' = progress /\ plan' = plan /\ done' = done /\ (stage # "list" => stage' # "list")
    \/ progress' = progress /\ stage = "list"
    \/ progress'.total = 0 /\ progress'.done = 0
    \/ /\ stage' # "list"
       /\ plan' = plan
       /\ \A r \in Readers : plan[r].count >= 0
       /\ \/ progress' = progress /\ done' = done + 1
          \/ \E state \in {"idle", "running"}, d \in {0, done'} :
                progress' = [state |-> state, done |-> d, total |-> Total[NumReaders],
                             percent |-> Percent(state, d, Total[NumReaders])]

\* Those are the only ways.
LEMMA ShowSteps == ASSUME IInv, [Next]_vars PROVE ShowMoves
<1> USE DEF ShowMoves, SetProgress, pool, totals, meter, histories
<1>0. TypeOK /\ Planning /\ Channels
  BY DEF IInv
<1>1. CASE ListReader
  BY <1>1 DEF ListReader
<1>2. CASE ListCancelled
  BY <1>2 DEF ListCancelled
<1>3. CASE BeginIndexing
  <2>1. stage = "list" /\ at > NumReaders
    BY <1>3 DEF BeginIndexing
  <2>2. \A r \in Readers : plan[r].count >= 0
    BY <1>0, <2>1, SizesAssumption DEF TypeOK, Planning, Readers
  <2> QED
    BY <1>3, <2>2 DEF BeginIndexing
<1>4. CASE AgentsCancelled \/ Finish
  <2>1. \A r \in Readers : plan[r].count >= 0
    BY <1>0, <1>4 DEF Planning, AgentsCancelled, Finish
  <2> QED
    BY <1>4, <2>1 DEF AgentsCancelled, Finish
<1>5. CASE \E w \in Workers : Collect(w)
  <2>1. PICK w \in Workers : Collect(w)
    BY <1>5
  <2>2. stage = "pool" /\ \A r \in Readers : plan[r].count >= 0
    BY <1>0, <2>1 DEF Planning, Channels, Collect
  <2> QED
    BY <2>1, <2>2 DEF Collect
<1>6. CASE SkipFailedReader \/ StartPool \/ EndPool \/ MarkOmissions
  BY <1>6 DEF SkipFailedReader, StartPool, EndPool, MarkOmissions
<1>7. CASE \E w \in Workers : Worker(w)
  BY <1>7 DEF Worker, Dispatch, WorkerLeaves, IndexSession
<1>8. CASE CloseJobs \/ CloseResults \/ Cancel
  BY <1>8 DEF CloseJobs, CloseResults, Cancel
<1>9. CASE UNCHANGED vars
  BY <1>9 DEF vars
<1> QED
  BY <1>1, <1>2, <1>3, <1>4, <1>5, <1>6, <1>7, <1>8, <1>9 DEF Next, Caller

\* What is shown stays within what is done, of what was listed.
LEMMA NextMetered == ASSUME IInv, Counted, Metered, [Next]_vars PROVE Metered'
<1>0. ShowMoves
  BY ShowSteps
<1>1. done \in Nat
  BY DEF Counted
<1>2. ASSUME plan' = plan PROVE Total' = Total
  BY <1>2 DEF Total
<1>3. CASE progress' = progress /\ plan' = plan /\ done' = done /\ (stage # "list" => stage' # "list")
  BY <1>2, <1>3 DEF Metered, Shown
<1>4. CASE progress' = progress /\ stage = "list"
  BY <1>4 DEF Metered, Shown
<1>5. CASE progress'.total = 0 /\ progress'.done = 0
  BY <1>5 DEF Metered
<1>6. CASE /\ stage' # "list"
           /\ plan' = plan
           /\ \A r \in Readers : plan[r].count >= 0
           /\ progress' = progress /\ done' = done + 1
  BY <1>1, <1>2, <1>6 DEF Metered, Shown
<1>7. CASE /\ stage' # "list"
           /\ plan' = plan
           /\ \A r \in Readers : plan[r].count >= 0
           /\ \E state \in {"idle", "running"}, d \in {0, done'} :
                progress' = [state |-> state, done |-> d, total |-> Total[NumReaders],
                             percent |-> Percent(state, d, Total[NumReaders])]
  <2>1. Counted'
    BY NextCounted
  <2>2. done' \in Nat /\ 0 \in 0 .. done' /\ done' \in 0 .. done'
    BY <2>1 DEF Counted
  <2>3. PICK state \in {"idle", "running"}, d \in {0, done'} :
           progress' = [state |-> state, done |-> d, total |-> Total[NumReaders],
                        percent |-> Percent(state, d, Total[NumReaders])]
    BY <1>7
  <2>4. Total'[NumReaders] = Total[NumReaders]
    BY <1>2, <1>7
  <2>5. Shown'
    BY <1>7, <2>2, <2>3, <2>4 DEF Shown, Percent
  <2> QED
    BY <2>5 DEF Metered
<1> QED
  BY <1>0, <1>3, <1>4, <1>5, <1>6, <1>7 DEF ShowMoves

\* What clients see of a cycle is honest, for every number of readers, sessions and
\* workers: never more done than was indexed, and 100 per cent of something means
\* that every session listed was indexed, once.
THEOREM ProgressIsHonest == Spec => []ProgressHonest
<1>1. IInv /\ MeterInv /\ [Next]_vars => MeterInv'
  BY NextOnce, NextWithinList, NextCounted, NextMetered DEF MeterInv
<1>2. IInv /\ MeterInv => ProgressHonest
  BY MeterHonest DEF IInv
<1> QED
  BY <1>1, <1>2, InitMeterInv, SpecIInv, PTL DEF Spec

=============================================================================
