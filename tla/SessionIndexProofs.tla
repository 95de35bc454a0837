------------------------- MODULE SessionIndexProofs -------------------------
(* Theorems about SessionIndex for every number of versions, every budget   *)
(* of faults and disappearances, every kind of reader and every handler.    *)
EXTENDS SessionIndex, TLAPS

-----------------------------------------------------------------------------
(* Typing of the values the actions are built from.                         *)

\* A row is typed, and has a clock exactly when it is a tombstone.
RowOK(r) == r \in Row /\ (r.state = "source_missing" <=> r.since # None)

\* The absent row is well formed.
LEMMA NoRowOK == RowOK(NoRow)
BY DEF RowOK, Row, NoRow, NoCreation, NoGraph, Content, None, Versions, Stamps

\* MarkedMissing turns a well formed row into a well formed row.
LEMMA MarkedMissingOK ==
    ASSUME NEW r, RowOK(r), NEW now \in Stamps
    PROVE  RowOK(MarkedMissing(r, now))
<1> DEFINE m == MarkedMissing(r, now)
<1>1. m \in Row
  BY DEF RowOK, Row, MarkedMissing, Content, None, Stamps
<1>2. m.state = "source_missing"
  BY DEF RowOK, Row, MarkedMissing
<1>3. m.since = IF r.state = "source_missing" /\ r.since # None THEN r.since ELSE now
  BY DEF RowOK, Row, MarkedMissing
<1>4. m.since # None
  BY <1>3 DEF None, Stamps
<1> QED
  BY <1>1, <1>2, <1>4 DEF RowOK

\* WithSnapshot turns a well formed row into a well formed row.
LEMMA WithSnapshotOK ==
    ASSUME NEW r, RowOK(r), NEW j \in Job
    PROVE  RowOK(WithSnapshot(r, j))
BY DEF RowOK, Row, WithSnapshot, Job, None

\* WithMetadataOnly turns a well formed row into a well formed row.
LEMMA WithMetadataOnlyOK ==
    ASSUME NEW r, RowOK(r)
    PROVE  RowOK(WithMetadataOnly(r))
BY DEF RowOK, Row, WithMetadataOnly, None

\* IndexedRow turns a well formed row into a well formed row.
LEMMA IndexedRowOK ==
    ASSUME NEW r, RowOK(r)
    PROVE  RowOK([r EXCEPT !.indexed = TRUE])
BY DEF RowOK, Row

\* WithoutTurns turns a well formed row into a well formed row.
LEMMA WithoutTurnsOK ==
    ASSUME NEW r, RowOK(r)
    PROVE  RowOK([r EXCEPT !.turns = None])
BY DEF RowOK, Row, Content

\* WithoutWatermark turns a well formed row into a well formed row.
LEMMA WithoutWatermarkOK ==
    ASSUME NEW r, RowOK(r)
    PROVE  RowOK([r EXCEPT !.watermark = None])
BY DEF RowOK, Row, Content

\* WithCreation turns a well formed row into a well formed row.
LEMMA WithCreationOK ==
    ASSUME NEW r, RowOK(r), NEW c \in [rev : Content, of : Content]
    PROVE  RowOK([r EXCEPT !.creation = c])
BY DEF RowOK, Row

\* WithGraph turns a well formed row into a well formed row.
LEMMA WithGraphOK ==
    ASSUME NEW r, RowOK(r), NEW g \in [rev : Content, of : Content, stale : BOOLEAN]
    PROVE  RowOK([r EXCEPT !.graph = g])
BY DEF RowOK, Row

\* WithStaleGraph turns a well formed row into a well formed row.
LEMMA WithStaleGraphOK ==
    ASSUME NEW r, RowOK(r)
    PROVE  RowOK([r EXCEPT !.graph.stale = r.graph.rev # None])
BY DEF RowOK, Row

\* WithGit turns a well formed row into a well formed row.
LEMMA WithGitOK ==
    ASSUME NEW r, RowOK(r)
    PROVE  RowOK([r EXCEPT !.git = TRUE])
BY DEF RowOK, Row

\* The worker's locals between two passes have their type.
LEMMA NoJobTyped == NoJob \in Job
BY DEF NoJob, Job, Content, None

\* Versions and their absence are contents; a probe is a content.
LEMMA SourceTyped ==
    ASSUME source \in Sources
    PROVE  /\ source.version \in Content /\ source.updated \in Content
           /\ source.stat \in Content /\ Probe \in Content
BY DEF Sources, Content, Versions, None, Probe

-----------------------------------------------------------------------------
(* Steps of a kind.                                                         *)

\* A step of the worker that only moves on and sets its local variables.
LEMMA MoveTyped ==
    ASSUME TypeOK, NEW next \in Steps, Move(next), job' \in Job
    PROVE  TypeOK'
BY DEF TypeOK, Move

\* A transaction that commits the row r.
LEMMA CommitTyped ==
    ASSUME TypeOK, NEW r, RowOK(r), Commit(r), pc' \in Steps, job' \in Job,
           UNCHANGED <<source, memory, handler, clock, faults, removals>>
    PROVE  TypeOK'
<1>1. history' \in History
  BY DEF TypeOK, Commit, History
<1> QED
  BY <1>1 DEF TypeOK, Commit, RowOK

\* A fault that ends the pass or the transaction.
LEMMA FaultSpent ==
    ASSUME TypeOK, NEW kind, SpendFault(kind)
    PROVE  faults' \in 0..MaxFaults
BY BudgetsAssumption DEF TypeOK, SpendFault

-----------------------------------------------------------------------------
(* Every step keeps the types.                                              *)

\* Initially every variable has its type.
LEMMA InitTypeOK == Init => TypeOK
<1> SUFFICES ASSUME Init PROVE TypeOK
  OBVIOUS
<1>1. source \in Sources
  BY VersionsAssumption DEF Init, Sources, Versions
<1>2. RowOK(row)
  BY NoRowOK DEF Init
<1>3. memory \in [verified : [stat : Content, rev : Content], attempted : BOOLEAN]
  BY DEF Init, Fresh, NoVerified, Content, None
<1>4. job \in Job
  BY NoJobTyped DEF Init
<1>5. history \in History
  BY DEF Init, History, NoHistory
<1> QED
  BY <1>1, <1>2, <1>3, <1>4, <1>5, BudgetsAssumption
  DEF Init, TypeOK, RowOK, Steps, Stamps

\* The source and its owners.
LEMMA SourceStepsTyped ==
    ASSUME TypeOK, (\E kind \in Writes : SourceWrite(kind)) \/ Vanish \/ Reappear
    PROVE  TypeOK'
<1>1. ASSUME NEW kind \in Writes, SourceWrite(kind) PROVE TypeOK'
  <2> DEFINE next == source.version + 1
  <2>1. source \in Sources /\ next \in Versions
    <3>1. source \in Sources /\ source.version \in Versions
      BY DEF TypeOK, Sources
    <3>2. source.version < MaxVersion
      BY <1>1 DEF SourceWrite
    <3> QED
      BY <3>1, <3>2, VersionsAssumption DEF Versions
  <2>2. source' = [source EXCEPT !.version = next,
                      !.updated = IF kind = "append" THEN next ELSE @,
                      !.stat = IF kind = "stealth" THEN @ ELSE next]
    BY <1>1 DEF SourceWrite
  <2> HIDE DEF next
  <2>3. source' \in Sources
    BY <2>1, <2>2 DEF Sources
  <2> QED
    BY <1>1, <2>3 DEF SourceWrite, TypeOK
<1>2. CASE Vanish
  <2>1. source' \in Sources
    BY <1>2 DEF Vanish, TypeOK, Sources
  <2>2. removals' \in 0..MaxRemovals
    BY <1>2, BudgetsAssumption DEF Vanish, TypeOK
  <2> QED
    BY <1>2, <2>1, <2>2 DEF Vanish, TypeOK
<1>3. CASE Reappear
  <2>1. source' \in Sources
    BY <1>3 DEF Reappear, TypeOK, Sources
  <2>2. history' \in History
    BY <1>3 DEF Reappear, TypeOK, History
  <2> QED
    BY <1>3, <2>1, <2>2 DEF Reappear, TypeOK
<1> QED
  BY <1>1, <1>2, <1>3

\* Listing, omission and the end of a cycle.
LEMMA CycleStepsTyped ==
    ASSUME TypeOK, List \/ ListIncomplete \/ Tombstone \/ Report
    PROVE  TypeOK'
<1>1. CASE ListPresent
  <2>1. source.updated \in Content
    BY SourceTyped DEF TypeOK
  <2>2. job' \in Job
    BY <1>1, <2>1, NoJobTyped DEF ListPresent, Job
  <2> QED
    BY <1>1, <2>2 DEF ListPresent, TypeOK, Steps, Stamps
<1>2. CASE ListAbsent
  <2>1. job' \in Job
    BY <1>2, NoJobTyped DEF ListAbsent, Job
  <2>2. history' \in History
    BY <1>2 DEF ListAbsent, TypeOK, History
  <2> QED
    BY <1>2, <2>1, <2>2 DEF ListAbsent, TypeOK, Steps, Stamps
<1>3. CASE ListIncomplete
  <2>1. job' \in Job
    BY <1>3, NoJobTyped DEF ListIncomplete
  <2>2. faults' \in 0..MaxFaults
    BY <1>3, BudgetsAssumption DEF ListIncomplete, TypeOK
  <2> QED
    BY <1>3, <2>1, <2>2 DEF ListIncomplete, TypeOK, Steps, Stamps
<1>4. CASE Tombstone
  <2>1. CASE job.complete /\ row.indexed
    <3>1. RowOK(MarkedMissing(row, clock))
      BY MarkedMissingOK DEF TypeOK, RowOK
    <3>2. job' \in Job
      BY <1>4, <2>1 DEF Tombstone, TypeOK, Job
    <3>3. pc' \in Steps
      BY <1>4 DEF Tombstone, Steps
    <3> QED
      BY <1>4, <2>1, <3>1, <3>2, <3>3, CommitTyped DEF Tombstone
  <2>2. CASE ~(job.complete /\ row.indexed)
    BY <1>4, <2>2 DEF Tombstone, TypeOK, Steps
  <2> QED
    BY <2>1, <2>2
<1>5. CASE Report
  <2>1. job' \in Job
    BY <1>5, NoJobTyped DEF Report
  <2>2. history' \in History
    BY <1>5 DEF Report, TypeOK, History, Job
  <2> QED
    BY <1>5, <2>1, <2>2 DEF Report, TypeOK, Steps
<1> QED
  BY <1>1, <1>2, <1>3, <1>4, <1>5 DEF List

\* The checks before a read, and the reads.
LEMMA ReadStepsTyped ==
    ASSUME TypeOK,
           \/ CheckWatermark \/ CheckGates \/ Verify \/ Refresh \/ ProbeSource
           \/ Read \/ ReadRenderEvents \/ RenderEventsMissing \/ ReadMissing
    PROVE  TypeOK'
<1>1. source.version \in Content /\ Probe \in Content
  BY SourceTyped DEF TypeOK
<1>2. job \in Job /\ row \in Row /\ row.creation.rev \in Content
  BY DEF TypeOK, Row
<1>3. CASE CheckWatermark
  BY <1>2, <1>3, MoveTyped DEF CheckWatermark, Steps
<1>4. CASE CheckGates
  <2> DEFINE gitOK == row.git \/ memory.attempted
             known == [job EXCEPT !.graphOK = GraphCurrent, !.gitOK = gitOK,
                                  !.stored = row.creation.rev]
  <2>1. GraphCurrent \in BOOLEAN /\ gitOK \in BOOLEAN
    BY <1>2 DEF GraphCurrent, TypeOK
  <2>2. known \in Job /\ [known EXCEPT !.probe = Probe] \in Job
    BY <1>1, <1>2, <2>1 DEF Job
  <2>3. job' \in Job /\ \E next \in {"probe", "refresh", "verify"} : Move(next)
    BY <1>4, <2>2 DEF CheckGates
  <2> QED
    BY <2>3, MoveTyped DEF Steps
<1>5. CASE Verify
  <2>1. job' \in Job
    BY <1>1, <1>2, <1>5 DEF Verify, Job
  <2>2. memory' \in [verified : [stat : Content, rev : Content], attempted : BOOLEAN]
    BY <1>1, <1>2, <1>5 DEF Verify, TypeOK, Job
  <2> QED
    BY <1>5, <2>1, <2>2 DEF Verify, TypeOK, Steps
<1>6. CASE Refresh
  BY <1>2, <1>6, MoveTyped DEF Refresh, Steps
<1>7. CASE ProbeSource
  <2>1. job' \in Job
    BY <1>1, <1>2, <1>7 DEF ProbeSource, Job, Content
  <2> QED
    BY <1>7, <2>1, MoveTyped DEF ProbeSource, Steps
<1>8. CASE Read
  <2>1. job' \in Job
    BY <1>1, <1>2, <1>8 DEF Read, Job
  <2>2. \E next \in {"graph", "render"} : Move(next)
    BY <1>8 DEF Read
  <2> QED
    BY <2>1, <2>2, MoveTyped DEF Steps
<1>9. CASE ReadRenderEvents
  <2>1. job' \in Job
    BY <1>1, <1>2, <1>9 DEF ReadRenderEvents, Job
  <2> QED
    BY <1>9, <2>1, MoveTyped DEF ReadRenderEvents, Steps
<1>10. CASE RenderEventsMissing
  BY <1>2, <1>10, MoveTyped DEF RenderEventsMissing, Steps
<1>11. CASE ReadMissing
  <2>1. job' \in Job
    BY <1>2, <1>11 DEF ReadMissing, Job
  <2>2. history' \in History
    BY <1>11 DEF ReadMissing, TypeOK, History
  <2> QED
    BY <1>11, <2>1, <2>2 DEF ReadMissing, TypeOK, Steps
<1> QED
  BY <1>3, <1>4, <1>5, <1>6, <1>7, <1>8, <1>9, <1>10, <1>11

\* The transactions of a read failure.
LEMMA FailureStepsTyped ==
    ASSUME TypeOK, FailMeta \/ FailMissing \/ FailProvenance \/ FailSearch \/ FailWatermark
    PROVE  TypeOK'
<1>1. RowOK(row) /\ job \in Job /\ clock \in Stamps
  BY DEF TypeOK, RowOK
<1>2. [job EXCEPT !.did = TRUE] \in Job
  BY <1>1 DEF Job
<1>3. CASE FailMeta
  BY <1>1, <1>3, IndexedRowOK, CommitTyped DEF FailMeta, Steps
<1>4. CASE FailMissing
  <2>1. RowOK(IF row.indexed THEN MarkedMissing(row, clock) ELSE row)
    BY <1>1, MarkedMissingOK
  <2> QED
    BY <1>2, <1>4, <2>1, CommitTyped DEF FailMissing, Steps
<1>5. CASE FailProvenance
  BY <1>1, <1>5, WithMetadataOnlyOK, CommitTyped DEF FailProvenance, Steps
<1>6. CASE FailSearch
  BY <1>1, <1>6, WithoutTurnsOK, CommitTyped DEF FailSearch, Steps
<1>7. CASE FailWatermark
  BY <1>1, <1>2, <1>7, WithoutWatermarkOK, CommitTyped DEF FailWatermark, Steps
<1> QED
  BY <1>3, <1>4, <1>5, <1>6, <1>7

\* The transactions of a pass that has read its content.
LEMMA WriteStepsTyped ==
    ASSUME TypeOK,
           \/ SkipGraph \/ WriteGraph \/ GraphFails \/ WriteSnapshot
           \/ WriteCreation \/ CreationFails \/ ClearWatermark
    PROVE  TypeOK'
<1>1. RowOK(row) /\ job \in Job /\ source.version \in Content
  BY SourceTyped DEF TypeOK, RowOK
<1>2. job.rev \in Content /\ job.events \in Content /\ job.probe \in Content
  BY <1>1 DEF Job
<1>3. CASE SkipGraph
  BY <1>1, <1>3, MoveTyped DEF SkipGraph, Steps
<1>4. CASE WriteGraph
  <2>1. RowOK([row EXCEPT !.graph = [rev |-> job.rev, of |-> source.version, stale |-> FALSE]])
    BY <1>1, <1>2, WithGraphOK
  <2> QED
    BY <1>1, <1>4, <2>1, CommitTyped DEF WriteGraph, Steps
<1>5. CASE GraphFails
  <2>1. RowOK(row') /\ faults' \in 0..MaxFaults
    BY <1>1, <1>5, WithStaleGraphOK, FaultSpent DEF GraphFails, TypeOK
  <2> QED
    BY <1>5, <2>1 DEF GraphFails, TypeOK, RowOK, Steps
<1>6. CASE WriteSnapshot
  BY <1>1, <1>6, WithSnapshotOK, CommitTyped DEF WriteSnapshot, Steps
<1>7. CASE WriteCreation
  <2>1. RowOK(row')
    BY <1>1, <1>2, <1>7, WithCreationOK DEF WriteCreation, CreationRevision
  <2>2. memory' \in [verified : [stat : Content, rev : Content], attempted : BOOLEAN]
    BY <1>2, <1>7 DEF WriteCreation, TypeOK
  <2>3. job' \in Job
    BY <1>1, <1>7, KindsAssumption DEF WriteCreation, Job
  <2> QED
    BY <1>7, <2>1, <2>2, <2>3 DEF WriteCreation, TypeOK, RowOK, Steps
<1>8. CASE CreationFails
  <2>1. faults' \in 0..MaxFaults
    BY <1>8, FaultSpent DEF CreationFails, TypeOK
  <2> QED
    BY <1>8, <2>1 DEF CreationFails, TypeOK, Steps
<1>9. CASE ClearWatermark
  <2>1. RowOK(row') /\ faults' \in 0..MaxFaults
    BY <1>1, <1>9, WithoutWatermarkOK, FaultSpent DEF ClearWatermark, TypeOK
  <2> QED
    BY <1>9, <2>1 DEF ClearWatermark, TypeOK, RowOK, Steps
<1> QED
  BY <1>3, <1>4, <1>5, <1>6, <1>7, <1>8, <1>9

\* Git evidence.
LEMMA GitStepsTyped ==
    ASSUME TypeOK, GitUnresolved \/ GitBind \/ GitFinish \/ GitUncaptured \/ GitFails
    PROVE  TypeOK'
<1>1. RowOK(row) /\ [job EXCEPT !.did = TRUE] \in Job
  BY DEF TypeOK, RowOK, Job
<1>2. [memory EXCEPT !.attempted = TRUE]
         \in [verified : [stat : Content, rev : Content], attempted : BOOLEAN]
  BY DEF TypeOK
<1>3. CASE GitUnresolved
  BY <1>1, <1>2, <1>3 DEF GitUnresolved, TypeOK, Steps
<1>4. CASE GitBind
  <2>1. RowOK(row')
    BY <1>1, <1>4, WithGitOK DEF GitBind
  <2> QED
    BY <1>4, <2>1 DEF GitBind, TypeOK, RowOK, Steps
<1>5. CASE GitFinish
  BY <1>1, <1>2, <1>5 DEF GitFinish, TypeOK, Steps
<1>6. CASE GitUncaptured
  BY <1>1, <1>2, <1>6 DEF GitUncaptured, TypeOK, Steps
<1>7. CASE GitFails
  <2>1. faults' \in 0..MaxFaults
    BY <1>7, FaultSpent DEF GitFails, TypeOK
  <2> QED
    BY <1>7, <2>1 DEF GitFails, TypeOK, Steps
<1> QED
  BY <1>3, <1>4, <1>5, <1>6, <1>7

\* Faults that end a pass, a crash, and time.
LEMMA FaultStepsTyped ==
    ASSUME TypeOK,
           \/ ReadFails \/ PassFails \/ FailureWriteFails \/ SnapshotFails
           \/ Crash \/ VerifiedExpires
    PROVE  TypeOK'
<1>1. CASE ReadFails \/ PassFails \/ FailureWriteFails \/ SnapshotFails
  <2>1. faults' \in 0..MaxFaults
    BY <1>1, FaultSpent DEF ReadFails, PassFails, FailureWriteFails, SnapshotFails
  <2> QED
    BY <1>1, <2>1 DEF ReadFails, PassFails, FailureWriteFails, SnapshotFails, TypeOK, Steps
<1>2. CASE Crash
  <2>1. faults' \in 0..MaxFaults
    BY <1>2, FaultSpent DEF Crash
  <2>2. memory' \in [verified : [stat : Content, rev : Content], attempted : BOOLEAN]
    BY <1>2 DEF Crash, Fresh, NoVerified, Content, None
  <2>3. history' \in History
    BY <1>2 DEF Crash, TypeOK, History
  <2>4. job' \in Job
    BY <1>2, NoJobTyped DEF Crash
  <2> QED
    BY <1>2, <2>1, <2>2, <2>3, <2>4 DEF Crash, TypeOK, Steps
<1>3. CASE VerifiedExpires
  <2>1. memory' \in [verified : [stat : Content, rev : Content], attempted : BOOLEAN]
    BY <1>3 DEF VerifiedExpires, TypeOK, NoVerified, Content, None
  <2> QED
    BY <1>3, <2>1 DEF VerifiedExpires, TypeOK
<1> QED
  BY <1>1, <1>2, <1>3

\* The HTTP handlers.
LEMMA HandlerStepsTyped ==
    ASSUME TypeOK, DeleteSource \/ RemoveChecked \/ DeleteRows \/ DeleteRowsFails
    PROVE  TypeOK'
<1>1. CASE DeleteSource
  <2>1. source' \in Sources
    BY <1>1 DEF DeleteSource, TypeOK, Sources
  <2>2. removals' \in 0..MaxRemovals
    BY <1>1, BudgetsAssumption DEF DeleteSource, TypeOK
  <2> QED
    BY <1>1, <2>1, <2>2 DEF DeleteSource, TypeOK
<1>2. CASE RemoveChecked
  BY <1>2 DEF RemoveChecked, TypeOK
<1>3. CASE DeleteRows
  <2>1. history' \in History
    BY <1>3 DEF DeleteRows, TypeOK, History
  <2> QED
    BY <1>3, <2>1, NoRowOK DEF DeleteRows, TypeOK, RowOK
<1>4. CASE DeleteRowsFails
  <2>1. history' \in History
    BY <1>4 DEF DeleteRowsFails, TypeOK, History
  <2>2. faults' \in 0..MaxFaults
    BY <1>4, FaultSpent DEF DeleteRowsFails
  <2> QED
    BY <1>4, <2>1, <2>2 DEF DeleteRowsFails, TypeOK
<1> QED
  BY <1>1, <1>2, <1>3, <1>4

\* Every step preserves the types.
LEMMA NextTypeOK == TypeOK /\ [Next]_vars => TypeOK'
<1>1. ASSUME TypeOK, UNCHANGED vars PROVE TypeOK'
  BY <1>1 DEF vars, TypeOK
<1> QED
  BY <1>1, SourceStepsTyped, CycleStepsTyped, ReadStepsTyped, FailureStepsTyped,
     WriteStepsTyped, GitStepsTyped, FaultStepsTyped, HandlerStepsTyped
  DEF Next, Worker, Failure

(***************************************************************************)
(* Types, and with them that a row carries the time its source went        *)
(* missing exactly while it is a tombstone.                                *)
(***************************************************************************)
THEOREM TypeCorrect == Spec => []TypeOK
BY InitTypeOK, NextTypeOK, PTL DEF Spec

-----------------------------------------------------------------------------
(* What a step can do to the row, to the source and to the worker's locals. *)

\* s claims nothing of the session that r does not claim.
ClaimsNoMore(s, r) ==
    /\ s.watermark \in {None, r.watermark}
    /\ s.turns \in {None, r.turns}
    /\ s.since \in {None, r.since}
    /\ s.state = "source_missing" => r.state = "source_missing"

Marks == (Tombstone /\ job.complete) \/ FailMissing

RowMoves ==
    \/ ClaimsNoMore(row', row)
    \/ WriteSnapshot /\ row' = WithSnapshot(row, job)
    \/ Marks /\ row' = MarkedMissing(row, clock)

\* Only a snapshot and a tombstone put a claim into the row.
LEMMA RowSteps == ASSUME TypeOK, [Next]_vars PROVE RowMoves
<1>1. row \in Row
  BY DEF TypeOK
<1>2. ASSUME row' = row PROVE RowMoves
  BY <1>2 DEF RowMoves, ClaimsNoMore
<1>3. CASE Tombstone
  BY <1>2, <1>3 DEF Tombstone, Commit, Marks, RowMoves
<1>4. CASE FailMeta
  BY <1>1, <1>4 DEF FailMeta, Commit, ClaimsNoMore, Row, RowMoves
<1>5. CASE FailMissing
  BY <1>2, <1>5 DEF FailMissing, Commit, Marks, RowMoves
<1>6. CASE FailProvenance
  BY <1>1, <1>6 DEF FailProvenance, Commit, WithMetadataOnly, ClaimsNoMore, Row, RowMoves
<1>7. CASE FailSearch
  BY <1>1, <1>7 DEF FailSearch, Commit, ClaimsNoMore, Row, RowMoves
<1>8. CASE FailWatermark
  BY <1>1, <1>8 DEF FailWatermark, Commit, ClaimsNoMore, Row, RowMoves
<1>9. CASE WriteGraph
  BY <1>1, <1>9 DEF WriteGraph, Commit, ClaimsNoMore, Row, RowMoves
<1>10. CASE GraphFails
  BY <1>1, <1>10 DEF GraphFails, ClaimsNoMore, Row, RowMoves
<1>11. CASE WriteSnapshot
  BY <1>11 DEF WriteSnapshot, Commit, RowMoves
<1>12. CASE WriteCreation
  BY <1>1, <1>12 DEF WriteCreation, ClaimsNoMore, Row, RowMoves
<1>13. CASE ClearWatermark
  BY <1>1, <1>13 DEF ClearWatermark, ClaimsNoMore, Row, RowMoves
<1>14. CASE GitBind
  BY <1>1, <1>14 DEF GitBind, ClaimsNoMore, Row, RowMoves
<1>15. CASE DeleteRows
  BY <1>15 DEF DeleteRows, ClaimsNoMore, NoRow, RowMoves
<1>16. CASE \/ \E kind \in Writes : SourceWrite(kind)
            \/ Vanish \/ Reappear \/ List \/ Report \/ Failure
            \/ VerifiedExpires \/ Crash \/ DeleteSource \/ RemoveChecked \/ DeleteRowsFails
            \/ UNCHANGED vars
  BY <1>2, <1>16
  DEF SourceWrite, Vanish, Reappear, List, ListPresent, ListAbsent, Report, Failure, ReadFails,
      PassFails, FailureWriteFails, SnapshotFails, ListIncomplete, VerifiedExpires, Crash,
      DeleteSource, RemoveChecked, DeleteRowsFails, vars
<1>17. CASE \/ CheckWatermark \/ CheckGates \/ Verify \/ Refresh \/ ProbeSource \/ Read
            \/ ReadRenderEvents \/ RenderEventsMissing \/ ReadMissing \/ SkipGraph
            \/ CreationFails \/ GitUnresolved \/ GitFinish \/ GitUncaptured \/ GitFails
  BY <1>2, <1>17
  DEF CheckWatermark, CheckGates, Verify, Refresh, ProbeSource, Read, ReadRenderEvents,
      RenderEventsMissing, ReadMissing, SkipGraph, CreationFails, GitUnresolved, GitFinish,
      GitUncaptured, GitFails, Move
<1>18. CASE Worker
  BY <1>3, <1>4, <1>5, <1>6, <1>7, <1>8, <1>9, <1>10, <1>11, <1>12, <1>13, <1>14,
     <1>16, <1>17, <1>18
  DEF Worker
<1> QED
  BY <1>15, <1>16, <1>18 DEF Next

SourceMoves ==
    /\ source' \in Sources
    /\ source.updated <= source.version =>
          source.updated <= source'.updated /\ source'.updated <= source'.version

\* UpdatedAt only grows, and the content is never older than it.
LEMMA SourceSteps == ASSUME TypeOK, [Next]_vars PROVE SourceMoves
<1>1. source \in Sources /\ source.version \in Nat /\ source.updated \in Nat
  BY DEF TypeOK, Sources, Versions
<1>2. ASSUME source' = source PROVE SourceMoves
  BY <1>1, <1>2 DEF SourceMoves
<1>3. ASSUME NEW b, b \in BOOLEAN, source' = [source EXCEPT !.present = b] PROVE SourceMoves
  BY <1>1, <1>3 DEF SourceMoves, Sources
<1>4. ASSUME NEW kind \in Writes, SourceWrite(kind) PROVE SourceMoves
  <2> DEFINE next == source.version + 1
  <2>1. source' = [source EXCEPT !.version = next,
                      !.updated = IF kind = "append" THEN next ELSE @,
                      !.stat = IF kind = "stealth" THEN @ ELSE next]
    BY <1>4 DEF SourceWrite
  <2>2. source' \in Sources
    BY <1>4, SourceStepsTyped DEF TypeOK
  <2> HIDE DEF next
  <2>3. source'.version = next /\ source'.updated \in {next, source.updated}
    BY <1>1, <2>1 DEF Sources
  <2>4. next \in Nat /\ source.version < next
    BY <1>1 DEF next
  <2>5. ASSUME source.updated <= source.version
        PROVE  source.updated <= source'.updated /\ source'.updated <= source'.version
    BY <1>1, <2>3, <2>4, <2>5
  <2> QED
    BY <2>2, <2>5 DEF SourceMoves
<1>5. CASE Vanish \/ Reappear \/ DeleteSource
  BY <1>3, <1>5 DEF Vanish, Reappear, DeleteSource
<1>6. CASE \/ List \/ Failure \/ VerifiedExpires \/ Crash \/ RemoveChecked \/ DeleteRows
           \/ DeleteRowsFails \/ Tombstone \/ Report \/ UNCHANGED vars
  BY <1>2, <1>6
  DEF List, ListPresent, ListAbsent, Failure, ReadFails, PassFails, FailureWriteFails,
      SnapshotFails, ListIncomplete, VerifiedExpires, Crash, RemoveChecked, DeleteRows,
      DeleteRowsFails, Tombstone, Report, vars
<1>7. CASE \/ CheckWatermark \/ CheckGates \/ Verify \/ Refresh \/ ProbeSource \/ Read
           \/ ReadRenderEvents \/ RenderEventsMissing \/ ReadMissing \/ SkipGraph
  BY <1>2, <1>7
  DEF CheckWatermark, CheckGates, Verify, Refresh, ProbeSource, Read, ReadRenderEvents,
      RenderEventsMissing, ReadMissing, SkipGraph, Move
<1>8. CASE \/ FailMeta \/ FailMissing \/ FailProvenance \/ FailSearch \/ FailWatermark
           \/ WriteGraph \/ GraphFails \/ WriteSnapshot \/ WriteCreation \/ CreationFails
           \/ ClearWatermark \/ GitUnresolved \/ GitBind \/ GitFinish \/ GitUncaptured
           \/ GitFails
  BY <1>2, <1>8
  DEF FailMeta, FailMissing, FailProvenance, FailSearch, FailWatermark, WriteGraph, GraphFails,
      WriteSnapshot, WriteCreation, CreationFails, ClearWatermark, GitUnresolved, GitBind,
      GitFinish, GitUncaptured, GitFails
<1> QED
  BY <1>4, <1>5, <1>6, <1>7, <1>8 DEF Next, Worker

\* The worker holds a detail that is going to be committed.
HoldsDetail == pc \in {"render", "graph", "snapshot"}

JobMoves ==
    \/ job'.rev = source.updated /\ ~HoldsDetail'
    \/ /\ job'.rev \in {None, job.rev}
       /\ HoldsDetail' =>
              \/ job'.detail = source.version /\ source' = source
              \/ HoldsDetail /\ job'.detail = job.detail

\* The listed revision and the detail come from the source and are then kept.
LEMMA JobSteps == ASSUME TypeOK, [Next]_vars PROVE JobMoves
<1>1. job \in Job
  BY DEF TypeOK
<1>2. ASSUME job' = job, HoldsDetail' => HoldsDetail PROVE JobMoves
  BY <1>2 DEF JobMoves
<1>3. ASSUME job' = NoJob, ~HoldsDetail' PROVE JobMoves
  BY <1>3 DEF JobMoves, NoJob
<1>4. CASE ListPresent
  BY <1>4 DEF ListPresent, JobMoves, NoJob, HoldsDetail
<1>5. CASE ListAbsent
  BY <1>5 DEF ListAbsent, JobMoves, NoJob, HoldsDetail
<1>6. CASE CheckGates
  BY <1>1, <1>6 DEF CheckGates, Move, JobMoves, HoldsDetail, Job
<1>7. CASE Verify
  BY <1>1, <1>7 DEF Verify, JobMoves, HoldsDetail, Job
<1>8. CASE Read
  BY <1>1, <1>8 DEF Read, Move, JobMoves, HoldsDetail, Job
<1>9. CASE ReadRenderEvents
  BY <1>1, <1>9 DEF ReadRenderEvents, Move, JobMoves, HoldsDetail, Job
<1>10. CASE ProbeSource \/ ReadMissing
  BY <1>1, <1>10 DEF ProbeSource, ReadMissing, Move, JobMoves, HoldsDetail, Job
<1>11. CASE Tombstone \/ FailMissing \/ FailWatermark
  BY <1>1, <1>11 DEF Tombstone, FailMissing, FailWatermark, JobMoves, HoldsDetail, Job
<1>12. CASE WriteCreation
  BY <1>1, <1>12 DEF WriteCreation, JobMoves, HoldsDetail, Job
<1>13. CASE GitUnresolved \/ GitFinish \/ GitUncaptured
  BY <1>1, <1>13 DEF GitUnresolved, GitFinish, GitUncaptured, JobMoves, HoldsDetail, Job
<1>14. CASE ListIncomplete \/ Report \/ Crash
  BY <1>3, <1>14 DEF ListIncomplete, Report, Crash, HoldsDetail
<1>15. CASE \/ \E kind \in Writes : SourceWrite(kind)
            \/ Vanish \/ Reappear \/ VerifiedExpires \/ DeleteSource \/ RemoveChecked
            \/ DeleteRows \/ DeleteRowsFails \/ UNCHANGED vars
  BY <1>2, <1>15
  DEF SourceWrite, Vanish, Reappear, VerifiedExpires, DeleteSource, RemoveChecked, DeleteRows,
      DeleteRowsFails, vars, HoldsDetail
<1>16. CASE \/ ReadFails \/ PassFails \/ FailureWriteFails \/ SnapshotFails
            \/ CheckWatermark \/ Refresh \/ RenderEventsMissing \/ SkipGraph
  BY <1>2, <1>16
  DEF ReadFails, PassFails, FailureWriteFails, SnapshotFails, CheckWatermark, Refresh,
      RenderEventsMissing, SkipGraph, Move, HoldsDetail
<1>17. CASE \/ FailMeta \/ FailProvenance \/ FailSearch \/ WriteGraph \/ GraphFails
            \/ WriteSnapshot \/ CreationFails \/ ClearWatermark \/ GitBind \/ GitFails
  BY <1>2, <1>17
  DEF FailMeta, FailProvenance, FailSearch, WriteGraph, GraphFails, WriteSnapshot,
      CreationFails, ClearWatermark, GitBind, GitFails, HoldsDetail
<1> QED
  BY <1>4, <1>5, <1>6, <1>7, <1>8, <1>9, <1>10, <1>11, <1>12, <1>13, <1>14, <1>15, <1>16, <1>17
  DEF Next, List, Worker, Failure

-----------------------------------------------------------------------------
(* The watermark.                                                           *)

(***************************************************************************)
(* The inductive invariant: UpdatedAt never runs ahead of the content, the *)
(* listed revision never ahead of UpdatedAt, and a detail that is going to *)
(* be committed was read after the listing.                                *)
(***************************************************************************)
DetailFresh ==
    /\ source.updated <= source.version
    /\ job.rev <= source.updated
    /\ HoldsDetail => job.rev <= job.detail

WatermarkInv == TypeOK /\ DetailFresh /\ WatermarkHonest

\* The invariant behind WatermarkHonest holds initially.
LEMMA InitWatermarkInv == Init => WatermarkInv
BY InitTypeOK
DEF Init, WatermarkInv, DetailFresh, WatermarkHonest, HoldsDetail, NoJob, NoRow, None

\* Every step preserves the invariant behind WatermarkHonest.
LEMMA NextWatermarkInv == WatermarkInv /\ [Next]_vars => WatermarkInv'
<1> SUFFICES ASSUME WatermarkInv, [Next]_vars PROVE WatermarkInv'
  OBVIOUS
<1>1. TypeOK /\ TypeOK'
  BY NextTypeOK DEF WatermarkInv
<1>2. SourceMoves /\ JobMoves /\ RowMoves
  BY <1>1, SourceSteps, JobSteps, RowSteps
<1>3. /\ source.version \in Nat /\ source.updated \in Nat
      /\ source'.version \in Nat /\ source'.updated \in Nat
  BY <1>1 DEF TypeOK, Sources, Versions
<1>4. job.rev \in Nat /\ job.detail \in Nat /\ job'.rev \in Nat /\ job'.detail \in Nat
  BY <1>1, VersionsAssumption DEF TypeOK, Job, Content, Versions, None
<1>5. DetailFresh'
  <2>1. /\ source.updated <= source.version
        /\ job.rev <= source.updated
        /\ HoldsDetail => job.rev <= job.detail
    BY DEF WatermarkInv, DetailFresh
  <2>2. source'.updated >= source.updated /\ source'.updated <= source'.version
    BY <1>2, <2>1 DEF SourceMoves
  <2>3. job'.rev <= source'.updated
    BY <1>2, <1>3, <1>4, <2>1, <2>2 DEF JobMoves, None
  <2>4. HoldsDetail' => job'.rev <= job'.detail
    BY <1>2, <1>3, <1>4, <2>1 DEF JobMoves, None
  <2> QED
    BY <2>2, <2>3, <2>4 DEF DetailFresh
<1>6. WatermarkHonest'
  <2>1. CASE ClaimsNoMore(row', row)
    BY <2>1 DEF WatermarkInv, WatermarkHonest, ClaimsNoMore, None
  <2>2. CASE WriteSnapshot /\ row' = WithSnapshot(row, job)
    <3>1. row'.watermark = job.rev /\ row'.turns = job.detail
      BY <1>1, <2>2 DEF WithSnapshot, TypeOK, Row
    <3>2. job.rev <= job.detail
      BY <2>2 DEF WriteSnapshot, WatermarkInv, DetailFresh, HoldsDetail
    <3> QED
      BY <1>4, <3>1, <3>2 DEF WatermarkHonest
  <2>3. CASE row' = MarkedMissing(row, clock)
    <3>1. row'.watermark = None
      BY <1>1, <2>3 DEF MarkedMissing, TypeOK, Row
    <3> QED
      BY <3>1 DEF WatermarkHonest
  <2> QED
    BY <1>2, <2>1, <2>2, <2>3 DEF RowMoves
<1> QED
  BY <1>1, <1>5, <1>6 DEF WatermarkInv

(***************************************************************************)
(* The watermark never claims a revision newer than the turns in the       *)
(* index, for any reader, any number of versions and any faults: whatever  *)
(* moves between the listing, the reads and the commit of indexSession.    *)
(***************************************************************************)
THEOREM WatermarkIsHonest == Spec => []WatermarkHonest
<1>1. WatermarkInv => WatermarkHonest
  BY DEF WatermarkInv
<1> QED
  BY <1>1, InitWatermarkInv, NextWatermarkInv, PTL DEF Spec

-----------------------------------------------------------------------------
(* Tombstones.                                                              *)

(***************************************************************************)
(* A tombstone keeps the time at which the source went missing, for as     *)
(* long as it is a tombstone, whoever marks it again: the omission, a read *)
(* that finds no source, a cycle after a restart.                          *)
(***************************************************************************)
THEOREM TombstonesKeepTheirTime == Spec => TombstoneKept
<1> DEFINE Kept == row.since # None /\ row'.since # None => row'.since = row.since
<1>1. ASSUME TypeOK, [Next]_vars PROVE Kept
  <2>1. row \in Row /\ (row.state = "source_missing" <=> row.since # None)
    BY <1>1 DEF TypeOK
  <2>2. CASE ClaimsNoMore(row', row)
    BY <2>2 DEF ClaimsNoMore
  <2>3. CASE row' = WithSnapshot(row, job)
    BY <2>1, <2>3 DEF WithSnapshot, Row
  <2>4. CASE row' = MarkedMissing(row, clock)
    BY <2>1, <2>4 DEF MarkedMissing, Row
  <2> QED
    BY <1>1, <2>2, <2>3, <2>4, RowSteps DEF RowMoves
<1>2. TypeOK /\ [Next]_vars => [Kept]_vars
  BY <1>1
<1> QED
  BY <1>2, TypeCorrect, PTL DEF Spec, TombstoneKept

(***************************************************************************)
(* The inductive invariant behind NoFalseTombstone: who is about to mark   *)
(* the session as missing has seen in this cycle that its source is.       *)
(***************************************************************************)
MissingSeen ==
    /\ job.missing => history.sawAbsent
    /\ pc = "tombstone" /\ job.complete => history.sawAbsent
    /\ pc = "fail_missing" => job.missing

\* A step that neither forgets what the cycle saw nor is about to mark anything.
LEMMA MissingKept ==
    ASSUME MissingSeen, history'.sawAbsent = history.sawAbsent,
           job'.missing = job.missing, job'.complete = job.complete,
           pc' = pc \/ pc' \notin {"tombstone", "fail_missing"}
    PROVE  MissingSeen'
BY DEF MissingSeen

\* Every step preserves what a worker about to mark a tombstone knows.
LEMMA NextMissingSeen == TypeOK /\ MissingSeen /\ [Next]_vars => MissingSeen'
<1> SUFFICES ASSUME TypeOK, MissingSeen, [Next]_vars PROVE MissingSeen'
  OBVIOUS
<1>1. job \in Job /\ history \in History
  BY DEF TypeOK
<1>2. \A r : Commit(r) => history'.sawAbsent = history.sawAbsent
  BY <1>1 DEF Commit, History
<1>3. CASE ListPresent \/ ListAbsent \/ ListIncomplete
  <2>1. ~NoJob.missing /\ ~NoJob.complete
    BY DEF NoJob
  <2>2. ~job'.missing /\ pc' \in {"watermark", "tombstone"}
    BY <1>3, <2>1, NoJobTyped DEF ListPresent, ListAbsent, ListIncomplete, Job
  <2>3. pc' = "tombstone" /\ job'.complete => history'.sawAbsent
    BY <1>1, <1>3, <2>1 DEF ListPresent, ListAbsent, ListIncomplete, History
  <2> QED
    BY <2>2, <2>3 DEF MissingSeen
<1>4. CASE Report \/ Crash
  BY <1>4 DEF Report, Crash, NoJob, MissingSeen
<1>5. CASE Tombstone
  <2>1. history'.sawAbsent = history.sawAbsent
    BY <1>2, <1>5 DEF Tombstone
  <2>2. job'.missing = job.missing /\ job'.complete = job.complete
    BY <1>1, <1>5 DEF Tombstone, Job
  <2> QED
    BY <1>5, <2>1, <2>2, MissingKept DEF Tombstone
<1>6. CASE ReadMissing
  BY <1>1, <1>6 DEF ReadMissing, MissingSeen, Job, History
<1>7. CASE FailMeta
  BY <1>2, <1>7 DEF FailMeta, MissingSeen
<1>8. CASE FailMissing \/ FailProvenance \/ FailSearch \/ FailWatermark
  BY <1>1, <1>2, <1>8, MissingKept
  DEF FailMissing, FailProvenance, FailSearch, FailWatermark, Job
<1>9. CASE WriteGraph \/ WriteSnapshot
  BY <1>2, <1>9, MissingKept DEF WriteGraph, WriteSnapshot
<1>10. CASE Reappear \/ DeleteRows \/ DeleteRowsFails
  BY <1>1, <1>10, MissingKept DEF Reappear, DeleteRows, DeleteRowsFails, History
<1>11. CASE CheckGates \/ Verify \/ ProbeSource \/ Read \/ ReadRenderEvents
  BY <1>1, <1>11, MissingKept
  DEF CheckGates, Verify, ProbeSource, Read, ReadRenderEvents, Move, Job
<1>12. CASE CheckWatermark \/ Refresh \/ RenderEventsMissing \/ SkipGraph
  BY <1>12, MissingKept DEF CheckWatermark, Refresh, RenderEventsMissing, SkipGraph, Move
<1>13. CASE WriteCreation \/ GitUnresolved \/ GitFinish \/ GitUncaptured
  <2>1. job'.missing = job.missing /\ job'.complete = job.complete
    BY <1>1, <1>13 DEF WriteCreation, GitUnresolved, GitFinish, GitUncaptured, Job
  <2>2. history' = history /\ pc' \in {"git", "report"}
    BY <1>13 DEF WriteCreation, GitUnresolved, GitFinish, GitUncaptured
  <2> QED
    BY <2>1, <2>2, MissingKept
<1>14. CASE \/ GraphFails \/ CreationFails \/ ClearWatermark \/ GitBind \/ GitFails
            \/ PassFails \/ FailureWriteFails \/ SnapshotFails
  BY <1>14, MissingKept
  DEF GraphFails, CreationFails, ClearWatermark, GitBind, GitFails, PassFails,
      FailureWriteFails, SnapshotFails
<1>15. CASE ReadFails
  BY <1>15, MissingKept DEF ReadFails
<1>16. CASE \/ \E kind \in Writes : SourceWrite(kind)
            \/ Vanish \/ VerifiedExpires \/ DeleteSource \/ RemoveChecked \/ UNCHANGED vars
  BY <1>16, MissingKept
  DEF SourceWrite, Vanish, VerifiedExpires, DeleteSource, RemoveChecked, vars
<1> QED
  BY <1>3, <1>4, <1>5, <1>6, <1>7, <1>8, <1>9, <1>10, <1>11, <1>12, <1>13, <1>14, <1>15, <1>16
  DEF Next, List, Worker, Failure

(***************************************************************************)
(* No session is declared missing in a cycle that did not see its source   *)
(* gone: neither an incomplete inventory nor a failed read is enough, for  *)
(* any reader and any sequence of faults.                                  *)
(***************************************************************************)
THEOREM TombstonesAreTrue == Spec => NoFalseTombstone
<1> DEFINE True == row'.state = "source_missing" /\ row.state # "source_missing"
                     => history.sawAbsent
<1>1. ASSUME TypeOK, MissingSeen, [Next]_vars PROVE True
  <2>1. CASE ClaimsNoMore(row', row)
    BY <2>1 DEF ClaimsNoMore
  <2>2. CASE row' = WithSnapshot(row, job)
    BY <1>1, <2>2 DEF WithSnapshot, TypeOK, Row
  <2>3. CASE Marks
    BY <1>1, <2>3 DEF Marks, MissingSeen, Tombstone, FailMissing
  <2> QED
    BY <1>1, <2>1, <2>2, <2>3, RowSteps DEF RowMoves
<1>2. TypeOK /\ MissingSeen /\ [Next]_vars => [True]_vars
  BY <1>1
<1>3. Init => MissingSeen
  BY DEF Init, MissingSeen, NoJob
<1>4. Spec => []MissingSeen
  BY <1>3, TypeCorrect, NextMissingSeen, PTL DEF Spec
<1> QED
  BY <1>2, <1>4, TypeCorrect, PTL DEF Spec, NoFalseTombstone

-----------------------------------------------------------------------------
(* The verify cache.                                                        *)

(***************************************************************************)
(* The inductive invariant behind VerifiedHonest: a stat is never younger  *)
(* than the content it was taken with, so a capture that was hashed after  *)
(* its stat was taken is at least as new as the stat says.                 *)
(***************************************************************************)
StatsOrdered ==
    /\ source.stat <= source.version
    /\ job.probe <= source.stat
    /\ job.events <= source.version
    /\ pc \in {"graph", "snapshot", "creation"} => job.probe <= job.events
    /\ memory.verified.stat <= memory.verified.rev
    /\ memory.verified.rev <= source.version

\* Every stat at hand is a stat of the source.
LEMMA StatTypes ==
    ASSUME TypeOK
    PROVE  /\ source.version \in Nat /\ source.stat \in Nat
           /\ job.probe \in Nat /\ job.events \in Nat
           /\ memory.verified.stat \in Nat /\ memory.verified.rev \in Nat
BY VersionsAssumption DEF TypeOK, Sources, Job, Content, Versions, None

\* The source may grow under a job, and nothing else happens to the two.
LEMMA StatsKept ==
    ASSUME TypeOK, TypeOK', StatsOrdered,
           source'.stat <= source'.version,
           source.stat <= source'.stat, source.version <= source'.version,
           job'.probe \in {None, job.probe}, job'.events \in {None, job.events},
           memory'.verified \in {NoVerified, memory.verified},
           pc' \in {"graph", "snapshot", "creation"} =>
              /\ pc \in {"graph", "snapshot", "creation"}
              /\ job'.probe = job.probe /\ job'.events = job.events
    PROVE  StatsOrdered'
<1>1. /\ source.version \in Nat /\ source.stat \in Nat
      /\ source'.version \in Nat /\ source'.stat \in Nat
      /\ job.probe \in Nat /\ job.events \in Nat
      /\ memory.verified.stat \in Nat /\ memory.verified.rev \in Nat
  BY StatTypes DEF TypeOK, Sources, Versions
<1>2. NoVerified.stat = 0 /\ NoVerified.rev = 0
  BY DEF NoVerified, None
<1>3. job'.probe <= source'.stat /\ job'.events <= source'.version
  BY <1>1 DEF StatsOrdered, None
<1>4. /\ memory'.verified.stat <= memory'.verified.rev
      /\ memory'.verified.rev <= source'.version
  BY <1>1, <1>2 DEF StatsOrdered
<1> QED
  BY <1>3, <1>4 DEF StatsOrdered

\* Every step preserves the order of the stat and the read.
LEMMA NextStatsOrdered == TypeOK /\ StatsOrdered /\ [Next]_vars => StatsOrdered'
<1> SUFFICES ASSUME TypeOK, StatsOrdered, [Next]_vars PROVE StatsOrdered'
  OBVIOUS
<1>1. TypeOK'
  BY NextTypeOK
<1>2. source \in Sources /\ job \in Job /\ source.stat <= source.version
  BY DEF TypeOK, StatsOrdered
<1>3. source.version \in Nat /\ source.stat \in Nat
  BY StatTypes
<1>4. Probe \in Nat /\ Probe <= source.stat
  BY <1>3 DEF Probe, None
<1>5. ASSUME NEW kind \in Writes, SourceWrite(kind) PROVE StatsOrdered'
  <2> DEFINE next == source.version + 1
  <2>1. source' = [source EXCEPT !.version = next,
                      !.updated = IF kind = "append" THEN next ELSE @,
                      !.stat = IF kind = "stealth" THEN @ ELSE next]
    BY <1>5 DEF SourceWrite
  <2>2. next \in Nat /\ source.version <= next /\ source.stat <= next
    BY <1>2, <1>3
  <2> HIDE DEF next
  <2>3. source'.version = next /\ source'.stat \in {source.stat, next}
    BY <1>2, <2>1 DEF Sources
  <2>4. UNCHANGED <<job, memory, pc>>
    BY <1>5 DEF SourceWrite
  <2>5. /\ source'.stat <= source'.version
        /\ source.stat <= source'.stat /\ source.version <= source'.version
    BY <1>3, <2>2, <2>3
  <2> QED
    BY <1>1, <2>4, <2>5, StatsKept
<1>6. ASSUME source' = source, job'.probe = job.probe, job'.events = job.events,
             memory'.verified = memory.verified,
             pc' = pc \/ pc' \notin {"graph", "snapshot", "creation"}
                     \/ pc = "graph" \/ pc = "snapshot"
      PROVE  StatsOrdered'
  BY <1>1, <1>2, <1>3, <1>6, StatsKept
<1>7. ASSUME source' = source, job' \in {job, NoJob}, memory'.verified \in {NoVerified, memory.verified},
             (pc' = pc /\ job' = job) \/ pc' \notin {"graph", "snapshot", "creation"}
      PROVE  StatsOrdered'
  <2>1. NoJob.probe = None /\ NoJob.events = None
    BY DEF NoJob
  <2> QED
    BY <1>1, <1>2, <1>3, <1>7, <2>1, StatsKept
<1>8. CASE Vanish \/ Reappear \/ DeleteSource
  <2>1. source'.version = source.version /\ source'.stat = source.stat
    BY <1>2, <1>8 DEF Vanish, Reappear, DeleteSource, Sources
  <2>2. UNCHANGED <<job, memory, pc>>
    BY <1>8 DEF Vanish, Reappear, DeleteSource
  <2> QED
    BY <1>1, <1>2, <1>3, <2>1, <2>2, StatsKept
<1>9. CASE List
  <2>1. job'.probe = None /\ job'.events = None
    BY <1>9 DEF List, ListPresent, ListAbsent, NoJob
  <2>2. UNCHANGED <<source, memory>> /\ pc' \notin {"graph", "snapshot", "creation"}
    BY <1>9 DEF List, ListPresent, ListAbsent
  <2> QED
    BY <1>1, <1>2, <1>3, <2>1, <2>2, StatsKept
<1>10. CASE ListIncomplete \/ Report \/ Crash \/ VerifiedExpires
  <2>1. memory'.verified \in {NoVerified, memory.verified}
    BY <1>10 DEF ListIncomplete, Report, Crash, VerifiedExpires, Fresh, TypeOK
  <2> QED
    BY <1>7, <1>10, <2>1 DEF ListIncomplete, Report, Crash, VerifiedExpires
<1>11. CASE Tombstone
  BY <1>2, <1>6, <1>11 DEF Tombstone, Job
<1>12. CASE CheckGates
  <2>1. job'.probe \in {job.probe, Probe} /\ job'.events = job.events
    BY <1>2, <1>12 DEF CheckGates, Job
  <2>2. UNCHANGED <<source, memory>> /\ pc' \notin {"graph", "snapshot", "creation"}
    BY <1>12 DEF CheckGates, Move
  <2> QED
    BY <1>4, <2>1, <2>2 DEF StatsOrdered
<1>13. CASE Verify
  <2>1. job'.probe = job.probe /\ job'.events = source.version /\ source' = source
    BY <1>2, <1>13 DEF Verify, Job
  <2>2. job.probe \in Nat /\ job.probe <= source.version
    BY <1>2, <1>3, StatTypes DEF StatsOrdered
  <2>3. \/ memory'.verified = memory.verified
        \/ memory'.verified = [stat |-> job.probe, rev |-> source.version]
    BY <1>13 DEF Verify, TypeOK
  <2>4. /\ memory'.verified.stat <= memory'.verified.rev
        /\ memory'.verified.rev <= source.version
    BY <1>3, <2>2, <2>3 DEF StatsOrdered
  <2> QED
    BY <1>3, <2>1, <2>2, <2>4 DEF StatsOrdered
<1>14. CASE ProbeSource
  <2>1. job'.probe \in {None, Probe} /\ job'.events = job.events
    BY <1>2, <1>14 DEF ProbeSource, Job
  <2>2. UNCHANGED <<source, memory>> /\ pc' \notin {"graph", "snapshot", "creation"}
    BY <1>14 DEF ProbeSource, Move
  <2> QED
    BY <1>3, <1>4, <2>1, <2>2 DEF StatsOrdered, None
<1>15. CASE Read \/ ReadRenderEvents
  <2>1. /\ job'.probe = job.probe
        /\ job'.events = source.version \/ (job'.events = job.events /\ pc' = "render")
    BY <1>2, <1>15 DEF Read, ReadRenderEvents, Move, Job
  <2>2. UNCHANGED <<source, memory>>
    BY <1>15 DEF Read, ReadRenderEvents, Move
  <2>3. job.probe \in Nat /\ job.probe <= source.version
    BY <1>2, <1>3, StatTypes DEF StatsOrdered
  <2> QED
    BY <1>3, <2>1, <2>2, <2>3 DEF StatsOrdered
<1>16. CASE WriteCreation
  <2>1. job'.probe = job.probe /\ job'.events = job.events /\ source' = source
    BY <1>2, <1>16 DEF WriteCreation, Job
  <2>2. pc = "creation" /\ pc' \notin {"graph", "snapshot", "creation"}
    BY <1>16 DEF WriteCreation
  <2>3. \/ memory'.verified = memory.verified
        \/ memory'.verified = [stat |-> job.probe, rev |-> job.events]
    BY <1>16 DEF WriteCreation, TypeOK
  <2>4. /\ memory'.verified.stat <= memory'.verified.rev
        /\ memory'.verified.rev <= source.version
    BY <2>2, <2>3 DEF StatsOrdered
  <2> QED
    BY <2>1, <2>2, <2>4 DEF StatsOrdered
<1>17. CASE ReadMissing \/ FailMissing \/ FailWatermark
  BY <1>2, <1>6, <1>17 DEF ReadMissing, FailMissing, FailWatermark, Job
<1>18. CASE GitUnresolved \/ GitFinish \/ GitUncaptured
  <2>1. memory'.verified = memory.verified
    BY <1>18 DEF GitUnresolved, GitFinish, GitUncaptured, TypeOK
  <2>2. job'.probe = job.probe /\ job'.events = job.events
    BY <1>2, <1>18 DEF GitUnresolved, GitFinish, GitUncaptured, Job
  <2> QED
    BY <1>6, <1>18, <2>1, <2>2 DEF GitUnresolved, GitFinish, GitUncaptured
<1>19. CASE CheckWatermark \/ Refresh \/ RenderEventsMissing \/ SkipGraph
  BY <1>6, <1>19 DEF CheckWatermark, Refresh, RenderEventsMissing, SkipGraph, Move
<1>20. CASE \/ FailMeta \/ FailProvenance \/ FailSearch \/ FailureWriteFails
            \/ ReadFails \/ PassFails
  BY <1>6, <1>20
  DEF FailMeta, FailProvenance, FailSearch, FailureWriteFails, ReadFails, PassFails
<1>21. CASE \/ WriteGraph \/ GraphFails \/ WriteSnapshot \/ SnapshotFails \/ CreationFails
            \/ ClearWatermark \/ GitBind \/ GitFails
  BY <1>6, <1>21
  DEF WriteGraph, GraphFails, WriteSnapshot, SnapshotFails, CreationFails, ClearWatermark,
      GitBind, GitFails
<1>22. CASE RemoveChecked \/ DeleteRows \/ DeleteRowsFails \/ UNCHANGED vars
  BY <1>6, <1>22 DEF RemoveChecked, DeleteRows, DeleteRowsFails, vars
<1> QED
  BY <1>5, <1>8, <1>9, <1>10, <1>11, <1>12, <1>13, <1>14, <1>15, <1>16, <1>17, <1>18, <1>19,
     <1>20, <1>21, <1>22
  DEF Next, Worker, Failure

(***************************************************************************)
(* Size and modification time that equal those of a verified capture stand *)
(* for the very bytes that were hashed, for every sequence of writes that  *)
(* ends in one the stat shows: indexSession may skip the copy and the hash.*)
(***************************************************************************)
THEOREM VerifiedStatsAreHonest == Spec => []VerifiedHonest
<1>1. Init => StatsOrdered
  BY DEF Init, StatsOrdered, NoJob, Fresh, NoVerified, None
<1>2. TypeOK /\ StatsOrdered => VerifiedHonest
  <2> SUFFICES ASSUME TypeOK, StatsOrdered PROVE VerifiedHonest
    OBVIOUS
  <2>1. source.version \in Nat /\ memory.verified.rev \in Nat
    BY StatTypes
  <2> QED
    BY <2>1 DEF VerifiedHonest, StatsOrdered
<1> QED
  BY <1>1, <1>2, TypeCorrect, NextStatsOrdered, PTL DEF Spec


-----------------------------------------------------------------------------
(* Skipped sessions.                                                        *)

(***************************************************************************)
(* What SkipSound is true of: either every transaction succeeds and the    *)
(* process lives, however often listings, reads and queries fail; or no    *)
(* more than one thing goes wrong, and if it may be a crash the reader has *)
(* a revision to compare.  With two faults, say a read that fails and one  *)
(* of the transactions that record the failure, the code does skip a       *)
(* session that is not complete.                                           *)
(***************************************************************************)
FewFaults ==
    \/ Faults \intersect {"database", "crash"} = {}
    \/ MaxFaults <= 1 /\ ("crash" \in Faults => Authoritative)

\* No transaction will fail any more, and the process will not crash.
NoMoreFaults == faults = 0 \/ Faults \intersect {"database", "crash"} = {}

\* What a pass read is not older than what was listed, nor newer than the source; an
\* authoritative reader has one capture of it.
ReadOfPass ==
    /\ pc \in {"graph", "snapshot", "creation"} =>
          /\ job.rev <= job.events
          /\ job.events <= source.version
          /\ Authoritative => job.detail = job.events
    /\ pc \in {"render", "graph", "snapshot"} => job.detail <= source.version

\* What is stored was in the source; a graph is not older than its revision.
StoredOnce ==
    /\ row.turns <= source.version
    /\ row.creation.of <= source.version
    /\ row.graph.rev <= row.graph.of
    /\ ~row.indexed => row.watermark = None

\* The captures of an authoritative reader are stored in order, the snapshot first.
Captures ==
    Authoritative =>
          /\ row.creation.rev = row.creation.of
          /\ row.turns # None => row.creation.of <= row.turns
          /\ pc \in {"graph", "snapshot"} => row.creation.of <= job.detail

\* Persisting a failed read that is not a missing source runs to its end.
FailureSteps ==
    /\ pc = "fail_meta" => job.missing \/ NoMoreFaults
    /\ pc \in {"fail_provenance", "fail_search", "fail_watermark"} => NoMoreFaults

\* A row with a watermark is complete, but for the steps until it is cleared.
Whole ==
    row.watermark # None =>
        \/ row.state = "complete" /\ row.turns # None
        \/ pc \in {"fail_search", "fail_watermark"}

\* The creation evidence does not go with the turns.
Parted == IF Authoritative THEN row.creation.of # row.turns ELSE row.creation.of < row.watermark

\* A snapshot whose creation evidence is not there yet is one that is being written,
\* or whose watermark is about to go, or of which nothing was verified.
PartsAgree ==
    row.watermark # None /\ row.turns # None /\ Parted =>
        \/ pc = "creation"
        \/ pc = "clear" /\ NoMoreFaults
        \/ Authoritative /\ memory.verified.rev = None

\* The creation evidence is written for the snapshot of the same pass.
Committed ==
    pc = "creation" /\ row.indexed => row.watermark = job.rev /\ row.turns = job.detail

\* What the worker knows of the row when it decides, unless the row was deleted.
Gates ==
    /\ pc \in {"watermark", "gates", "verify", "refresh"} => job.rev # None
    /\ pc \in {"gates", "verify", "refresh"} /\ row.indexed => row.watermark = job.rev
    /\ pc = "verify" => Authoritative
    /\ pc = "render" => ~Authoritative
    /\ pc = "verify" /\ row.indexed =>
          row.creation.rev = job.stored /\ (job.graphOK => GraphCurrent)
    /\ pc = "refresh" /\ row.indexed =>
          GraphCurrent /\ (Authoritative => row.creation.of = row.turns)

SkipParts ==
    /\ ReadOfPass /\ StoredOnce /\ Captures /\ FailureSteps
    /\ Whole /\ PartsAgree /\ Committed /\ Gates
SkipInv == WatermarkInv /\ SkipParts

\* The actions, by what they are about.
Agent == (\E kind \in Writes : SourceWrite(kind)) \/ Vanish \/ Reappear \/ DeleteSource
Listing == ListPresent \/ ListAbsent \/ ListIncomplete \/ Tombstone \/ Report
Deciding == CheckWatermark \/ CheckGates \/ Verify \/ Refresh
Reading ==
    \/ ProbeSource \/ Read \/ ReadRenderEvents \/ RenderEventsMissing \/ ReadMissing
    \/ ReadFails \/ PassFails
Failing ==
    \/ FailMeta \/ FailMissing \/ FailProvenance \/ FailSearch \/ FailWatermark
    \/ FailureWriteFails
Writing ==
    \/ SkipGraph \/ WriteGraph \/ GraphFails \/ WriteSnapshot \/ SnapshotFails
    \/ WriteCreation \/ CreationFails \/ ClearWatermark
Capturing == GitUnresolved \/ GitBind \/ GitFinish \/ GitUncaptured \/ GitFails
Around == VerifiedExpires \/ Crash \/ RemoveChecked \/ DeleteRows \/ DeleteRowsFails

\* The values that are compared are naturals.
LEMMA Fields ==
    ASSUME TypeOK
    PROVE  /\ row \in Row /\ job \in Job
           /\ source.version \in Nat \ {0} /\ source.updated \in Nat \ {0}
           /\ row.turns \in Nat /\ row.watermark \in Nat
           /\ row.creation.rev \in Nat /\ row.creation.of \in Nat
           /\ row.graph.rev \in Nat /\ row.graph.of \in Nat
           /\ job.rev \in Nat /\ job.detail \in Nat /\ job.events \in Nat /\ job.stored \in Nat
           /\ memory \in [verified : [stat : Content, rev : Content], attempted : BOOLEAN]
BY DEF TypeOK, Row, Job, Sources, Content, Versions, None

\* A tombstone takes the watermark and leaves the stored versions.
LEMMA Marked ==
    ASSUME row \in Row, row' = MarkedMissing(row, clock)
    PROVE  /\ row'.watermark = None
           /\ row'.turns = row.turns /\ row'.creation = row.creation
           /\ row'.graph = row.graph /\ row'.indexed = row.indexed
BY DEF MarkedMissing, Row

\* The fault that is allowed is the last one.
LEMMA LastFault ==
    ASSUME FewFaults, TypeOK, NEW kind \in {"read", "database", "crash"}, SpendFault(kind)
    PROVE  NoMoreFaults'
BY BudgetsAssumption DEF FewFaults, NoMoreFaults, SpendFault, TypeOK

\* No transaction fails when none will.
LEMMA Steady ==
    ASSUME FewFaults, TypeOK, NEW kind \in {"database", "crash"}, SpendFault(kind)
    PROVE  ~NoMoreFaults
BY DEF NoMoreFaults, SpendFault

\* Whatever happens to the source keeps what a skip relies on: it only gets newer.
LEMMA AgentKeeps ==
    ASSUME SkipInv, Agent
    PROVE  SkipParts'
<1>0. TypeOK /\ SkipParts
  BY DEF SkipInv, WatermarkInv
<1>1. source'.version \in Nat /\ source'.version >= source.version
  <2>1. source \in Sources /\ source.version \in Nat
    BY <1>0, Fields DEF TypeOK
  <2>2. CASE \E kind \in Writes : SourceWrite(kind)
    BY <2>1, <2>2 DEF SourceWrite, Sources
  <2>3. CASE Vanish \/ Reappear \/ DeleteSource
    BY <2>1, <2>3 DEF Vanish, Reappear, DeleteSource, Sources
  <2> QED
    BY <2>2, <2>3 DEF Agent
<1>2. row' = row /\ job' = job /\ pc' = pc /\ memory' = memory /\ faults' = faults
  <2>1. CASE \E kind \in Writes : SourceWrite(kind)
    BY <2>1 DEF SourceWrite
  <2>2. CASE Vanish \/ Reappear \/ DeleteSource
    BY <2>2 DEF Vanish, Reappear, DeleteSource
  <2> QED
    BY <2>1, <2>2 DEF Agent
<1>3. ReadOfPass'
  BY <1>0, <1>1, <1>2, Fields DEF SkipParts, ReadOfPass
<1>4. StoredOnce'
  BY <1>0, <1>1, <1>2, Fields DEF SkipParts, StoredOnce
<1>5. Captures' /\ Whole' /\ PartsAgree'
  BY <1>0, <1>2 DEF SkipParts, Captures, Whole, PartsAgree, Parted, NoMoreFaults
<1>6. FailureSteps' /\ Committed' /\ Gates'
  BY <1>0, <1>2 DEF SkipParts, FailureSteps, Committed, Gates, GraphCurrent, NoMoreFaults
<1> QED
  BY <1>3, <1>4, <1>5, <1>6 DEF SkipParts

\* The listing and the tombstones of a cycle keep what a skip relies on.
LEMMA ListingKeeps ==
    ASSUME FewFaults, SkipInv, WatermarkInv', Listing
    PROVE  SkipParts'
<1> USE Fields DEF None
<1>0. /\ TypeOK /\ TypeOK' /\ DetailFresh /\ DetailFresh' /\ WatermarkHonest
      /\ ReadOfPass /\ StoredOnce /\ Captures /\ FailureSteps
      /\ Whole /\ PartsAgree /\ Committed /\ Gates
  BY DEF SkipInv, SkipParts, WatermarkInv
<1>1. ReadOfPass'
  BY DEF Listing, ListPresent, ListAbsent, ListIncomplete, Tombstone, Report, ReadOfPass
<1>2. StoredOnce'
  <2>1. CASE ListPresent \/ ListAbsent \/ ListIncomplete \/ Report
    BY <1>0, <2>1 DEF ListPresent, ListAbsent, ListIncomplete, Report, StoredOnce
  <2>2. CASE Tombstone
    <3>1. row' = row \/ row' = MarkedMissing(row, clock)
      BY <2>2 DEF Tombstone, Commit
    <3>2. pc' = "report" /\ source' = source
      BY <2>2 DEF Tombstone
    <3> QED
      BY <1>0, <3>1, <3>2, Marked DEF StoredOnce
  <2> QED
    BY <2>1, <2>2 DEF Listing
<1>3. Captures'
  <2>1. CASE ListPresent \/ ListAbsent \/ ListIncomplete \/ Report
    BY <1>0, <2>1 DEF ListPresent, ListAbsent, ListIncomplete, Report, Captures
  <2>2. CASE Tombstone
    <3>1. row' = row \/ row' = MarkedMissing(row, clock)
      BY <2>2 DEF Tombstone, Commit
    <3>2. pc' = "report" /\ source' = source
      BY <2>2 DEF Tombstone
    <3> QED
      BY <1>0, <3>1, <3>2, Marked DEF Captures, StoredOnce
  <2> QED
    BY <2>1, <2>2 DEF Listing
<1>4. FailureSteps'
  BY DEF Listing, ListPresent, ListAbsent, ListIncomplete, Tombstone, Report, FailureSteps
<1>5. Whole'
  BY <1>0
  DEF Listing, ListPresent, ListAbsent, ListIncomplete, Tombstone, Report, Commit,
     MarkedMissing, Whole, Row
<1>6. PartsAgree'
  BY <1>0, LastFault, Steady
  DEF Listing, ListPresent, ListAbsent, ListIncomplete, Tombstone, Report, Commit,
     MarkedMissing, NoJob, ReadOfPass, StoredOnce, Captures, FailureSteps, Whole, PartsAgree,
     Committed, Gates, HoldsDetail, Parted, Row, Job
<1>7. Committed'
  BY DEF Listing, ListPresent, ListAbsent, ListIncomplete, Tombstone, Report, Committed
<1>8. Gates'
  BY <1>0
  DEF Listing, ListPresent, ListAbsent, ListIncomplete, Tombstone, Report, NoJob, Gates
<1> QED
  BY <1>1, <1>2, <1>3, <1>4, <1>5, <1>6, <1>7, <1>8 DEF SkipParts

\* What decides whether the session is unchanged keeps what a skip relies on: a session
\* is left alone when what is stored agrees.
LEMMA DecidingKeeps ==
    ASSUME FewFaults, SkipInv, WatermarkInv', Deciding
    PROVE  SkipParts'
<1> USE Fields DEF None
<1>0. /\ TypeOK /\ TypeOK' /\ DetailFresh /\ DetailFresh' /\ WatermarkHonest
      /\ ReadOfPass /\ StoredOnce /\ Captures /\ FailureSteps
      /\ Whole /\ PartsAgree /\ Committed /\ Gates
  BY DEF SkipInv, SkipParts, WatermarkInv
<1>1. ReadOfPass'
  <2>1. CASE CheckWatermark \/ Refresh
    BY <2>1 DEF CheckWatermark, Refresh, Move, ReadOfPass
  <2>2. CASE CheckGates
    <3>1. pc' \in {"probe", "refresh", "verify"}
      BY <2>2 DEF CheckGates, Move
    <3> QED
      BY <3>1 DEF ReadOfPass
  <2>3. CASE Verify
    BY <1>0, <2>3 DEF Verify, ReadOfPass, DetailFresh
  <2> QED
    BY <2>1, <2>2, <2>3 DEF Deciding
<1>2. StoredOnce'
  BY <1>0 DEF Deciding, CheckWatermark, CheckGates, Verify, Refresh, Move, StoredOnce
<1>3. Captures'
  BY <1>0
  DEF Deciding, CheckWatermark, CheckGates, Verify, Refresh, Move, StoredOnce, Captures, Job
<1>4. FailureSteps'
  BY DEF Deciding, CheckWatermark, CheckGates, Verify, Refresh, Move, FailureSteps
<1>5. Whole'
  BY <1>0 DEF Deciding, CheckWatermark, CheckGates, Verify, Refresh, Move, Whole
<1>6. PartsAgree'
  BY <1>0
  DEF Deciding, CheckWatermark, CheckGates, Verify, Refresh, Move, StoredOnce, Captures,
     PartsAgree, Gates, Parted
<1>7. Committed'
  BY DEF Deciding, CheckWatermark, CheckGates, Verify, Refresh, Move, Committed
<1>8. Gates'
  <2>1. CASE CheckWatermark
    BY <1>0, <2>1 DEF CheckWatermark, Move, Gates
  <2>2. CASE CheckGates
    <3>1. /\ row' = row /\ job'.rev = job.rev /\ job'.stored = row.creation.rev
          /\ job'.graphOK = GraphCurrent /\ pc = "gates"
          /\ pc' \in {"probe", "refresh", "verify"}
      BY <1>0, <2>2 DEF CheckGates, Move, Job
    <3>2. GraphCurrent' = GraphCurrent
      BY <3>1 DEF GraphCurrent
    <3>3. job.rev # None /\ (row.indexed => row.watermark = job.rev)
      BY <1>0, <3>1 DEF Gates
    <3>4. /\ pc' = "verify" => Authoritative
          /\ pc' = "refresh" => GraphCurrent
          /\ pc' = "refresh" /\ Authoritative =>
                row.creation.rev # None /\ memory.verified.rev = row.creation.rev
      BY <2>2 DEF CheckGates, Move, VerifiedStillCurrent
    <3>5. ASSUME pc' = "refresh", Authoritative, row.indexed
          PROVE  row.creation.of = row.turns
      <4>1. row.watermark # None /\ memory.verified.rev # None
        BY <3>3, <3>4, <3>5
      <4>2. row.turns # None
        BY <1>0, <3>1, <4>1 DEF Whole
      <4> QED
        BY <1>0, <3>1, <3>5, <4>1, <4>2 DEF PartsAgree, Parted
    <3> QED
      BY <3>1, <3>2, <3>3, <3>4, <3>5 DEF Gates
  <2>3. CASE Verify
    BY <1>0, <2>3 DEF Verify, StoredOnce, Captures, Whole, Gates, GraphCurrent
  <2>4. CASE Refresh
    BY <2>4 DEF Refresh, Move, Gates
  <2> QED
    BY <2>1, <2>2, <2>3, <2>4 DEF Deciding
<1> QED
  BY <1>1, <1>2, <1>3, <1>4, <1>5, <1>6, <1>7, <1>8 DEF SkipParts

\* The reads of a pass keep what a skip relies on: they are never older than what is stored.
LEMMA ReadingKeeps ==
    ASSUME FewFaults, SkipInv, WatermarkInv', Reading
    PROVE  SkipParts'
<1> USE Fields DEF None
<1>0. /\ TypeOK /\ TypeOK' /\ DetailFresh /\ DetailFresh' /\ WatermarkHonest
      /\ ReadOfPass /\ StoredOnce /\ Captures /\ FailureSteps
      /\ Whole /\ PartsAgree /\ Committed /\ Gates
  BY DEF SkipInv, SkipParts, WatermarkInv
<1>1. ReadOfPass'
  <2>1. CASE ProbeSource \/ RenderEventsMissing \/ ReadMissing \/ ReadFails \/ PassFails
    BY <2>1
    DEF ProbeSource, RenderEventsMissing, ReadMissing, ReadFails, PassFails, Move, ReadOfPass
  <2>2. CASE Read
    <3>1. job'.rev = job.rev /\ job'.detail = source.version
          /\ (Authoritative => job'.events = source.version)
          /\ (~Authoritative => pc' = "render")
      BY <1>0, <2>2 DEF Read, Move, Job
    <3>2. source' = source
      BY <2>2 DEF Read, Move
    <3>3. job.rev <= source.version
      BY <1>0 DEF DetailFresh
    <3> QED
      BY <1>0, <3>1, <3>2, <3>3 DEF ReadOfPass
  <2>3. CASE ReadRenderEvents
    <3>1. job'.rev = job.rev /\ job'.detail = job.detail /\ job'.events = source.version
      BY <1>0, <2>3 DEF ReadRenderEvents, Move, Job
    <3>2. source' = source /\ pc = "render" /\ ~Authoritative
      BY <1>0, <2>3 DEF ReadRenderEvents, Move, Gates
    <3>3. job.rev <= source.version /\ job.detail <= source.version
      BY <1>0, <3>2 DEF DetailFresh, ReadOfPass
    <3> QED
      BY <1>0, <3>1, <3>2, <3>3 DEF ReadOfPass
  <2> QED
    BY <2>1, <2>2, <2>3 DEF Reading
<1>2. StoredOnce'
  <2>1. CASE ProbeSource \/ Read \/ ReadRenderEvents \/ RenderEventsMissing \/ ReadMissing
          \/ ReadFails \/ PassFails
    BY <1>0, <2>1
    DEF ProbeSource, Read, ReadRenderEvents, RenderEventsMissing, ReadMissing, ReadFails,
       PassFails, Move, StoredOnce
  <2> QED
    BY <2>1 DEF Reading
<1>3. Captures'
  <2>1. CASE ProbeSource \/ RenderEventsMissing \/ ReadMissing \/ ReadFails \/ PassFails
    BY <1>0, <2>1
    DEF ProbeSource, RenderEventsMissing, ReadMissing, ReadFails, PassFails, Move, Captures
  <2>2. CASE Read
    BY <1>0, <2>2 DEF Read, Move, StoredOnce, Captures, Committed, DetailFresh, Job
  <2>3. CASE ReadRenderEvents
    <3>1. row' = row /\ ~Authoritative
      BY <1>0, <2>3 DEF ReadRenderEvents, Move, Gates
    <3> QED
      BY <3>1 DEF Captures
  <2> QED
    BY <2>1, <2>2, <2>3 DEF Reading
<1>4. FailureSteps'
  BY <1>0, LastFault
  DEF Reading, ProbeSource, Read, ReadRenderEvents, RenderEventsMissing, ReadMissing, ReadFails,
     PassFails, Move, FailureSteps, Job
<1>5. Whole'
  BY <1>0
  DEF Reading, ProbeSource, Read, ReadRenderEvents, RenderEventsMissing, ReadMissing, ReadFails,
     PassFails, Move, Whole
<1>6. PartsAgree'
  BY <1>0
  DEF Reading, ProbeSource, Read, ReadRenderEvents, RenderEventsMissing, ReadMissing, ReadFails,
     PassFails, Move, PartsAgree, Parted
<1>7. Committed'
  BY DEF Reading, ProbeSource, Read, ReadRenderEvents, RenderEventsMissing, ReadMissing,
     ReadFails, PassFails, Move, Committed
<1>8. Gates'
  BY DEF Reading, ProbeSource, Read, ReadRenderEvents, RenderEventsMissing, ReadMissing,
     ReadFails, PassFails, Move, Gates
<1> QED
  BY <1>1, <1>2, <1>3, <1>4, <1>5, <1>6, <1>7, <1>8 DEF SkipParts

\* Persisting a read that failed keeps what a skip relies on: nothing follows but its end.
LEMMA FailingKeeps ==
    ASSUME FewFaults, SkipInv, WatermarkInv', Failing
    PROVE  SkipParts'
<1> USE Fields DEF None
<1>0. /\ TypeOK /\ TypeOK' /\ DetailFresh /\ DetailFresh' /\ WatermarkHonest
      /\ ReadOfPass /\ StoredOnce /\ Captures /\ FailureSteps
      /\ Whole /\ PartsAgree /\ Committed /\ Gates
  BY DEF SkipInv, SkipParts, WatermarkInv
<1>1. ReadOfPass'
  BY DEF Failing, FailMeta, FailMissing, FailProvenance, FailSearch, FailWatermark,
     FailureWriteFails, ReadOfPass
<1>2. StoredOnce'
  <2>1. CASE FailMeta
    BY <1>0, <2>1 DEF FailMeta, Commit, StoredOnce
  <2>2. CASE FailMissing
    BY <1>0, <2>2 DEF FailMissing, Commit, MarkedMissing, StoredOnce
  <2>3. CASE FailProvenance
    BY <1>0, <2>3 DEF FailProvenance, Commit, WithMetadataOnly, StoredOnce
  <2>4. CASE FailSearch
    BY <1>0, <2>4 DEF FailSearch, Commit, StoredOnce
  <2>5. CASE FailWatermark
    BY <1>0, <2>5 DEF FailWatermark, Commit, StoredOnce
  <2>6. CASE FailureWriteFails
    BY <1>0, <2>6 DEF FailureWriteFails, StoredOnce
  <2> QED
    BY <2>1, <2>2, <2>3, <2>4, <2>5, <2>6 DEF Failing
<1>3. Captures'
  <2>1. CASE FailMeta
    BY <1>0, <2>1 DEF FailMeta, Commit, Captures
  <2>2. CASE FailMissing
    BY <1>0, <2>2 DEF FailMissing, Commit, MarkedMissing, Captures
  <2>3. CASE FailProvenance
    BY <1>0, <2>3 DEF FailProvenance, Commit, WithMetadataOnly, Captures
  <2>4. CASE FailSearch
    BY <1>0, <2>4 DEF FailSearch, Commit, Captures
  <2>5. CASE FailWatermark
    BY <1>0, <2>5 DEF FailWatermark, Commit, Captures
  <2>6. CASE FailureWriteFails
    BY <1>0, <2>6 DEF FailureWriteFails, Captures
  <2> QED
    BY <2>1, <2>2, <2>3, <2>4, <2>5, <2>6 DEF Failing
<1>4. FailureSteps'
  BY <1>0
  DEF Failing, FailMeta, FailMissing, FailProvenance, FailSearch, FailWatermark,
     FailureWriteFails, FailureSteps, NoMoreFaults
<1>5. Whole'
  BY <1>0, Steady
  DEF Failing, FailMeta, FailMissing, FailProvenance, FailSearch, FailWatermark,
     FailureWriteFails, Commit, MarkedMissing, FailureSteps, Whole, Row
<1>6. PartsAgree'
  <2>1. CASE FailMeta
    BY <1>0, <2>1 DEF FailMeta, Commit, PartsAgree, Parted
  <2>2. CASE FailMissing
    <3>1. IF row.indexed THEN row' = MarkedMissing(row, clock) ELSE row' = row
      BY <2>2 DEF FailMissing, Commit
    <3> QED
      BY <1>0, <3>1, Marked DEF PartsAgree, StoredOnce
  <2>3. CASE FailProvenance
    BY <1>0, <2>3 DEF FailProvenance, Commit, WithMetadataOnly, PartsAgree, Parted
  <2>4. CASE FailSearch
    BY <2>4 DEF FailSearch, Commit, PartsAgree
  <2>5. CASE FailWatermark
    BY <2>5 DEF FailWatermark, Commit, PartsAgree
  <2>6. CASE FailureWriteFails
    BY <1>0, <2>6 DEF FailureWriteFails, PartsAgree, Parted
  <2> QED
    BY <2>1, <2>2, <2>3, <2>4, <2>5, <2>6 DEF Failing
<1>7. Committed'
  BY DEF Failing, FailMeta, FailMissing, FailProvenance, FailSearch, FailWatermark,
     FailureWriteFails, Committed
<1>8. Gates'
  BY DEF Failing, FailMeta, FailMissing, FailProvenance, FailSearch, FailWatermark,
     FailureWriteFails, Gates
<1> QED
  BY <1>1, <1>2, <1>3, <1>4, <1>5, <1>6, <1>7, <1>8 DEF SkipParts

\* The transactions of a pass keep what a skip relies on: a pass that stops half way takes
\* its watermark back.
LEMMA WritingKeeps ==
    ASSUME FewFaults, SkipInv, WatermarkInv', Writing
    PROVE  SkipParts'
<1> USE Fields DEF None
<1>0. /\ TypeOK /\ TypeOK' /\ DetailFresh /\ DetailFresh' /\ WatermarkHonest
      /\ ReadOfPass /\ StoredOnce /\ Captures /\ FailureSteps
      /\ Whole /\ PartsAgree /\ Committed /\ Gates
  BY DEF SkipInv, SkipParts, WatermarkInv
<1>1. ReadOfPass'
  BY <1>0
  DEF Writing, SkipGraph, WriteGraph, GraphFails, WriteSnapshot, SnapshotFails, WriteCreation,
     CreationFails, ClearWatermark, Move, ReadOfPass
<1>2. StoredOnce'
  <2>1. CASE SkipGraph \/ SnapshotFails \/ CreationFails
    BY <1>0, <2>1 DEF SkipGraph, SnapshotFails, CreationFails, Move, StoredOnce
  <2>2. CASE WriteGraph
    BY <1>0, <2>2 DEF WriteGraph, Commit, StoredOnce, DetailFresh
  <2>3. CASE GraphFails \/ ClearWatermark
    BY <1>0, <2>3 DEF GraphFails, ClearWatermark, StoredOnce, Row
  <2>4. CASE WriteSnapshot
    BY <1>0, <2>4 DEF WriteSnapshot, Commit, WithSnapshot, ReadOfPass, StoredOnce
  <2>5. CASE WriteCreation
    BY <1>0, <2>5 DEF WriteCreation, ReadOfPass, StoredOnce
  <2> QED
    BY <2>1, <2>2, <2>3, <2>4, <2>5 DEF Writing
<1>3. Captures'
  <2>1. CASE SkipGraph \/ SnapshotFails \/ CreationFails
    BY <1>0, <2>1 DEF SkipGraph, SnapshotFails, CreationFails, Move, Captures
  <2>2. CASE WriteGraph
    BY <1>0, <2>2 DEF WriteGraph, Commit, Captures
  <2>3. CASE GraphFails \/ ClearWatermark
    BY <1>0, <2>3 DEF GraphFails, ClearWatermark, Captures, Row
  <2>4. CASE WriteSnapshot
    BY <1>0, <2>4 DEF WriteSnapshot, Commit, WithSnapshot, Captures
  <2>5. CASE WriteCreation
    BY <1>0, <2>5 DEF WriteCreation, CreationRevision, ReadOfPass, Captures, Committed
  <2> QED
    BY <2>1, <2>2, <2>3, <2>4, <2>5 DEF Writing
<1>4. FailureSteps'
  BY DEF Writing, SkipGraph, WriteGraph, GraphFails, WriteSnapshot, SnapshotFails,
     WriteCreation, CreationFails, ClearWatermark, Move, FailureSteps
<1>5. Whole'
  <2>1. CASE SkipGraph \/ SnapshotFails \/ CreationFails
    BY <1>0, <2>1 DEF SkipGraph, SnapshotFails, CreationFails, Move, Whole
  <2>2. CASE WriteGraph
    BY <1>0, <2>2 DEF WriteGraph, Commit, Whole
  <2>3. CASE GraphFails \/ ClearWatermark
    BY <1>0, <2>3 DEF GraphFails, ClearWatermark, Whole, Row
  <2>4. CASE WriteSnapshot
    BY <1>0, <2>4 DEF WriteSnapshot, Commit, WithSnapshot, Whole, HoldsDetail, DetailFresh
  <2>5. CASE WriteCreation
    BY <1>0, <2>5 DEF WriteCreation, Whole
  <2> QED
    BY <2>1, <2>2, <2>3, <2>4, <2>5 DEF Writing
<1>6. PartsAgree'
  BY <1>0, LastFault, Steady
  DEF Writing, SkipGraph, WriteGraph, GraphFails, WriteSnapshot, SnapshotFails, WriteCreation,
     CreationFails, ClearWatermark, Commit, Move, ReadOfPass, StoredOnce, PartsAgree, Committed,
     Parted, Row
<1>7. Committed'
  <2>1. CASE SkipGraph \/ WriteGraph \/ GraphFails \/ SnapshotFails \/ CreationFails
          \/ ClearWatermark
    BY <2>1
    DEF SkipGraph, WriteGraph, GraphFails, SnapshotFails, CreationFails, ClearWatermark, Move,
       Committed
  <2>2. CASE WriteSnapshot
    BY <2>2 DEF WriteSnapshot, Commit, WithSnapshot, Committed
  <2>3. CASE WriteCreation
    BY <2>3 DEF WriteCreation, Committed
  <2> QED
    BY <2>1, <2>2, <2>3 DEF Writing
<1>8. Gates'
  BY DEF Writing, SkipGraph, WriteGraph, GraphFails, WriteSnapshot, SnapshotFails,
     WriteCreation, CreationFails, ClearWatermark, Move, Gates
<1> QED
  BY <1>1, <1>2, <1>3, <1>4, <1>5, <1>6, <1>7, <1>8 DEF SkipParts

\* Capturing Git evidence keeps what a skip relies on.
LEMMA CapturingKeeps ==
    ASSUME FewFaults, SkipInv, WatermarkInv', Capturing
    PROVE  SkipParts'
<1> USE Fields DEF None
<1>0. /\ TypeOK /\ TypeOK' /\ DetailFresh /\ DetailFresh' /\ WatermarkHonest
      /\ ReadOfPass /\ StoredOnce /\ Captures /\ FailureSteps
      /\ Whole /\ PartsAgree /\ Committed /\ Gates
  BY DEF SkipInv, SkipParts, WatermarkInv
<1>1. ReadOfPass'
  BY DEF Capturing, GitUnresolved, GitBind, GitFinish, GitUncaptured, GitFails, ReadOfPass
<1>2. StoredOnce'
  BY <1>0
  DEF Capturing, GitUnresolved, GitBind, GitFinish, GitUncaptured, GitFails, StoredOnce, Row
<1>3. Captures'
  BY <1>0
  DEF Capturing, GitUnresolved, GitBind, GitFinish, GitUncaptured, GitFails, Captures, Row
<1>4. FailureSteps'
  BY DEF Capturing, GitUnresolved, GitBind, GitFinish, GitUncaptured, GitFails, FailureSteps
<1>5. Whole'
  BY <1>0
  DEF Capturing, GitUnresolved, GitBind, GitFinish, GitUncaptured, GitFails, Whole, Row
<1>6. PartsAgree'
  BY <1>0
  DEF Capturing, GitUnresolved, GitBind, GitFinish, GitUncaptured, GitFails, PartsAgree, Parted,
     Row
<1>7. Committed'
  BY DEF Capturing, GitUnresolved, GitBind, GitFinish, GitUncaptured, GitFails, Committed
<1>8. Gates'
  BY DEF Capturing, GitUnresolved, GitBind, GitFinish, GitUncaptured, GitFails, Gates
<1> QED
  BY <1>1, <1>2, <1>3, <1>4, <1>5, <1>6, <1>7, <1>8 DEF SkipParts

\* What happens around the worker keeps what a skip relies on: a crash forgets what was
\* verified.
LEMMA AroundKeeps ==
    ASSUME FewFaults, SkipInv, WatermarkInv', Around
    PROVE  SkipParts'
<1> USE Fields DEF None
<1>0. /\ TypeOK /\ TypeOK' /\ DetailFresh /\ DetailFresh' /\ WatermarkHonest
      /\ ReadOfPass /\ StoredOnce /\ Captures /\ FailureSteps
      /\ Whole /\ PartsAgree /\ Committed /\ Gates
  BY DEF SkipInv, SkipParts, WatermarkInv
<1>1. ReadOfPass'
  BY <1>0
  DEF Around, VerifiedExpires, Crash, RemoveChecked, DeleteRows, DeleteRowsFails, ReadOfPass
<1>2. StoredOnce'
  BY <1>0
  DEF Around, VerifiedExpires, Crash, RemoveChecked, DeleteRows, DeleteRowsFails, NoCreation,
     NoGraph, NoRow, StoredOnce
<1>3. Captures'
  BY <1>0
  DEF Around, VerifiedExpires, Crash, RemoveChecked, DeleteRows, DeleteRowsFails, NoCreation,
     NoRow, Captures
<1>4. FailureSteps'
  BY <1>0, Steady
  DEF Around, VerifiedExpires, Crash, RemoveChecked, DeleteRows, DeleteRowsFails, FailureSteps,
     NoMoreFaults
<1>5. Whole'
  BY <1>0, Steady
  DEF Around, VerifiedExpires, Crash, RemoveChecked, DeleteRows, DeleteRowsFails, NoRow,
     FailureSteps, Whole
<1>6. PartsAgree'
  <2>1. CASE VerifiedExpires
    BY <1>0, <2>1 DEF VerifiedExpires, NoVerified, PartsAgree, NoMoreFaults, Parted
  <2>2. CASE Crash
    <3>1. Authoritative
      BY <2>2 DEF Crash, SpendFault, FewFaults
    <3>2. memory'.verified.rev = None
      BY <2>2 DEF Crash, Fresh, NoVerified
    <3> QED
      BY <3>1, <3>2 DEF PartsAgree
  <2>3. CASE RemoveChecked
    BY <1>0, <2>3 DEF RemoveChecked, PartsAgree, NoMoreFaults, Parted
  <2>4. CASE DeleteRows
    BY <2>4 DEF DeleteRows, NoRow, PartsAgree
  <2>5. CASE DeleteRowsFails
    BY <1>0, <2>5, Steady DEF DeleteRowsFails, PartsAgree, Parted
  <2> QED
    BY <2>1, <2>2, <2>3, <2>4, <2>5 DEF Around
<1>7. Committed'
  BY <1>0
  DEF Around, VerifiedExpires, Crash, RemoveChecked, DeleteRows, DeleteRowsFails, NoRow,
     Committed
<1>8. Gates'
  BY <1>0
  DEF Around, VerifiedExpires, Crash, RemoveChecked, DeleteRows, DeleteRowsFails, NoRow, Gates,
     GraphCurrent
<1> QED
  BY <1>1, <1>2, <1>3, <1>4, <1>5, <1>6, <1>7, <1>8 DEF SkipParts

\* Nothing is skipped before anything was stored.
LEMMA InitSkipInv == Init => SkipInv
<1> SUFFICES ASSUME Init PROVE SkipInv
  OBVIOUS
<1>1. WatermarkInv
  BY InitWatermarkInv
<1>2. source.version \in Nat
  BY <1>1, Fields DEF WatermarkInv
<1>3. ReadOfPass /\ StoredOnce /\ Captures /\ FailureSteps
  BY <1>2
  DEF Init, NoRow, NoCreation, NoGraph, None, ReadOfPass, StoredOnce, Captures, FailureSteps
<1>4. Whole /\ PartsAgree /\ Committed /\ Gates
  BY DEF Init, NoRow, NoCreation, None, Whole, PartsAgree, Committed, Gates
<1> QED
  BY <1>1, <1>3, <1>4 DEF SkipInv, SkipParts

\* Every step keeps the invariant behind SkipSound, as long as faults are few.
LEMMA NextSkipInv ==
    ASSUME FewFaults
    PROVE  SkipInv /\ [Next]_vars => SkipInv'
<1> SUFFICES ASSUME SkipInv, [Next]_vars PROVE SkipInv'
  OBVIOUS
<1>1. WatermarkInv'
  BY NextWatermarkInv DEF SkipInv
<1>2. CASE UNCHANGED vars
  <2> USE <1>2 DEF vars
  <2>1. ReadOfPass' /\ StoredOnce' /\ Captures' /\ FailureSteps'
    BY DEF SkipInv, SkipParts, ReadOfPass, StoredOnce, Captures, FailureSteps, NoMoreFaults
  <2>2. Whole' /\ PartsAgree'
    BY DEF SkipInv, SkipParts, Whole, PartsAgree, Parted, NoMoreFaults
  <2>3. Committed' /\ Gates'
    BY DEF SkipInv, SkipParts, Committed, Gates, GraphCurrent
  <2> QED
    BY <1>1, <2>1, <2>2, <2>3 DEF SkipInv, SkipParts
<1>3. CASE Next
  <2>1. \/ Agent \/ Listing \/ Deciding \/ Reading \/ Failing \/ Writing \/ Capturing \/ Around
    BY <1>3, Zenon
    DEF Next, List, Worker, Failure, Agent, Listing, Deciding, Reading, Failing, Writing,
        Capturing, Around
  <2>2. SkipParts'
    BY <1>1, <2>1, AgentKeeps, ListingKeeps, DecidingKeeps, ReadingKeeps, FailingKeeps,
       WritingKeeps, CapturingKeeps, AroundKeeps, Zenon
  <2> QED
    BY <1>1, <2>2 DEF SkipInv
<1> QED
  BY <1>1, <1>2, <1>3 DEF SkipInv

\* What the invariant says of a worker that is about to leave a session alone.
LEMMA SkipInvSound == SkipInv => SkipSound
<1> SUFFICES ASSUME SkipInv, pc = "refresh", row.indexed
             PROVE  /\ row.state = "complete"
                    /\ row.turns >= job.rev
                    /\ row.creation.of >= job.rev
                    /\ Authoritative => row.creation.of = row.turns
                    /\ Collaborates => row.graph.of >= job.rev /\ ~row.graph.stale
  BY DEF SkipSound
<1> USE Fields DEF None
<1>0. TypeOK /\ WatermarkHonest /\ StoredOnce /\ Whole /\ PartsAgree /\ Gates
  BY DEF SkipInv, SkipParts, WatermarkInv
<1>1. /\ job.rev # None /\ row.watermark = job.rev /\ GraphCurrent
      /\ Authoritative => row.creation.of = row.turns
  BY <1>0 DEF Gates
<1>2. row.state = "complete" /\ row.turns # None
  BY <1>0, <1>1 DEF Whole
<1>3. row.turns >= job.rev
  BY <1>0, <1>1, <1>2 DEF WatermarkHonest
<1>4. row.creation.of >= job.rev
  BY <1>0, <1>1, <1>2, <1>3 DEF PartsAgree, Parted
<1>5. Collaborates => row.graph.of >= job.rev /\ ~row.graph.stale
  BY <1>0, <1>1 DEF GraphCurrent, StoredOnce
<1> QED
  BY <1>1, <1>2, <1>3, <1>4, <1>5

(***************************************************************************)
(* A pass that failed half way is never skipped, for any number of         *)
(* versions, any kind of reader and of writes, and whatever handlers do:   *)
(* what indexSession leaves alone as unchanged is complete and at least as *)
(* new as the revision that was listed.                                    *)
(***************************************************************************)
THEOREM SkipsAreSound ==
    ASSUME FewFaults
    PROVE  Spec => []SkipSound
<1>1. SkipInv /\ [Next]_vars => SkipInv'
  BY NextSkipInv
<1> QED
  BY <1>1, InitSkipInv, SkipInvSound, PTL DEF Spec

=============================================================================
