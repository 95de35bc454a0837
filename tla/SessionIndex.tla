---------------------------- MODULE SessionIndex ----------------------------
(***************************************************************************)
(* How one session of one agent gets into the index and stays right there: *)
(* indexSession and the steps around it in internal/indexer/indexer.go,    *)
(* the transactions of internal/db they commit, and the HTTP handlers that *)
(* delete rows behind the indexer's back.                                  *)
(*                                                                         *)
(* The agent writes the session's source whenever it likes.  The indexer   *)
(* lists the source, decides from its watermark and from the revisions of  *)
(* the derived tables whether the session is unchanged, and otherwise      *)
(* reads it and commits, in separate transactions, the collaboration       *)
(* graph, the snapshot (metadata, turns, provenance, watermark), the       *)
(* Change Request creation evidence and the Git evidence.  Between any two *)
(* steps the source may change, a handler may delete rows, a transaction   *)
(* may fail and the process may crash.                                     *)
(*                                                                         *)
(* Contents are version numbers.  A session is processed by one worker at  *)
(* a time and shares no state with another session, so one is enough.      *)
(***************************************************************************)
EXTENDS Integers

CONSTANTS
    MaxVersion,     \* bound on the versions of the source
    MaxFaults,      \* bound on failed reads, failed transactions and crashes
    MaxRemovals,    \* bound on disappearances of the source
    Writes,         \* the ways the agent may write, see SourceWrite
    Authoritative,  \* TRUE: AuthoritativeIndexSnapshotReader and SourceStatReader
    Collaborates,   \* TRUE: CollaborationReader, and the session is a root
    Faults,         \* the faults that may happen
    Handlers        \* the HTTP handlers that may be called

ASSUME VersionsAssumption == MaxVersion \in Nat \ {0}
ASSUME BudgetsAssumption == MaxFaults \in Nat /\ MaxRemovals \in Nat
ASSUME KindsAssumption ==
    /\ Writes \subseteq {"append", "rewrite", "stealth"}
    /\ Authoritative \in BOOLEAN
    /\ Collaborates \in BOOLEAN
    /\ Faults \subseteq {"inventory", "read", "error", "database", "crash"}
    /\ Handlers \subseteq {"delete", "remove"}

VARIABLES
    source,      \* the session's files
    row,         \* the session's rows in the index database
    memory,      \* sourceVerifyStats and gitAttempted, lost in a crash
    pc,          \* where the worker stands, "idle" between two cycles
    job,         \* the worker's local variables
    handler,     \* the HTTP handler that is running: where it stands
    clock,       \* parity of the cycle: what time.Now() can tell apart
    faults,      \* faults left
    removals,    \* disappearances left
    history      \* what only the properties look at

vars == <<source, row, memory, pc, job, handler, clock, faults, removals, history>>

Versions == 1..MaxVersion
None == 0
Stamps == {1, 2}

(***************************************************************************)
(* source.version is the content (and, hashed, the SourceRevision of an    *)
(* authoritative reader), source.updated the UpdatedAt the reader lists,   *)
(* source.stat the size and modification time: each is the version of the  *)
(* last write that changed it.                                             *)
(***************************************************************************)
Sources == [present : BOOLEAN, version : Versions, updated : Versions, stat : Versions]

NoCreation == [rev |-> None, of |-> None]
NoGraph == [rev |-> None, of |-> None, stale |-> FALSE]
NoRow ==
    [indexed |-> FALSE,          \* sessions
     turns |-> None,             \* turn_texts, by the version they were cut from
     watermark |-> None,         \* index_watermarks.revision
     state |-> "none",           \* session_provenance.state
     since |-> None,             \* session_provenance.missing_since
     creation |-> NoCreation,    \* session_change_request_creation_indexes
     graph |-> NoGraph,          \* collaboration_roots
     git |-> FALSE]              \* session_git_bindings joined with evidence

NoVerified == [stat |-> None, rev |-> None]
Fresh == [verified |-> NoVerified, attempted |-> FALSE]

NoJob ==
    [rev |-> None,          \* revision: the UpdatedAt that was listed
     complete |-> FALSE,    \* inventoryComplete
     probe |-> None,        \* preReadProbe
     detail |-> None,       \* version the detail was read from
     events |-> None,       \* version the render events were read from
     stored |-> None,       \* storedSourceRevision
     graphOK |-> FALSE,     \* collabCurrent
     gitOK |-> FALSE,       \* gitEvidenceCurrent
     missing |-> FALSE,     \* the typed read failure says the source is gone
     did |-> FALSE]         \* changed, reported to the cycle

NoHistory ==
    [sawAbsent |-> FALSE,   \* this cycle saw no source (listing or read)
     unseen |-> FALSE,      \* the row changed since the last OnChanged
     idle |-> FALSE,        \* the last OnChanged announced an unchanged row
     deleted |-> FALSE,     \* the rows were deleted and the source not recreated
     orphaned |-> FALSE,    \* the source was deleted and then not its rows
     wrongly |-> FALSE]     \* remove-from-index deleted a row not source_missing

Init ==
    /\ source = [present |-> TRUE, version |-> 1, updated |-> 1, stat |-> 1]
    /\ row = NoRow
    /\ memory = Fresh
    /\ pc = "idle"
    /\ job = NoJob
    /\ handler = "idle"
    /\ clock = 1
    /\ faults = MaxFaults
    /\ removals = MaxRemovals
    /\ history = NoHistory

-----------------------------------------------------------------------------
(* The agent, and whoever else owns the source.                            *)

\* An append moves UpdatedAt and the stat; a rewrite in place keeps UpdatedAt;
\* a stealthy one keeps size and modification time as well.
SourceWrite(kind) ==
    /\ source.present
    /\ source.version < MaxVersion
    /\ LET next == source.version + 1 IN
       source' = [source EXCEPT
           !.version = next,
           !.updated = IF kind = "append" THEN next ELSE @,
           !.stat = IF kind = "stealth" THEN @ ELSE next]
    /\ UNCHANGED <<row, memory, pc, job, handler, clock, faults, removals, history>>

Vanish ==
    /\ source.present
    /\ removals > 0
    /\ removals' = removals - 1
    /\ source' = [source EXCEPT !.present = FALSE]
    /\ UNCHANGED <<row, memory, pc, job, handler, clock, faults, history>>

\* The source comes back as it was (a restored backup, a mounted disk).
Reappear ==
    /\ ~source.present
    /\ source' = [source EXCEPT !.present = TRUE]
    /\ history' = [history EXCEPT !.deleted = FALSE, !.orphaned = FALSE]
    /\ UNCHANGED <<row, memory, pc, job, handler, clock, faults, removals>>

-----------------------------------------------------------------------------
(* The index database: what each transaction does to the session's rows.   *)

\* markSessionsSourceMissing keeps the clock of a tombstone that is already set.
MarkedMissing(r, now) ==
    [r EXCEPT !.state = "source_missing",
              !.since = IF r.state = "source_missing" /\ r.since # None THEN @ ELSE now,
              !.watermark = None]

\* Seeded fault: a session that is read again keeps the clock of its tombstone.
WithSnapshotKeepsClock(r, j) ==
    [r EXCEPT !.indexed = TRUE, !.turns = j.detail, !.watermark = j.rev,
              !.state = "complete"]

\* ReplaceSessionSnapshot: metadata, turns, watermark and provenance at once. (The
\* readers modelled here hand over provenance with every snapshot. Hermes hands over
\* none; its listings are never complete, so that nothing marks its sessions.)
WithSnapshot(r, j) ==
    [r EXCEPT !.indexed = TRUE, !.turns = j.detail, !.watermark = j.rev,
              !.state = "complete", !.since = None]

\* UpsertProvenance with a metadata-only record, whose MissingSince is nil.
WithMetadataOnly(r) == [r EXCEPT !.state = "metadata_only", !.since = None]

\* What ListSessionSummaries lets a client see of the session.
Visible(r) == <<r.indexed, r.turns, r.state, r.since>>

Commit(r) ==
    /\ row' = r
    /\ history' = [history EXCEPT !.unseen = @ \/ Visible(r) # Visible(row)]

-----------------------------------------------------------------------------
(* One cycle: the listing.                                                 *)

\* ListSessionsDetailed sees the session.
ListPresent ==
    /\ pc = "idle"
    /\ source.present
    /\ clock' = 3 - clock
    /\ job' = [NoJob EXCEPT !.rev = source.updated, !.complete = TRUE]
    /\ pc' = "watermark"
    /\ UNCHANGED <<source, row, memory, handler, faults, removals, history>>

\* It sees everything, and the session is not there.
ListAbsent ==
    /\ pc = "idle"
    /\ ~source.present
    /\ clock' = 3 - clock
    /\ job' = [NoJob EXCEPT !.complete = TRUE]
    /\ pc' = "tombstone"
    /\ history' = [history EXCEPT !.sawAbsent = TRUE]
    /\ UNCHANGED <<source, row, memory, handler, faults, removals>>

\* It could not read every entry and reports an incomplete inventory: the
\* session may be missing from it although its source is there.
ListIncomplete ==
    /\ pc = "idle"
    /\ "inventory" \in Faults
    /\ faults > 0
    /\ faults' = faults - 1
    /\ clock' = 3 - clock
    /\ job' = NoJob
    /\ pc' = "tombstone"
    /\ UNCHANGED <<source, row, memory, handler, removals, history>>

\* Seeded fault: omission tombstones whatever the inventory says of itself.
TombstoneAlways ==
    /\ pc = "tombstone"
    /\ pc' = "report"
    /\ IF row.indexed
       THEN /\ Commit(MarkedMissing(row, clock))
            /\ job' = [job EXCEPT !.did = TRUE]
       ELSE UNCHANGED <<row, history, job>>
    /\ UNCHANGED <<source, memory, handler, clock, faults, removals>>

\* Seeded fault: every cycle restarts the clock of the tombstone.
TombstoneRestamps ==
    /\ pc = "tombstone"
    /\ pc' = "report"
    /\ IF job.complete /\ row.indexed
       THEN /\ Commit([MarkedMissing(row, clock) EXCEPT !.since = clock])
            /\ job' = [job EXCEPT !.did = TRUE]
       ELSE UNCHANGED <<row, history, job>>
    /\ UNCHANGED <<source, memory, handler, clock, faults, removals>>

\* Seeded fault: the tombstone keeps the watermark.
TombstoneKeepsWatermark ==
    /\ pc = "tombstone"
    /\ pc' = "report"
    /\ IF job.complete /\ row.indexed
       THEN /\ Commit([MarkedMissing(row, clock) EXCEPT !.watermark = row.watermark])
            /\ job' = [job EXCEPT !.did = TRUE]
       ELSE UNCHANGED <<row, history, job>>
    /\ UNCHANGED <<source, memory, handler, clock, faults, removals>>

\* tombstoneMissingSessions for a session that was not listed.
Tombstone ==
    /\ pc = "tombstone"
    /\ pc' = "report"
    /\ IF job.complete /\ row.indexed
       THEN /\ Commit(MarkedMissing(row, clock))
            /\ job' = [job EXCEPT !.did = TRUE]
       ELSE UNCHANGED <<row, history, job>>
    /\ UNCHANGED <<source, memory, handler, clock, faults, removals>>

\* The end of indexOnce: OnChanged when something is said to have changed.
Report ==
    /\ pc = "report"
    /\ pc' = "idle"
    /\ job' = NoJob
    /\ history' = [history EXCEPT !.sawAbsent = FALSE,
                      !.unseen = @ /\ ~job.did,
                      !.idle = job.did /\ ~history.unseen]
    /\ UNCHANGED <<source, row, memory, handler, clock, faults, removals>>

-----------------------------------------------------------------------------
(* indexSession: is the session unchanged?                                 *)

\* collaborationCurrent
GraphCurrent ==
    ~Collaborates \/ (row.graph.rev # None /\ row.graph.rev = job.rev /\ ~row.graph.stale)

Move(next) ==
    /\ pc' = next
    /\ UNCHANGED <<source, row, memory, handler, clock, faults, removals, history>>

\* GetWatermark
CheckWatermark ==
    /\ pc = "watermark"
    /\ Move(IF row.watermark = job.rev THEN "gates" ELSE "probe")
    /\ UNCHANGED job

\* probeSourceStat: no stat when the file is gone.
Probe == IF source.present THEN source.stat ELSE None

\* The capture whose hash matched the stored revision had the same stat.
VerifiedStillCurrent ==
    /\ Probe # None
    /\ memory.verified.stat = Probe
    /\ memory.verified.rev = row.creation.rev

\* The revisions of the derived tables, when the watermark is current.  A reader
\* without an authoritative revision has current creation evidence when it has any.
CheckGates ==
    /\ pc = "gates"
    /\ LET gitOK == row.git \/ memory.attempted
           known == [job EXCEPT !.graphOK = GraphCurrent, !.gitOK = gitOK,
                                !.stored = row.creation.rev]
       IN
       \/ /\ row.creation.rev = None
          /\ Move("probe")
          /\ job' = known
       \/ /\ row.creation.rev # None
          /\ ~Authoritative
          /\ Move(IF GraphCurrent THEN "refresh" ELSE "probe")
          /\ job' = known
       \/ /\ row.creation.rev # None
          /\ Authoritative
          /\ VerifiedStillCurrent
          /\ Move(IF GraphCurrent /\ gitOK THEN "refresh" ELSE "probe")
          /\ job' = known
       \/ /\ row.creation.rev # None
          /\ Authoritative
          /\ ~VerifiedStillCurrent
          /\ Move("verify")
          /\ job' = [known EXCEPT !.probe = Probe]

\* Seeded fault: what was read is taken for what is stored.
VerifyAssumesSame ==
    /\ pc = "verify"
    /\ source.present
    /\ memory' = [memory EXCEPT !.verified = [stat |-> job.probe, rev |-> job.stored]]
    /\ pc' = IF job.graphOK /\ job.gitOK THEN "refresh" ELSE "graph"
    /\ job' = [job EXCEPT !.detail = source.version, !.events = source.version]
    /\ UNCHANGED <<source, row, handler, clock, faults, removals, history>>

\* ReadIndexSnapshotEnvelope to compare the stored revision with the bytes; the
\* envelope serves the rest of the pass when they differ.
Verify ==
    /\ pc = "verify"
    /\ source.present
    /\ LET same == job.stored = source.version IN
       /\ memory' = IF same /\ job.probe # None
                    THEN [memory EXCEPT !.verified = [stat |-> job.probe, rev |-> source.version]]
                    ELSE memory
       /\ pc' = IF same /\ job.graphOK /\ job.gitOK THEN "refresh" ELSE "graph"
       /\ job' = [job EXCEPT !.detail = source.version, !.events = source.version]
    /\ UNCHANGED <<source, row, handler, clock, faults, removals, history>>

\* RefreshSessionListMetadata: project and resume id are not modelled.
Refresh ==
    /\ pc = "refresh"
    /\ Move("report")
    /\ UNCHANGED job

-----------------------------------------------------------------------------
(* indexSession: read.                                                     *)

ProbeSource ==
    /\ pc = "probe"
    /\ Move("read")
    /\ job' = [job EXCEPT !.probe = IF Authoritative THEN Probe ELSE None]

\* An authoritative envelope holds detail and events of one capture; without it
\* GetSession and GetRenderEvents are two reads.
Read ==
    /\ pc = "read"
    /\ source.present
    /\ IF Authoritative
       THEN /\ Move("graph")
            /\ job' = [job EXCEPT !.detail = source.version, !.events = source.version]
       ELSE /\ Move("render")
            /\ job' = [job EXCEPT !.detail = source.version]

ReadRenderEvents ==
    /\ pc = "render"
    /\ source.present
    /\ Move("graph")
    /\ job' = [job EXCEPT !.events = source.version]

\* GetRenderEvents finds no source: an untyped error, nothing is written.
RenderEventsMissing ==
    /\ pc = "render"
    /\ ~source.present
    /\ Move("report")
    /\ UNCHANGED job

\* The read finds no source: SessionReadError of kind source_missing.
ReadMissing ==
    /\ pc \in {"verify", "read"}
    /\ ~source.present
    /\ pc' = "fail_meta"
    /\ job' = [job EXCEPT !.missing = TRUE]
    /\ history' = [history EXCEPT !.sawAbsent = TRUE]
    /\ UNCHANGED <<source, row, memory, handler, clock, faults, removals>>

SpendFault(kind) ==
    /\ kind \in Faults
    /\ faults > 0
    /\ faults' = faults - 1

\* A typed failure of another kind: unreadable, unparsable, unsupported, no body.
ReadFails ==
    /\ pc \in {"verify", "read"}
    /\ source.present
    /\ SpendFault("read")
    /\ pc' = "fail_meta"
    /\ UNCHANGED <<source, row, memory, job, handler, clock, removals, history>>

\* An untyped error of any read or query before the first write of the pass.
PassFails ==
    /\ pc \in {"watermark", "gates", "verify", "read", "render", "refresh"}
    /\ SpendFault("error")
    /\ pc' = "report"
    /\ UNCHANGED <<source, row, memory, job, handler, clock, removals, history>>

-----------------------------------------------------------------------------
(* handleReadFailure: the failure is persisted in separate transactions.   *)

\* UpsertSessionMetaWithHistoryLineageAndProvider
FailMeta ==
    /\ pc = "fail_meta"
    /\ pc' = IF job.missing THEN "fail_missing" ELSE "fail_provenance"
    /\ Commit([row EXCEPT !.indexed = TRUE])
    /\ UNCHANGED <<source, memory, job, handler, clock, faults, removals>>

\* MarkSessionSourceMissingWithFacts: only for a row that still exists.
FailMissing ==
    /\ pc = "fail_missing"
    /\ pc' = "report"
    /\ Commit(IF row.indexed THEN MarkedMissing(row, clock) ELSE row)
    /\ job' = [job EXCEPT !.did = TRUE]
    /\ UNCHANGED <<source, memory, handler, clock, faults, removals>>

\* UpsertProvenance
FailProvenance ==
    /\ pc = "fail_provenance"
    /\ pc' = "fail_search"
    /\ Commit(WithMetadataOnly(row))
    /\ UNCHANGED <<source, memory, job, handler, clock, faults, removals>>

\* ClearSessionSearchIndex
FailSearch ==
    /\ pc = "fail_search"
    /\ pc' = "fail_watermark"
    /\ Commit([row EXCEPT !.turns = None])
    /\ UNCHANGED <<source, memory, job, handler, clock, faults, removals>>

\* ClearSessionWatermark
FailWatermark ==
    /\ pc = "fail_watermark"
    /\ pc' = "report"
    /\ Commit([row EXCEPT !.watermark = None])
    /\ job' = [job EXCEPT !.did = TRUE]
    /\ UNCHANGED <<source, memory, handler, clock, faults, removals>>

\* Each of these transactions may fail and end the pass where it stands.
FailureWriteFails ==
    /\ pc \in {"fail_meta", "fail_missing", "fail_provenance", "fail_search", "fail_watermark"}
    /\ SpendFault("database")
    /\ pc' = "report"
    /\ UNCHANGED <<source, row, memory, job, handler, clock, removals, history>>

-----------------------------------------------------------------------------
(* indexSession: write.                                                    *)

\* indexCollaboration when the graph is current.
SkipGraph ==
    /\ pc = "graph"
    /\ job.graphOK \/ GraphCurrent
    /\ Move("snapshot")
    /\ UNCHANGED job

\* ReadCollaboration, which reads the source again, and ReplaceCollaborationGraph.
WriteGraph ==
    /\ pc = "graph"
    /\ ~job.graphOK /\ ~GraphCurrent
    /\ source.present
    /\ pc' = "snapshot"
    /\ Commit([row EXCEPT !.graph = [rev |-> job.rev, of |-> source.version, stale |-> FALSE]])
    /\ UNCHANGED <<source, memory, job, handler, clock, faults, removals>>

\* Reading, validating or storing the graph fails: markCollaborationStale flags
\* the graph that is retained, if it can, and the pass ends before the snapshot.
GraphFails ==
    /\ pc = "graph"
    /\ ~job.graphOK /\ ~GraphCurrent
    /\ LET flagged == [row EXCEPT !.graph.stale = row.graph.rev # None] IN
       \/ ~source.present /\ UNCHANGED faults /\ row' = flagged
       \/ SpendFault("read") /\ row' = flagged
       \/ SpendFault("database") /\ row' \in {flagged, row}
    /\ pc' = "report"
    /\ UNCHANGED <<source, memory, job, handler, clock, removals, history>>

\* Seeded fault: the watermark is the revision of the source at the write.
WriteSnapshotLateRevision ==
    /\ pc = "snapshot"
    /\ pc' = "creation"
    /\ Commit(WithSnapshot(row, [job EXCEPT !.rev = source.updated]))
    /\ UNCHANGED <<source, memory, job, handler, clock, faults, removals>>

WriteSnapshot ==
    /\ pc = "snapshot"
    /\ pc' = "creation"
    /\ Commit(WithSnapshot(row, job))
    /\ UNCHANGED <<source, memory, job, handler, clock, faults, removals>>

SnapshotFails ==
    /\ pc = "snapshot"
    /\ SpendFault("database")
    /\ pc' = "report"
    /\ UNCHANGED <<source, row, memory, job, handler, clock, removals, history>>

\* creationEvidenceSourceRevision
CreationRevision == IF Authoritative THEN job.events ELSE job.rev

\* Seeded fault: the stat that is remembered is taken after the read.
WriteCreationStatsLate ==
    /\ pc = "creation"
    /\ row.indexed
    /\ row' = [row EXCEPT !.creation = [rev |-> CreationRevision, of |-> job.events]]
    /\ memory' = [memory EXCEPT !.verified = [stat |-> Probe, rev |-> job.events]]
    /\ pc' = IF Authoritative THEN "git" ELSE "report"
    /\ job' = [job EXCEPT !.did = ~Authoritative]
    /\ UNCHANGED <<source, handler, clock, faults, removals, history>>

\* ReplaceSessionChangeRequestCreationEvidence, which needs the sessions row, and
\* the verify cache of an authoritative reader.
WriteCreation ==
    /\ pc = "creation"
    /\ row.indexed
    /\ row' = [row EXCEPT !.creation = [rev |-> CreationRevision, of |-> job.events]]
    /\ memory' = IF Authoritative /\ job.probe # None
                 THEN [memory EXCEPT !.verified = [stat |-> job.probe, rev |-> job.events]]
                 ELSE memory
    /\ pc' = IF Authoritative THEN "git" ELSE "report"
    /\ job' = [job EXCEPT !.did = ~Authoritative]
    /\ UNCHANGED <<source, handler, clock, faults, removals, history>>

CreationFails ==
    /\ pc = "creation"
    /\ (~row.indexed /\ UNCHANGED faults) \/ SpendFault("database")
    /\ pc' = "clear"
    /\ UNCHANGED <<source, row, memory, job, handler, clock, removals, history>>

\* Seeded fault: a failure after the snapshot leaves the watermark.
ClearNothing ==
    /\ pc = "clear"
    /\ Move("report")
    /\ UNCHANGED job

\* ClearSessionWatermark, whose own failure nobody looks at.
ClearWatermark ==
    /\ pc = "clear"
    /\ pc' = "report"
    /\ \/ row' = [row EXCEPT !.watermark = None] /\ UNCHANGED faults
       \/ row' = row /\ SpendFault("database")
    /\ UNCHANGED <<source, memory, job, handler, clock, removals, history>>

\* indexGitEvidence without a repository to capture.
GitUnresolved ==
    /\ pc = "git"
    /\ pc' = "report"
    /\ memory' = [memory EXCEPT !.attempted = TRUE]
    /\ job' = [job EXCEPT !.did = TRUE]
    /\ UNCHANGED <<source, row, handler, clock, faults, removals, history>>

\* indexGitEvidence publishes the binding before it captures.
GitBind ==
    /\ pc = "git"
    /\ row.indexed
    /\ pc' = "git_final"
    /\ row' = [row EXCEPT !.git = TRUE]
    /\ UNCHANGED <<source, memory, job, handler, clock, faults, removals, history>>

\* recheckGitSource finds the bytes the pass began with, and the rest is stored.
GitFinish ==
    /\ pc = "git_final"
    /\ source.present /\ source.version = job.detail
    /\ row.indexed
    /\ pc' = "report"
    /\ memory' = [memory EXCEPT !.attempted = TRUE]
    /\ job' = [job EXCEPT !.did = TRUE]
    /\ UNCHANGED <<source, row, handler, clock, faults, removals, history>>

\* The session has nothing to capture (no baseline and not live, or the capture
\* fails): no recheck either.
GitUncaptured ==
    /\ pc = "git_final"
    /\ row.indexed
    /\ pc' = "report"
    /\ memory' = [memory EXCEPT !.attempted = TRUE]
    /\ job' = [job EXCEPT !.did = TRUE]
    /\ UNCHANGED <<source, row, handler, clock, faults, removals, history>>

GitFails ==
    /\ pc \in {"git", "git_final"}
    /\ \/ ~row.indexed /\ UNCHANGED faults
       \/ pc = "git_final" /\ (~source.present \/ source.version # job.detail) /\ UNCHANGED faults
       \/ SpendFault("database")
    /\ pc' = "clear"
    /\ UNCHANGED <<source, row, memory, job, handler, clock, removals, history>>

-----------------------------------------------------------------------------
(* Around the worker.                                                      *)

\* Seeded fault: a verified stat is trusted for as long as the process runs.
VerifiedForever == FALSE /\ UNCHANGED vars

\* maxVerifiedStatAge has passed.
VerifiedExpires ==
    /\ memory.verified # NoVerified
    /\ memory' = [memory EXCEPT !.verified = NoVerified]
    /\ UNCHANGED <<source, row, pc, job, handler, clock, faults, removals, history>>

Crash ==
    /\ SpendFault("crash")
    /\ pc' = "idle"
    /\ job' = NoJob
    /\ handler' = "idle"
    /\ memory' = Fresh
    /\ history' = [history EXCEPT !.sawAbsent = FALSE, !.unseen = FALSE, !.idle = FALSE]
    /\ UNCHANGED <<source, row, clock, removals>>

\* handleDeleteSession: the reader has found the session and deletes its source.
DeleteSource ==
    /\ handler = "idle"
    /\ "delete" \in Handlers
    /\ source.present
    /\ removals > 0
    /\ removals' = removals - 1
    /\ source' = [source EXCEPT !.present = FALSE]
    /\ handler' = "delete"
    /\ UNCHANGED <<row, memory, pc, job, clock, faults, history>>

\* handleRemoveFromIndex: the row is there and IsSourceMissing.
RemoveChecked ==
    /\ handler = "idle"
    /\ "remove" \in Handlers
    /\ row.indexed
    /\ row.state = "source_missing"
    /\ handler' = "remove"
    /\ UNCHANGED <<source, row, memory, pc, job, clock, faults, removals, history>>

\* DeleteSessionData, one transaction, and NotifySessionsChanged.
DeleteRows ==
    /\ handler # "idle"
    /\ row' = NoRow
    /\ history' = [history EXCEPT
           !.deleted = handler = "delete" /\ ~source.present,
           !.orphaned = FALSE,
           !.wrongly = @ \/ (handler = "remove" /\ row.indexed /\ row.state # "source_missing"),
           !.unseen = FALSE]
    /\ handler' = "idle"
    /\ UNCHANGED <<source, memory, pc, job, clock, faults, removals>>

\* DeleteSessionData fails: logged by the one handler, an error of the other.
DeleteRowsFails ==
    /\ handler # "idle"
    /\ SpendFault("database")
    /\ handler' = "idle"
    /\ history' = [history EXCEPT !.orphaned = handler = "delete" /\ row.indexed /\ ~source.present]
    /\ UNCHANGED <<source, row, memory, pc, job, clock, removals>>

-----------------------------------------------------------------------------

List == ListPresent \/ ListAbsent

Worker ==
    \/ Tombstone \/ Report
    \/ CheckWatermark \/ CheckGates \/ Verify \/ Refresh
    \/ ProbeSource \/ Read \/ ReadRenderEvents \/ RenderEventsMissing \/ ReadMissing
    \/ FailMeta \/ FailMissing \/ FailProvenance \/ FailSearch \/ FailWatermark
    \/ SkipGraph \/ WriteGraph \/ GraphFails
    \/ WriteSnapshot \/ WriteCreation \/ CreationFails \/ ClearWatermark
    \/ GitUnresolved \/ GitBind \/ GitFinish \/ GitUncaptured \/ GitFails

Failure == ReadFails \/ PassFails \/ FailureWriteFails \/ SnapshotFails \/ ListIncomplete

Next ==
    \/ \E kind \in Writes : SourceWrite(kind)
    \/ Vanish \/ Reappear
    \/ List
    \/ Worker
    \/ Failure
    \/ VerifiedExpires
    \/ Crash
    \/ DeleteSource \/ RemoveChecked \/ DeleteRows \/ DeleteRowsFails

(***************************************************************************)
(* Fairness.  RunBackground starts cycles for ever and a worker goroutine  *)
(* runs; a handler that has begun goes on; six hours pass.  Nobody has to  *)
(* write, remove, restore or fail anything.                                *)
(***************************************************************************)
Fairness ==
    /\ WF_vars(List)
    /\ WF_vars(Worker)
    /\ WF_vars(VerifiedExpires)
    /\ WF_vars(DeleteRows)

Spec == Init /\ [][Next]_vars /\ Fairness

-----------------------------------------------------------------------------
(* Properties.                                                             *)

Content == Versions \union {None}

Row ==
    [indexed : BOOLEAN, turns : Content, watermark : Content,
     state : {"none", "complete", "metadata_only", "source_missing"},
     since : Stamps \union {None},
     creation : [rev : Content, of : Content],
     graph : [rev : Content, of : Content, stale : BOOLEAN],
     git : BOOLEAN]

Job ==
    [rev : Content, complete : BOOLEAN, probe : Content, detail : Content,
     events : Content, stored : Content, graphOK : BOOLEAN, gitOK : BOOLEAN,
     missing : BOOLEAN, did : BOOLEAN]

History ==
    [sawAbsent : BOOLEAN, unseen : BOOLEAN, idle : BOOLEAN, deleted : BOOLEAN,
     orphaned : BOOLEAN, wrongly : BOOLEAN]

Steps ==
    {"idle", "tombstone", "report", "watermark", "gates", "verify", "refresh", "probe",
     "read", "render", "fail_meta", "fail_missing", "fail_provenance", "fail_search",
     "fail_watermark", "graph", "snapshot", "creation", "clear", "git", "git_final"}

\* The shape of rows, memory, worker and handlers; a missing-since time is a tombstone's.
TypeOK ==
    /\ source \in Sources
    /\ row \in Row
    /\ row.state = "source_missing" <=> row.since # None
    /\ memory \in [verified : [stat : Content, rev : Content], attempted : BOOLEAN]
    /\ pc \in Steps
    /\ job \in Job
    /\ handler \in {"idle", "delete", "remove"}
    /\ clock \in Stamps
    /\ faults \in 0..MaxFaults
    /\ removals \in 0..MaxRemovals
    /\ history \in History

\* What indexSession leaves alone as unchanged is complete, and every part of
\* it, each committed by a transaction of its own, is at least as new as the
\* revision that was listed: a pass that failed half way is never skipped.  An
\* authoritative reader's parts also stem from one and the same capture.
\* (A handler may have deleted the row since; then there is nothing to refresh.)
SkipSound ==
    pc = "refresh" /\ row.indexed =>
        /\ row.state = "complete"
        /\ row.turns >= job.rev
        /\ row.creation.of >= job.rev
        /\ Authoritative => row.creation.of = row.turns
        /\ Collaborates => row.graph.of >= job.rev /\ ~row.graph.stale

\* The watermark never claims a revision newer than the turns in the index,
\* however the source moves between the listing, the reads and the commit.
WatermarkHonest ==
    row.watermark # None /\ row.turns # None => row.turns >= row.watermark

\* The comment on sourceVerifyStats: size and modification time that equal those
\* of a verified capture stand for the very bytes that were hashed, unless the
\* latest write was stealthy, to which the age cap is the answer: see Converges.
VerifiedHonest ==
    /\ source.present
    /\ source.stat = source.version
    /\ memory.verified.stat = source.stat
    => memory.verified.rev = source.version

\* A tombstone keeps the time at which the source went missing until the
\* session is read again or its rows are deleted.
TombstoneKept ==
    [][row.since # None /\ row'.since # None => row'.since = row.since]_vars

\* Nothing is declared missing unless this very cycle saw no source for it: an
\* incomplete inventory or a failed read is not enough.
NoFalseTombstone ==
    [][row'.state = "source_missing" /\ row.state # "source_missing"
         => history.sawAbsent]_vars

Mirrored ==
    /\ row.indexed
    /\ row.state = "complete"
    /\ row.turns = source.version
    /\ row.creation.of = source.version
    /\ Collaborates => row.graph.of = source.version /\ ~row.graph.stale

\* Once the source is left in peace the index mirrors it and keeps doing so:
\* every table when the source is there, a tombstone when it is gone, whatever
\* was read, failed or was lost on the way.
Converges ==
    <>[](IF source.present THEN Mirrored ELSE row.indexed => row.state = "source_missing")

\* The comment on DeleteSessionData: it runs after the source was deleted "so a
\* stale row can't resurrect it".  Rows deleted with their source stay deleted.
DeletedStaysDeleted == history.deleted => ~row.indexed

\* The comment in handleDeleteSession on a failed DeleteSessionData: "the index
\* row will also be swept as an orphan on the next index round".
OrphanSwept == history.orphaned ~> (~row.indexed \/ source.present)

\* The comment on ClearSessionSearchIndex: it runs "so search cannot surface
\* unmarked historical hits after a metadata-only failure".  The turns of a
\* metadata-only row go away sooner or later, or the row is read again.
FailureLeavesNoHits ==
    row.state = "metadata_only" /\ row.turns # None
        ~> row.state # "metadata_only" \/ row.turns = None

\* The comment on OnChanged: it is called after a cycle that really changed
\* something.  A change of the row is announced by the cycle that made it ...
ChangesAnnounced == pc = "idle" => ~history.unseen

\* ... and a cycle that changed nothing is not announced.
OnlyChangesAnnounced == ~history.idle

\* The endpoint's own words: "only source_missing records can be removed from
\* the index via this endpoint".
OnlyMissingRemoved == ~history.wrongly

=============================================================================
