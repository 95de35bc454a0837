---------------------------- MODULE GitEvidence ----------------------------
(***************************************************************************)
(* The indexing pass that derives a session's Git evidence                 *)
(* (internal/indexer/git_evidence.go) against everything that changes the  *)
(* same rows meanwhile: users binding and unbinding Change Requests and    *)
(* provider responses (module ChangeRequests), the transcript growing, and *)
(* the process being killed.                                               *)
(*                                                                         *)
(* A pass reads the stored evidence, works on its copy and writes it back  *)
(* up to three times; each write is one transaction, the pass is not.      *)
(* File lists are abstracted to the transcript revision they were derived  *)
(* for.  That revision is also what makes the stored source revision and   *)
(* the captured snapshots current.                                         *)
(***************************************************************************)
EXTENDS ChangeRequests

CONSTANTS MaxSource,   \* bound on transcript revisions
          MaxCrashes   \* bound on process restarts

ASSUME EvidenceAssumption == MaxSource \in Nat \ {0} /\ MaxCrashes \in Nat

VARIABLES
    source,     \* per binding: the transcript revision on disk
    life,       \* and whether the session is live or finalized at it
    watermark,  \* the revision the session index stands at, 0 after a failure
    baseline,   \* the immutable baseline snapshot exists
    finalSnap,  \* source revision of the latest final snapshot, 0 for none
    row,        \* session_git_evidence without its authority columns
    blobs,      \* revision of the retained local patches, 0 for none
    pass,       \* the indexing pass of the binding
    crashes

passVars == <<source, life, watermark, baseline, finalSnap, row, blobs, pass, crashes>>
evidenceVars == <<changeVars, passVars>>

Row == [files : 0 .. MaxSource, exact : BOOLEAN, origin : 0 .. MaxSource,
        final : 0 .. MaxSource]
Copy == [auth : Authority, files : 0 .. MaxSource, exact : BOOLEAN,
         final : 0 .. MaxSource]

Pass == [pc : {"idle", "links", "publish", "capture", "finish", "derive", "patches", "exact"},
         src : 0 .. MaxSource, life : {"live", "final"}, copy : Copy,
         seen : [Links -> LinkRecord \cup {NoLink}]]

NothingRead == [auth |-> NoAuthority, files |-> 0, exact |-> FALSE, final |-> 0]
IdlePass == [pc |-> "idle", src |-> 0, life |-> "live", copy |-> NothingRead,
             seen |-> [l \in Links |-> NoLink]]

Running(b) == pass[b].pc # "idle"
HostedCopy(b) == pass[b].copy.auth.kind = "hosted"

\* The shape of the state.
EvidenceTypeOK ==
    /\ ChangeTypeOK
    /\ source \in [Bindings -> 1 .. MaxSource]
    /\ life \in [Bindings -> {"live", "final"}]
    /\ watermark \in [Bindings -> 0 .. MaxSource]
    /\ baseline \in [Bindings -> BOOLEAN]
    /\ finalSnap \in [Bindings -> 0 .. MaxSource]
    /\ row \in [Bindings -> Row]
    /\ blobs \in [Bindings -> 0 .. MaxSource]
    /\ crashes \in 0 .. MaxCrashes
    /\ pass \in [Bindings -> Pass]

EvidenceInit ==
    /\ ChangeInit
    /\ source = [b \in Bindings |-> 1]
    /\ life \in [Bindings -> {"live", "final"}]
    /\ watermark = [b \in Bindings |-> 0]
    /\ baseline = [b \in Bindings |-> FALSE]
    /\ finalSnap = [b \in Bindings |-> 0]
    /\ row = [b \in Bindings |-> [files |-> 0, exact |-> FALSE, origin |-> 0, final |-> 0]]
    /\ blobs = [b \in Bindings |-> 0]
    /\ pass = [b \in Bindings |-> IdlePass]
    /\ crashes = 0

\* The agent appends to its transcript; an appended event may finalize it.
AppendSource(b) ==
    /\ source[b] < MaxSource
    /\ source' = [source EXCEPT ![b] = @ + 1]
    /\ life' \in {[life EXCEPT ![b] = state] : state \in {"live", "final"}}
    /\ UNCHANGED <<changeVars, watermark, baseline, finalSnap, row, blobs, pass, crashes>>

-----------------------------------------------------------------------------
(* The pass.                                                               *)

EvidenceDue(b) == watermark[b] # source[b] \/ authority[b].kind = "absent"

\* Seeded fault: the files of an older revision are kept.
StartingCopyOfAnyRevision(b) ==
    IF authority[b].kind = "absent" THEN NothingRead
    ELSE [auth |-> authority[b], files |-> row[b].files, exact |-> row[b].exact,
          final |-> row[b].final]

\* What the pass starts from: nothing, the stored entry, or - unless a hosted
\* change owns the file set - the entry without the files of an older revision.
StartingCopy(b) ==
    LET stored == [auth |-> authority[b], files |-> row[b].files,
                   exact |-> row[b].exact, final |-> row[b].final]
    IN CASE authority[b].kind = "absent" -> NothingRead
         [] authority[b].kind # "absent" /\ \/ authority[b].kind = "hosted"
                                            \/ row[b].origin = source[b] -> stored
         [] OTHER -> NothingRead

\* The session's snapshot and watermark are committed, then the stored
\* evidence row is read ...
BeginPass(b) ==
    /\ ~Running(b)
    /\ EvidenceDue(b)
    /\ watermark' = [watermark EXCEPT ![b] = source[b]]
    /\ pass' = [pass EXCEPT ![b] = [IdlePass EXCEPT !.pc = "links", !.src = source[b],
                                                    !.life = life[b], !.copy = StartingCopy(b)]]
    /\ UNCHANGED <<changeVars, source, life, baseline, finalSnap, row, blobs, crashes>>

\* A worktree that is gone leaves the stored evidence alone.
SkipPass(b) ==
    /\ ~Running(b)
    /\ EvidenceDue(b)
    /\ watermark' = [watermark EXCEPT ![b] = source[b]]
    /\ UNCHANGED <<changeVars, source, life, baseline, finalSnap, row, blobs, pass, crashes>>

\* ... and in a statement of its own the links; a selection that they do not
\* support is invalid and fails the pass.
SelectionValid(a, b) ==
    a.kind = "hosted" =>
        /\ IsLink(links[a.link]) /\ links[a.link].binding = b
        /\ links[a.link].exclusive /\ links[a.link].exact
        /\ links[a.link].version = a.version

ReadLinks(b) ==
    /\ pass[b].pc = "links"
    /\ SelectionValid(pass[b].copy.auth, b)
    /\ pass' = [pass EXCEPT ![b].pc = "publish",
                            ![b].seen = [l \in Links |-> IF IsLink(links[l]) /\ links[l].binding = b
                                                         THEN links[l] ELSE NoLink]]
    /\ UNCHANGED <<changeVars, source, life, watermark, baseline, finalSnap, row, blobs, crashes>>

\* Seeded fault: the links are not compared inside the transaction.
LinksAssumedUnchanged(b) == TRUE

\* ReplaceSessionGitEvidence refuses links that changed since they were read
\* and a selection whose confirmation is not current.
LinksUnchanged(b) ==
    \A l \in Links : IsLink(pass[b].seen[l]) => links[l] = pass[b].seen[l]

ConfirmationCurrent(a, b) ==
    a.kind = "hosted" => /\ IsLink(links[a.link])
                         /\ links[a.link].revision = collab[b]
                         /\ cache[a.version] = "current"

Publish(b, c) ==
    /\ LinksUnchanged(b)
    /\ ConfirmationCurrent(c.auth, b)
    /\ authority' = [authority EXCEPT ![b] = c.auth]
    /\ row' = [row EXCEPT ![b] = [files |-> c.files, exact |-> c.exact,
                                  origin |-> pass[b].src, final |-> c.final]]
    /\ UNCHANGED <<hostVars, clock, syncs, cacheVars, links, collab, binding>>

Unselected(a, kind) == [NoAuthority EXCEPT !.kind = kind, !.stale = a.stale]
WithoutFiles(c) ==
    [auth |-> Unselected(c.auth, "none"), files |-> 0, exact |-> FALSE, final |-> c.final]

\* What follows the first publication when the session is live or final beyond
\* doubt: a capture, the derivation from a final snapshot of this revision that
\* already exists, or the end.
AfterPublish(b) ==
    CASE pass[b].life = "live" -> "capture"
      [] pass[b].life = "final" /\ ~baseline[b] -> "finish"
      [] pass[b].life = "final" /\ baseline[b] /\ finalSnap[b] = pass[b].src -> "derive"
      [] OTHER -> "capture"

\* A selection whose confirmation ran out is dropped and the rest published.
\* With unchanged links that takes an exact link without a current version or
\* graph, which ConfirmedLinksCurrent excludes.
BindingCopy(b) ==
    IF ConfirmationCurrent(pass[b].copy.auth, b) THEN pass[b].copy
                                                 ELSE WithoutFiles(pass[b].copy)

\* A session in doubt is not captured.
PublishBinding(b) ==
    /\ pass[b].pc = "publish"
    /\ Publish(b, BindingCopy(b))
    /\ \E next \in {AfterPublish(b), "finish"} :
        pass' = [pass EXCEPT ![b].pc = next, ![b].copy = BindingCopy(b)]
    /\ UNCHANGED <<source, life, watermark, baseline, finalSnap, blobs, crashes>>

\* The source is read again after the capture: a snapshot of a worktree whose
\* transcript moved on is not stored.
Capture(b) ==
    /\ pass[b].pc = "capture"
    /\ source[b] = pass[b].src
    /\ IF pass[b].life = "live"
       THEN /\ baseline' = [baseline EXCEPT ![b] = TRUE]
            /\ pass' = [pass EXCEPT ![b].pc = "finish"]
            /\ UNCHANGED finalSnap
       ELSE /\ finalSnap' = [finalSnap EXCEPT ![b] = pass[b].src]
            /\ pass' = [pass EXCEPT ![b].pc = "derive"]
            /\ UNCHANGED baseline
    /\ UNCHANGED <<changeVars, source, life, watermark, row, blobs, crashes>>

EndPass(b) == pass' = [pass EXCEPT ![b] = IdlePass]

\* A failed capture still publishes, with the copy's files.
CaptureFails(b) ==
    /\ pass[b].pc = "capture"
    /\ Publish(b, IF HostedCopy(b) THEN pass[b].copy
                  ELSE [pass[b].copy EXCEPT !.auth = Unselected(@, "none")])
    /\ EndPass(b)
    /\ UNCHANGED <<source, life, watermark, baseline, finalSnap, blobs, crashes>>

\* Live sessions, sessions without a baseline and those in doubt have no file list.
PublishWithoutFiles(b) ==
    /\ pass[b].pc = "finish"
    /\ Publish(b, IF HostedCopy(b) THEN pass[b].copy ELSE WithoutFiles(pass[b].copy))
    /\ EndPass(b)
    /\ UNCHANGED <<source, life, watermark, baseline, finalSnap, blobs, crashes>>

\* deriveLocalGitEvidence.  A hosted change keeps the file set it owns; only
\* the final snapshot is noted.
PublishUnderHosted(b) ==
    /\ pass[b].pc = "derive"
    /\ HostedCopy(b)
    /\ Publish(b, [pass[b].copy EXCEPT !.final = pass[b].src])
    /\ EndPass(b)
    /\ UNCHANGED <<source, life, watermark, baseline, finalSnap, blobs, crashes>>

\* Seeded fault: the first publication does not gate the patches.
LocalCopyUngated(b) ==
    [auth |-> Unselected(pass[b].copy.auth, "local"), files |-> pass[b].src,
     exact |-> TRUE, final |-> pass[b].src]

\* Otherwise the new files are published with their patches gated ...
LocalCopy(b) ==
    [auth |-> Unselected(pass[b].copy.auth, "local"), files |-> pass[b].src,
     exact |-> FALSE, final |-> pass[b].src]

PublishStaged(b) ==
    /\ pass[b].pc = "derive"
    /\ ~HostedCopy(b)
    /\ Publish(b, LocalCopy(b))
    /\ pass' = [pass EXCEPT ![b].pc = "patches", ![b].copy = LocalCopy(b)]
    /\ UNCHANGED <<source, life, watermark, baseline, finalSnap, blobs, crashes>>

\* ... then their content replaces the older patches ...
PutPatches(b) ==
    /\ pass[b].pc = "patches"
    /\ blobs' = [blobs EXCEPT ![b] = pass[b].src]
    /\ pass' = [pass EXCEPT ![b].pc = "exact"]
    /\ UNCHANGED <<changeVars, source, life, watermark, baseline, finalSnap, row, crashes>>

\* ... and only then do they become visible.
PublishExact(b) ==
    /\ pass[b].pc = "exact"
    /\ Publish(b, [pass[b].copy EXCEPT !.exact = TRUE])
    /\ EndPass(b)
    /\ UNCHANGED <<source, life, watermark, baseline, finalSnap, blobs, crashes>>

\* An error of any step ends the pass and clears the watermark, so that a later
\* cycle runs it again.
PassFails(b) ==
    /\ Running(b)
    /\ EndPass(b)
    /\ watermark' = [watermark EXCEPT ![b] = 0]
    /\ UNCHANGED <<changeVars, source, life, baseline, finalSnap, row, blobs, crashes>>

\* The process is killed: whatever was in flight is gone, the database stays.
Crash ==
    /\ crashes < MaxCrashes
    /\ crashes' = crashes + 1
    /\ syncs' = {}
    /\ binding' = [b \in Bindings |-> 0]
    /\ pass' = [b \in Bindings |-> IdlePass]
    /\ UNCHANGED <<hostVars, clock, cacheVars, links, collab, authority,
                   source, life, watermark, baseline, finalSnap, row, blobs>>

\* The collaboration graph of a session is replaced by the same indexing that
\* runs its pass, before the pass begins.
Index(b) ==
    \/ ~Running(b) /\ ReplaceGraph(b) /\ UNCHANGED passVars
    \/ BeginPass(b) \/ SkipPass(b) \/ ReadLinks(b) \/ PublishBinding(b)
    \/ Capture(b) \/ CaptureFails(b) \/ PublishWithoutFiles(b)
    \/ PublishUnderHosted(b) \/ PublishStaged(b) \/ PutPatches(b) \/ PublishExact(b)
    \/ PassFails(b)

\* What the server's handlers start: synchronisations of the current version.
Refresh ==
    \/ Push
    \/ StartSync(None)
    \/ \E s \in syncs : FetchSnapshot(s) \/ SyncFails(s) \/ StoreSnapshot(s)

EvidenceNext ==
    \/ Refresh /\ UNCHANGED passVars
    \/ Associate /\ UNCHANGED passVars
    \/ \E b \in Bindings : AppendSource(b) \/ Index(b)
    \/ Crash

EvidenceSpec == EvidenceInit /\ [][EvidenceNext]_evidenceVars

-----------------------------------------------------------------------------
(* Properties.                                                             *)

\* A patch that is served is the patch of the file list it is served with, at
\* whatever point a pass failed or the process died ("Blob replacement then
\* cannot expose either an old or a half-published patch").
PatchesBelongToFiles ==
    \A b \in Bindings : row[b].exact => blobs[b] = row[b].files

\* A local file list is that of the source revision it is published under and
\* of the final snapshot it names.
LocalFilesAreOfTheirRevision ==
    \A b \in Bindings : authority[b].kind = "local" =>
        row[b].files = row[b].origin /\ row[b].final = row[b].origin

\* "a user-selected fixed hosted change owns the public file set until
\* explicitly changed" (git_evidence.go): a pass never takes the authority away
\* from a confirmation that still counts.
ConfirmationSurvivesPass ==
    [][\A b \in Bindings :
          (authority[b].kind = "hosted" /\ authority'[b].kind # "hosted") =>
              LET l == authority[b].link
              IN ~(IsLink(links'[l]) /\ links'[l].exclusive /\ links'[l].exact)]_evidenceVars

\* "never serve the old file set under the new revision" (git_evidence.go).
NoOldFilesUnderNewRevision ==
    \A b \in Bindings : authority[b].kind \in {"none", "local"} /\ row[b].files # 0
                            => row[b].files = row[b].origin

=============================================================================
