-------------------------- MODULE GitEvidenceProofs --------------------------
(* Theorems about GitEvidence for every number of bindings, links, transcript  *)
(* revisions, synchronisations and crashes. A step of the handlers is a step   *)
(* of ChangeRequests and is taken from ChangeRequestsProofs.                   *)
EXTENDS GitEvidence, ChangeRequestsProofs

-----------------------------------------------------------------------------
(* Types.                                                                  *)

\* What a pass begins with.
LEMMA IdlePassOK == IdlePass \in Pass /\ NothingRead \in Copy
<1>1. NothingRead \in Copy
  BY DemotedOK, EvidenceAssumption DEF NothingRead, Copy
<1> QED
  BY <1>1, EvidenceAssumption DEF IdlePass, Pass

\* Initially every variable has its type.
LEMMA EvidenceInitTypeOK == EvidenceInit => EvidenceTypeOK
<1> SUFFICES ASSUME EvidenceInit
             PROVE  EvidenceTypeOK
  OBVIOUS
<1>1. ChangeTypeOK
  BY ChangeInitTypeOK DEF EvidenceInit
<1>2. row \in [Bindings -> Row]
  BY EvidenceAssumption DEF EvidenceInit, Row
<1>3. pass \in [Bindings -> Pass]
  BY IdlePassOK DEF EvidenceInit
<1> QED
  BY <1>1, <1>2, <1>3, EvidenceAssumption DEF EvidenceInit, EvidenceTypeOK

\* The copies a pass publishes are copies.
LEMMA UnselectedOK ==
    ASSUME NEW a \in Authority, NEW kind \in {"none", "local"}
    PROVE  Unselected(a, kind) \in Authority /\ Unselected(a, kind).kind = kind
BY DEF Unselected, NoAuthority, Authority

\* A row whose file list was taken away is a row.
LEMMA WithoutFilesOK ==
    ASSUME NEW c \in Copy
    PROVE  /\ WithoutFiles(c) \in Copy
           /\ WithoutFiles(c).auth.kind = "none" /\ ~WithoutFiles(c).exact
<1>1. Unselected(c.auth, "none") \in Authority /\ Unselected(c.auth, "none").kind = "none"
  BY UnselectedOK DEF Copy
<1> QED
  BY <1>1, EvidenceAssumption DEF WithoutFiles, Copy

\* The copy a pass starts from is a row.
LEMMA StartingCopyOK ==
    ASSUME EvidenceTypeOK, NEW b \in Bindings
    PROVE  StartingCopy(b) \in Copy
<1>1. authority[b] \in Authority /\ row[b] \in Row
  BY DEF EvidenceTypeOK, ChangeTypeOK
<1>2. [auth |-> authority[b], files |-> row[b].files, exact |-> row[b].exact,
       final |-> row[b].final] \in Copy
  BY <1>1 DEF Copy, Row
<1> QED
  BY <1>2, IdlePassOK DEF StartingCopy

\* The copy a pass makes for locally derived files is a row.
LEMMA LocalCopyOK ==
    ASSUME EvidenceTypeOK, NEW b \in Bindings
    PROVE  LocalCopy(b) \in Copy /\ LocalCopy(b).auth.kind = "local"
<1>1. pass[b].copy.auth \in Authority /\ pass[b].src \in 0 .. MaxSource
  BY DEF EvidenceTypeOK, Pass, Copy
<1>2. Unselected(pass[b].copy.auth, "local") \in Authority
      /\ Unselected(pass[b].copy.auth, "local").kind = "local"
  BY <1>1, UnselectedOK
<1> QED
  BY <1>1, <1>2 DEF LocalCopy, Copy

\* The copy a pass makes for a confirmed link is a row.
LEMMA BindingCopyOK ==
    ASSUME EvidenceTypeOK, NEW b \in Bindings
    PROVE  BindingCopy(b) \in Copy
<1>1. pass[b].copy \in Copy
  BY DEF EvidenceTypeOK, Pass
<1> QED
  BY <1>1, WithoutFilesOK DEF BindingCopy

\* A publication replaces one row and its authority, and nothing else of the store.
LEMMA PublishTypeOK ==
    ASSUME EvidenceTypeOK, NEW b \in Bindings, NEW c \in Copy, Publish(b, c)
    PROVE  /\ ChangeTypeOK'
           /\ row' \in [Bindings -> Row]
<1>1. authority' \in [Bindings -> Authority]
  BY DEF Publish, EvidenceTypeOK, ChangeTypeOK, Copy
<1>2. row' \in [Bindings -> Row]
  <2>1. [files |-> c.files, exact |-> c.exact, origin |-> pass[b].src, final |-> c.final] \in Row
    BY DEF EvidenceTypeOK, Pass, Copy, Row
  <2> QED
    BY <2>1 DEF Publish, EvidenceTypeOK
<1> QED
  BY <1>1, <1>2 DEF Publish, hostVars, cacheVars, EvidenceTypeOK, ChangeTypeOK

\* A pass that ends leaves every type intact.
LEMMA EndPassOK ==
    ASSUME EvidenceTypeOK, NEW b \in Bindings, EndPass(b)
    PROVE  pass' \in [Bindings -> Pass]
BY IdlePassOK DEF EndPass, EvidenceTypeOK

\* The indexer's steps.
LEMMA IndexTypeOK ==
    ASSUME EvidenceTypeOK, NEW b \in Bindings, Index(b)
    PROVE  EvidenceTypeOK'
<1>1. pass[b] \in Pass /\ pass[b].copy \in Copy /\ pass[b].src \in 0 .. MaxSource
  BY DEF EvidenceTypeOK, Pass
<1>2. CASE ReplaceGraph(b) /\ UNCHANGED passVars
  <2>1. ChangeTypeOK'
    BY <1>2, ChangeNextTypeOK DEF EvidenceTypeOK, ChangeNext
  <2> QED
    BY <1>2, <2>1 DEF passVars, EvidenceTypeOK
<1>3. CASE BeginPass(b)
  <2>1. source[b] \in 0 .. MaxSource /\ life[b] \in {"live", "final"}
    BY DEF EvidenceTypeOK
  <2>2. [IdlePass EXCEPT !.pc = "links", !.src = source[b], !.life = life[b],
                         !.copy = StartingCopy(b)] \in Pass
    BY <2>1, IdlePassOK, StartingCopyOK DEF Pass
  <2>3. pass' \in [Bindings -> Pass]
    BY <1>3, <2>2 DEF BeginPass, EvidenceTypeOK
  <2>4. watermark' \in [Bindings -> 0 .. MaxSource]
    BY <1>3, <2>1 DEF BeginPass, EvidenceTypeOK
  <2> QED
    BY <1>3, <2>3, <2>4 DEF BeginPass, EvidenceTypeOK, changeVars, ChangeTypeOK
<1>4. CASE SkipPass(b)
  <2>1. watermark' \in [Bindings -> 0 .. MaxSource]
    BY <1>4 DEF SkipPass, EvidenceTypeOK
  <2> QED
    BY <1>4, <2>1 DEF SkipPass, EvidenceTypeOK, changeVars, ChangeTypeOK
<1>5. CASE ReadLinks(b)
  <2> DEFINE seen == [l \in Links |-> IF IsLink(links[l]) /\ links[l].binding = b
                                      THEN links[l] ELSE NoLink]
  <2>1. seen \in [Links -> LinkRecord \cup {NoLink}]
    BY LinkIsRecord DEF EvidenceTypeOK
  <2>2. pass' = [pass EXCEPT ![b] = [pass[b] EXCEPT !.pc = "publish", !.seen = seen]]
    BY <1>5 DEF ReadLinks, EvidenceTypeOK
  <2> HIDE DEF seen
  <2>3. [pass[b] EXCEPT !.pc = "publish", !.seen = seen] \in Pass
    BY <1>1, <2>1 DEF Pass
  <2>4. pass' \in [Bindings -> Pass]
    BY <2>2, <2>3 DEF EvidenceTypeOK
  <2> QED
    BY <1>5, <2>4 DEF ReadLinks, EvidenceTypeOK, changeVars, ChangeTypeOK
<1>6. CASE PublishBinding(b)
  <2>0. PICK next \in {AfterPublish(b), "finish"} :
            pass' = [pass EXCEPT ![b].pc = next, ![b].copy = BindingCopy(b)]
    BY <1>6 DEF PublishBinding
  <2>1. next \in {"capture", "finish", "derive"}
    BY <2>0 DEF AfterPublish
  <2>2. [pass[b] EXCEPT !.pc = next, !.copy = BindingCopy(b)] \in Pass
    BY <1>1, <2>1, BindingCopyOK DEF Pass
  <2>3. pass' \in [Bindings -> Pass]
    BY <2>0, <2>2 DEF EvidenceTypeOK
  <2>4. ChangeTypeOK' /\ row' \in [Bindings -> Row]
    BY <1>6, BindingCopyOK, PublishTypeOK DEF PublishBinding
  <2> QED
    BY <1>6, <2>3, <2>4 DEF PublishBinding, EvidenceTypeOK
<1>7. CASE Capture(b)
  <2>1. /\ [pass[b] EXCEPT !.pc = "finish"] \in Pass
        /\ [pass[b] EXCEPT !.pc = "derive"] \in Pass
    BY <1>1 DEF Pass
  <2>2. pass' \in [Bindings -> Pass]
    BY <1>7, <2>1 DEF Capture, EvidenceTypeOK
  <2>3. baseline' \in [Bindings -> BOOLEAN] /\ finalSnap' \in [Bindings -> 0 .. MaxSource]
    BY <1>1, <1>7 DEF Capture, EvidenceTypeOK
  <2> QED
    BY <1>7, <2>2, <2>3 DEF Capture, EvidenceTypeOK, changeVars, ChangeTypeOK
<1>8. CASE CaptureFails(b)
  <2> DEFINE c == IF HostedCopy(b) THEN pass[b].copy
                  ELSE [pass[b].copy EXCEPT !.auth = Unselected(@, "none")]
  <2>1. Unselected(pass[b].copy.auth, "none") \in Authority
    BY <1>1, UnselectedOK DEF Copy
  <2>2. c \in Copy
    BY <1>1, <2>1 DEF Copy
  <2>3. ChangeTypeOK' /\ row' \in [Bindings -> Row]
    BY <1>8, <2>2, PublishTypeOK DEF CaptureFails
  <2> QED
    BY <1>8, <2>3, EndPassOK DEF CaptureFails, EvidenceTypeOK
<1>9. CASE PublishWithoutFiles(b)
  <2>1. ChangeTypeOK' /\ row' \in [Bindings -> Row]
    BY <1>1, <1>9, WithoutFilesOK, PublishTypeOK DEF PublishWithoutFiles
  <2> QED
    BY <1>9, <2>1, EndPassOK DEF PublishWithoutFiles, EvidenceTypeOK
<1>10. CASE PublishUnderHosted(b)
  <2>1. [pass[b].copy EXCEPT !.final = pass[b].src] \in Copy
    BY <1>1 DEF Copy
  <2>2. ChangeTypeOK' /\ row' \in [Bindings -> Row]
    BY <1>10, <2>1, PublishTypeOK DEF PublishUnderHosted
  <2> QED
    BY <1>10, <2>2, EndPassOK DEF PublishUnderHosted, EvidenceTypeOK
<1>11. CASE PublishStaged(b)
  <2>1. [pass[b] EXCEPT !.pc = "patches", !.copy = LocalCopy(b)] \in Pass
    BY <1>1, LocalCopyOK DEF Pass
  <2>2. pass' \in [Bindings -> Pass]
    BY <1>11, <2>1 DEF PublishStaged, EvidenceTypeOK
  <2>3. ChangeTypeOK' /\ row' \in [Bindings -> Row]
    BY <1>11, LocalCopyOK, PublishTypeOK DEF PublishStaged
  <2> QED
    BY <1>11, <2>2, <2>3 DEF PublishStaged, EvidenceTypeOK
<1>12. CASE PutPatches(b)
  <2>1. [pass[b] EXCEPT !.pc = "exact"] \in Pass
    BY <1>1 DEF Pass
  <2>2. pass' \in [Bindings -> Pass] /\ blobs' \in [Bindings -> 0 .. MaxSource]
    BY <1>1, <1>12, <2>1 DEF PutPatches, EvidenceTypeOK
  <2> QED
    BY <1>12, <2>2 DEF PutPatches, EvidenceTypeOK, changeVars, ChangeTypeOK
<1>13. CASE PublishExact(b)
  <2>1. [pass[b].copy EXCEPT !.exact = TRUE] \in Copy
    BY <1>1 DEF Copy
  <2>2. ChangeTypeOK' /\ row' \in [Bindings -> Row]
    BY <1>13, <2>1, PublishTypeOK DEF PublishExact
  <2> QED
    BY <1>13, <2>2, EndPassOK DEF PublishExact, EvidenceTypeOK
<1>14. CASE PassFails(b)
  <2>1. watermark' \in [Bindings -> 0 .. MaxSource]
    BY <1>14, EvidenceAssumption DEF PassFails, EvidenceTypeOK
  <2> QED
    BY <1>14, <2>1, EndPassOK DEF PassFails, EvidenceTypeOK, changeVars, ChangeTypeOK
<1> QED
  BY <1>2, <1>3, <1>4, <1>5, <1>6, <1>7, <1>8, <1>9, <1>10, <1>11, <1>12, <1>13, <1>14
     DEF Index

\* Handlers move what ChangeRequests models and nothing of the pass.
LEMMA HandlersAreChanges ==
    ASSUME \/ Refresh /\ UNCHANGED passVars
           \/ Associate /\ UNCHANGED passVars
    PROVE  ChangeNext /\ UNCHANGED passVars
BY DEF Refresh, Associate, ChangeNext, Synchronise

\* Every step keeps the types.
LEMMA EvidenceNextTypeOK == EvidenceTypeOK /\ [EvidenceNext]_evidenceVars => EvidenceTypeOK'
<1> SUFFICES ASSUME EvidenceTypeOK, [EvidenceNext]_evidenceVars
             PROVE  EvidenceTypeOK'
  OBVIOUS
<1>1. CASE ChangeNext /\ UNCHANGED passVars
  <2>1. ChangeTypeOK'
    BY <1>1, ChangeNextTypeOK DEF EvidenceTypeOK
  <2> QED
    BY <1>1, <2>1 DEF passVars, EvidenceTypeOK
<1>2. ASSUME NEW b \in Bindings, AppendSource(b)
      PROVE  EvidenceTypeOK'
  <2>1. source' \in [Bindings -> 1 .. MaxSource]
    BY <1>2, EvidenceAssumption DEF AppendSource, EvidenceTypeOK
  <2>2. life' \in [Bindings -> {"live", "final"}]
    BY <1>2 DEF AppendSource, EvidenceTypeOK
  <2> QED
    BY <1>2, <2>1, <2>2 DEF AppendSource, EvidenceTypeOK, changeVars, ChangeTypeOK
<1>3. ASSUME NEW b \in Bindings, Index(b)
      PROVE  EvidenceTypeOK'
  BY <1>3, IndexTypeOK
<1>4. CASE Crash
  <2>1. crashes' \in 0 .. MaxCrashes
    BY <1>4, EvidenceAssumption DEF Crash, EvidenceTypeOK
  <2>2. pass' \in [Bindings -> Pass]
    BY <1>4, IdlePassOK DEF Crash
  <2>3. ChangeTypeOK'
    BY <1>4, ChangeAssumption DEF Crash, hostVars, cacheVars, EvidenceTypeOK, ChangeTypeOK
  <2> QED
    BY <1>4, <2>1, <2>2, <2>3 DEF Crash, EvidenceTypeOK
<1>5. CASE UNCHANGED evidenceVars
  BY <1>5 DEF evidenceVars, changeVars, passVars, EvidenceTypeOK, ChangeTypeOK
<1> QED
  BY <1>1, <1>2, <1>3, <1>4, <1>5, HandlersAreChanges DEF EvidenceNext

\* The rows, the patches and the passes always have their types.
THEOREM EvidenceTypeCorrect == EvidenceSpec => []EvidenceTypeOK
<1> QED
  BY EvidenceInitTypeOK, EvidenceNextTypeOK, PTL DEF EvidenceSpec

-----------------------------------------------------------------------------
(* The invariant: what a pass holds in its copy agrees with what the rows  *)
(* and the patches say, at every point where the pass may be stopped.      *)

\* The links the copy was read with support its selection.
SelectionSeen(b) ==
    HostedCopy(b) =>
        LET a == pass[b].copy.auth IN
        /\ a.link \in Links
        /\ pass[b].pc # "links" =>
              /\ IsLink(pass[b].seen[a.link])
              /\ pass[b].seen[a.link].binding = b
              /\ pass[b].seen[a.link].exclusive /\ pass[b].seen[a.link].exact
              /\ pass[b].seen[a.link].version = a.version

\* The copy's visible patches are the retained ones; between the staged and the exact
\* publication neither the row nor the copy shows any.
CopyOfPatches(b) ==
    /\ pass[b].pc \notin {"patches", "exact"} =>
          (pass[b].copy.exact => blobs[b] = pass[b].copy.files)
    /\ pass[b].pc \in {"patches", "exact"} =>
          /\ ~row[b].exact
          /\ pass[b].copy.files = pass[b].src /\ pass[b].copy.final = pass[b].src
          /\ pass[b].copy.auth.kind = "local"
    /\ pass[b].pc = "exact" => blobs[b] = pass[b].src

\* A copy under local authority is of the revision the pass runs for.
CopyOfRevision(b) ==
    pass[b].copy.auth.kind = "local" =>
        pass[b].copy.files = pass[b].src /\ pass[b].copy.final = pass[b].src

PassAgrees(b) ==
    /\ row[b].exact => blobs[b] = row[b].files
    /\ authority[b].kind = "local" =>
          row[b].files = row[b].origin /\ row[b].final = row[b].origin
    /\ pass[b].pc # "idle" => SelectionSeen(b) /\ CopyOfPatches(b) /\ CopyOfRevision(b)

EvidenceAgrees == Backed /\ \A b \in Bindings : PassAgrees(b)

\* Nothing is published, nothing is being indexed.
LEMMA EvidenceAgreesInit == EvidenceInit => EvidenceAgrees
<1> SUFFICES ASSUME EvidenceInit
             PROVE  EvidenceAgrees
  OBVIOUS
<1>1. Backed
  BY BackedInit DEF EvidenceInit
<1>2. \A b \in Bindings : PassAgrees(b)
  BY DEF EvidenceInit, ChangeInit, PassAgrees, IdlePass, NoAuthority
<1> QED
  BY <1>1, <1>2 DEF EvidenceAgrees

\* Steps of another binding, and steps that leave the evidence alone.
LEMMA PassAgreesUnchanged ==
    ASSUME NEW b \in Bindings, PassAgrees(b),
           row'[b] = row[b], blobs'[b] = blobs[b], pass'[b] = pass[b],
           authority'[b].kind = "local" => authority'[b] = authority[b]
    PROVE  PassAgrees(b)'
BY DEF PassAgrees, SelectionSeen, CopyOfPatches, CopyOfRevision, HostedCopy

\* No handler publishes local authority.
LEMMA ChangesPublishNoLocal ==
    ASSUME ChangeTypeOK, ChangeNext, NEW b \in Bindings, authority'[b].kind = "local"
    PROVE  authority'[b] = authority[b]
<1>1. CASE Synchronise
  BY <1>1 DEF Synchronise, Push, StartSync, FetchSnapshot, SyncFails, StoreSnapshot,
              DeleteContent, Demoted, NoAuthority, ChangeTypeOK
<1>2. CASE Associate
  BY <1>2 DEF Associate, ReadGraph, BindFails, Bind, DeleteLink, Hosted, Demoted,
              NoAuthority, ChangeTypeOK
<1>3. CASE \E a \in Bindings : ReplaceGraph(a) \/ CreateEvidence(a)
  BY <1>3 DEF ReplaceGraph, CreateEvidence, Demoted, NoAuthority, ChangeTypeOK
<1> QED
  BY <1>1, <1>2, <1>3 DEF ChangeNext

\* A publication whose selection the pass has seen confirmed leaves the authority backed:
\* the transaction compares the links with those the pass has seen.
LEMMA PublishBacked ==
    ASSUME EvidenceTypeOK, Backed, NEW b \in Bindings, NEW c \in Copy, Publish(b, c),
           pass[b].pc # "links", SelectionSeen(b),
           c.auth.kind = "hosted" => c.auth = pass[b].copy.auth
    PROVE  Backed'
<1>1. UNCHANGED <<cache, head, links, collab>>
  BY DEF Publish, cacheVars
<1>2. authority' = [authority EXCEPT ![b] = c.auth] /\ authority \in [Bindings -> Authority]
  BY DEF Publish, EvidenceTypeOK, ChangeTypeOK
<1>3. HostedAuthorityJustified'
  <2> SUFFICES ASSUME NEW a \in Bindings, authority'[a].kind = "hosted"
               PROVE  /\ authority'[a].link \in Links
                      /\ IsLink(links'[authority'[a].link])
                      /\ links'[authority'[a].link].binding = a
                      /\ links'[authority'[a].link].version = authority'[a].version
                      /\ links'[authority'[a].link].exclusive
                      /\ links'[authority'[a].link].exact
    BY DEF HostedAuthorityJustified
  <2>1. CASE a # b
    <3>1. authority'[a] = authority[a]
      BY <1>2, <2>1
    <3> QED
      BY <1>1, <3>1 DEF Backed, HostedAuthorityJustified
  <2>2. CASE a = b
    <3> DEFINE l == pass[b].copy.auth.link
    <3>1. authority'[a] = pass[b].copy.auth /\ HostedCopy(b)
      BY <1>2, <2>2 DEF HostedCopy
    <3>2. /\ l \in Links /\ IsLink(pass[b].seen[l]) /\ pass[b].seen[l].binding = b
          /\ pass[b].seen[l].exclusive /\ pass[b].seen[l].exact
          /\ pass[b].seen[l].version = pass[b].copy.auth.version
      BY <3>1 DEF SelectionSeen
    <3>3. links[l] = pass[b].seen[l]
      BY <3>2 DEF Publish, LinksUnchanged
    <3> QED
      BY <1>1, <2>2, <3>1, <3>2, <3>3
  <2> QED
    BY <2>1, <2>2
<1> QED
  BY <1>1, <1>3 DEF Backed, CacheHeadAgrees, ConfirmedLinksCurrent

\* What a publication leaves of its own binding, and of the others.
LEMMA PublishRow ==
    ASSUME EvidenceTypeOK, NEW b \in Bindings, NEW c \in Copy, Publish(b, c)
    PROVE  /\ authority'[b] = c.auth
           /\ row'[b] = [files |-> c.files, exact |-> c.exact, origin |-> pass[b].src,
                         final |-> c.final]
           /\ \A a \in Bindings : a # b => authority'[a] = authority[a] /\ row'[a] = row[a]
BY DEF Publish, EvidenceTypeOK, ChangeTypeOK

\* A publication that ends the pass agrees when its copy did.
LEMMA LastPublication ==
    ASSUME EvidenceTypeOK, EvidenceAgrees, NEW b \in Bindings, NEW c \in Copy, Publish(b, c),
           pass[b].pc \notin {"idle", "links"}, EndPass(b), blobs' = blobs,
           c.auth.kind = "hosted" => c.auth = pass[b].copy.auth,
           c.exact => blobs[b] = c.files,
           c.auth.kind = "local" => c.files = pass[b].src /\ c.final = pass[b].src
    PROVE  EvidenceAgrees'
<1>1. Backed'
  BY PublishBacked DEF EvidenceAgrees, PassAgrees
<1>2. pass'[b].pc = "idle" /\ \A a \in Bindings : a # b => pass'[a] = pass[a]
  BY DEF EndPass, IdlePass, EvidenceTypeOK
<1>3. PassAgrees(b)'
  <2>1. row'[b] = [files |-> c.files, exact |-> c.exact, origin |-> pass[b].src,
                   final |-> c.final]
        /\ authority'[b] = c.auth
    BY PublishRow
  <2> QED
    BY <1>2, <2>1 DEF PassAgrees
<1>4. ASSUME NEW a \in Bindings, a # b
      PROVE  PassAgrees(a)'
  BY <1>2, <1>4, PublishRow, PassAgreesUnchanged DEF EvidenceAgrees
<1> QED
  BY <1>1, <1>3, <1>4 DEF EvidenceAgrees

\* A publication after which the pass goes on.
LEMMA EarlierPublication ==
    ASSUME EvidenceTypeOK, EvidenceAgrees, NEW b \in Bindings, NEW c \in Copy, Publish(b, c),
           pass[b].pc \notin {"idle", "links"}, blobs' = blobs,
           NEW pc \in {"capture", "finish", "derive", "patches"},
           pass' = [pass EXCEPT ![b] = [pass[b] EXCEPT !.pc = pc, !.copy = c]],
           c.auth.kind = "hosted" => c.auth = pass[b].copy.auth,
           c.exact => blobs[b] = c.files,
           c.auth.kind = "local" => c.files = pass[b].src /\ c.final = pass[b].src,
           pc = "patches" => ~c.exact /\ c.auth.kind = "local"
    PROVE  EvidenceAgrees'
<1>1. Backed'
  BY PublishBacked DEF EvidenceAgrees, PassAgrees
<1>2. /\ pass'[b].pc = pc /\ pass'[b].copy = c
      /\ pass'[b].src = pass[b].src /\ pass'[b].seen = pass[b].seen
      /\ \A a \in Bindings : a # b => pass'[a] = pass[a]
  BY DEF EvidenceTypeOK, Pass
<1>3. /\ row'[b] = [files |-> c.files, exact |-> c.exact, origin |-> pass[b].src,
                    final |-> c.final]
      /\ authority'[b] = c.auth
  BY PublishRow
<1>4. SelectionSeen(b)'
  <2>1. SelectionSeen(b)
    BY DEF EvidenceAgrees, PassAgrees
  <2> QED
    BY <1>2, <2>1 DEF SelectionSeen, HostedCopy
<1>5. CopyOfPatches(b)' /\ CopyOfRevision(b)'
  BY <1>2, <1>3 DEF CopyOfPatches, CopyOfRevision
<1>6. PassAgrees(b)'
  BY <1>3, <1>4, <1>5 DEF PassAgrees
<1>7. ASSUME NEW a \in Bindings, a # b
      PROVE  PassAgrees(a)'
  BY <1>2, <1>7, PublishRow, PassAgreesUnchanged DEF EvidenceAgrees
<1> QED
  BY <1>1, <1>6, <1>7 DEF EvidenceAgrees

\* A step of a pass that publishes nothing.
LEMMA QuietStep ==
    ASSUME EvidenceAgrees, NEW b \in Bindings, UNCHANGED <<changeVars, row>>,
           \A a \in Bindings : a # b => pass'[a] = pass[a] /\ blobs'[a] = blobs[a],
           row[b].exact => blobs'[b] = row[b].files,
           pass'[b].pc # "idle" => (SelectionSeen(b) /\ CopyOfPatches(b) /\ CopyOfRevision(b))'
    PROVE  EvidenceAgrees'
<1>1. Backed'
  BY BackedUnchanged DEF EvidenceAgrees, changeVars
<1>2. PassAgrees(b)'
  BY DEF EvidenceAgrees, PassAgrees, changeVars
<1>3. ASSUME NEW a \in Bindings, a # b
      PROVE  PassAgrees(a)'
  BY <1>3, PassAgreesUnchanged DEF EvidenceAgrees, changeVars
<1> QED
  BY <1>1, <1>2, <1>3 DEF EvidenceAgrees

\* A pass begins with a copy of what is stored: of this revision, or hosted.
LEMMA BeginPassAgrees ==
    ASSUME EvidenceTypeOK, EvidenceAgrees, NEW b \in Bindings, BeginPass(b)
    PROVE  EvidenceAgrees'
<1> DEFINE p == [IdlePass EXCEPT !.pc = "links", !.src = source[b], !.life = life[b],
                                 !.copy = StartingCopy(b)]
<1>1. /\ p.pc = "links" /\ p.src = source[b] /\ p.copy = StartingCopy(b)
  BY DEF IdlePass
<1>2. pass' = [pass EXCEPT ![b] = p]
  BY DEF BeginPass
<1> HIDE DEF p
<1>3. pass'[b] = p /\ \A a \in Bindings : a # b => pass'[a] = pass[a]
  BY <1>2 DEF EvidenceTypeOK
<1>4. UNCHANGED <<changeVars, row, blobs>>
  BY DEF BeginPass
<1>5. /\ row[b].exact => blobs[b] = row[b].files
      /\ authority[b].kind = "local" => row[b].files = row[b].origin /\ row[b].final = row[b].origin
  BY DEF EvidenceAgrees, PassAgrees
<1>6. \/ StartingCopy(b) = NothingRead
      \/ /\ StartingCopy(b) = [auth |-> authority[b], files |-> row[b].files,
                               exact |-> row[b].exact, final |-> row[b].final]
         /\ authority[b].kind = "hosted" \/ row[b].origin = source[b]
  BY DEF StartingCopy
<1>7. StartingCopy(b).auth.kind = "hosted" => StartingCopy(b).auth.link \in Links
  BY <1>6 DEF NothingRead, NoAuthority, EvidenceAgrees, Backed, HostedAuthorityJustified
<1>8. StartingCopy(b).exact => blobs[b] = StartingCopy(b).files
  BY <1>5, <1>6 DEF NothingRead
<1>9. StartingCopy(b).auth.kind = "local" =>
         StartingCopy(b).files = source[b] /\ StartingCopy(b).final = source[b]
  BY <1>5, <1>6 DEF NothingRead, NoAuthority
<1>10. (SelectionSeen(b) /\ CopyOfPatches(b) /\ CopyOfRevision(b))'
  BY <1>1, <1>3, <1>4, <1>7, <1>8, <1>9
     DEF SelectionSeen, CopyOfPatches, CopyOfRevision, HostedCopy
<1> QED
  BY <1>3, <1>4, <1>5, <1>10, QuietStep

\* The links that are read support the selection, or the pass fails.
LEMMA ReadLinksAgrees ==
    ASSUME EvidenceTypeOK, EvidenceAgrees, NEW b \in Bindings, ReadLinks(b)
    PROVE  EvidenceAgrees'
<1> DEFINE seen == [l \in Links |-> IF IsLink(links[l]) /\ links[l].binding = b
                                    THEN links[l] ELSE NoLink]
<1>1. pass[b].pc = "links" /\ SelectionValid(pass[b].copy.auth, b)
  BY DEF ReadLinks
<1>2. UNCHANGED <<changeVars, row, blobs>>
  BY DEF ReadLinks
<1>3. pass' = [pass EXCEPT ![b] = [pass[b] EXCEPT !.pc = "publish", !.seen = seen]]
  BY DEF ReadLinks, EvidenceTypeOK
<1>4. /\ pass'[b].pc = "publish" /\ pass'[b].copy = pass[b].copy /\ pass'[b].src = pass[b].src
      /\ \A l \in Links : pass'[b].seen[l] = IF IsLink(links[l]) /\ links[l].binding = b
                                              THEN links[l] ELSE NoLink
      /\ \A a \in Bindings : a # b => pass'[a] = pass[a]
  BY <1>3 DEF EvidenceTypeOK, Pass
<1>5. SelectionSeen(b) /\ CopyOfPatches(b) /\ CopyOfRevision(b)
      /\ (row[b].exact => blobs[b] = row[b].files)
  BY <1>1 DEF EvidenceAgrees, PassAgrees
<1>6. SelectionSeen(b)'
  BY <1>1, <1>4, <1>5 DEF SelectionSeen, HostedCopy, SelectionValid
<1>7. CopyOfPatches(b)' /\ CopyOfRevision(b)'
  BY <1>1, <1>2, <1>4, <1>5 DEF CopyOfPatches, CopyOfRevision
<1> QED
  BY <1>2, <1>4, <1>5, <1>6, <1>7, QuietStep

\* The derivation replaces patches that nothing shows.
LEMMA PutPatchesAgrees ==
    ASSUME EvidenceTypeOK, EvidenceAgrees, NEW b \in Bindings, PutPatches(b)
    PROVE  EvidenceAgrees'
<1>1. /\ pass[b].pc = "patches" /\ UNCHANGED <<changeVars, row>>
      /\ pass' = [pass EXCEPT ![b].pc = "exact"]
      /\ blobs' = [blobs EXCEPT ![b] = pass[b].src]
  BY DEF PutPatches
<1>2. /\ pass'[b].pc = "exact" /\ pass'[b].copy = pass[b].copy /\ pass'[b].src = pass[b].src
      /\ pass'[b].seen = pass[b].seen /\ blobs'[b] = pass[b].src
      /\ \A a \in Bindings : a # b => pass'[a] = pass[a] /\ blobs'[a] = blobs[a]
  BY <1>1 DEF EvidenceTypeOK, Pass
<1>3. SelectionSeen(b) /\ CopyOfPatches(b) /\ CopyOfRevision(b)
  BY <1>1 DEF EvidenceAgrees, PassAgrees
<1>4. ~row[b].exact
  BY <1>1, <1>3 DEF CopyOfPatches
<1>5. SelectionSeen(b)' /\ CopyOfPatches(b)' /\ CopyOfRevision(b)'
  BY <1>1, <1>2, <1>3 DEF SelectionSeen, CopyOfPatches, CopyOfRevision, HostedCopy
<1> QED
  BY <1>1, <1>2, <1>4, <1>5, QuietStep

\* A capture moves the pass on.
LEMMA CaptureAgrees ==
    ASSUME EvidenceTypeOK, EvidenceAgrees, NEW b \in Bindings, Capture(b)
    PROVE  EvidenceAgrees'
<1>1. PICK pc \in {"finish", "derive"} : pass' = [pass EXCEPT ![b].pc = pc]
  BY DEF Capture
<1>2. pass[b].pc = "capture" /\ UNCHANGED <<changeVars, row, blobs>>
  BY DEF Capture
<1>3. /\ pass'[b].pc = pc /\ pass'[b].copy = pass[b].copy /\ pass'[b].src = pass[b].src
      /\ pass'[b].seen = pass[b].seen
      /\ \A a \in Bindings : a # b => pass'[a] = pass[a]
  BY <1>1 DEF EvidenceTypeOK, Pass
<1>4. SelectionSeen(b) /\ CopyOfPatches(b) /\ CopyOfRevision(b)
      /\ (row[b].exact => blobs[b] = row[b].files)
  BY <1>2 DEF EvidenceAgrees, PassAgrees
<1>5. SelectionSeen(b)' /\ CopyOfPatches(b)' /\ CopyOfRevision(b)'
  BY <1>2, <1>3, <1>4 DEF SelectionSeen, CopyOfPatches, CopyOfRevision, HostedCopy
<1> QED
  BY <1>2, <1>3, <1>4, <1>5, QuietStep

\* The indexer's steps keep copies, rows and patches in agreement.
LEMMA IndexAgrees ==
    ASSUME EvidenceTypeOK, EvidenceAgrees, NEW b \in Bindings, Index(b),
           ~(ReplaceGraph(b) /\ UNCHANGED passVars)
    PROVE  EvidenceAgrees'
<1>1. pass[b] \in Pass /\ pass[b].copy \in Copy /\ pass[b].copy.auth \in Authority
  BY DEF EvidenceTypeOK, Pass, Copy
<1>2. /\ pass[b].pc # "idle" => SelectionSeen(b) /\ CopyOfPatches(b) /\ CopyOfRevision(b)
      /\ row[b].exact => blobs[b] = row[b].files
  BY DEF EvidenceAgrees, PassAgrees
<1>3. CASE BeginPass(b)
  BY <1>3, BeginPassAgrees
<1>4. CASE SkipPass(b)
  BY <1>2, <1>4, QuietStep DEF SkipPass, SelectionSeen, CopyOfPatches, CopyOfRevision, HostedCopy,
     changeVars
<1>5. CASE ReadLinks(b)
  BY <1>5, ReadLinksAgrees
<1>6. CASE PublishBinding(b)
  <2> DEFINE c == BindingCopy(b)
  <2>1. pass[b].pc = "publish" /\ Publish(b, c) /\ blobs' = blobs
    BY <1>6 DEF PublishBinding
  <2>2. c \in Copy
    BY BindingCopyOK
  <2>3. c = pass[b].copy \/ c = WithoutFiles(pass[b].copy)
    BY DEF BindingCopy
  <2>4. WithoutFiles(pass[b].copy).auth.kind = "none" /\ ~WithoutFiles(pass[b].copy).exact
    BY <1>1, WithoutFilesOK
  <2>0. PICK next \in {AfterPublish(b), "finish"} :
            pass' = [pass EXCEPT ![b].pc = next, ![b].copy = BindingCopy(b)]
    BY <1>6 DEF PublishBinding
  <2>5. next \in {"capture", "finish", "derive"}
    BY <2>0 DEF AfterPublish
  <2>6. pass' = [pass EXCEPT ![b] = [pass[b] EXCEPT !.pc = next, !.copy = c]]
    BY <2>0 DEF EvidenceTypeOK
  <2>7. /\ c.auth.kind = "hosted" => c.auth = pass[b].copy.auth
        /\ c.exact => blobs[b] = c.files
        /\ c.auth.kind = "local" => c.files = pass[b].src /\ c.final = pass[b].src
    BY <1>2, <2>1, <2>3, <2>4 DEF CopyOfPatches, CopyOfRevision
  <2> HIDE DEF c
  <2> QED
    BY <2>1, <2>2, <2>5, <2>6, <2>7, EarlierPublication
<1>7. CASE Capture(b)
  BY <1>7, CaptureAgrees
<1>8. CASE CaptureFails(b)
  <2> DEFINE c == IF HostedCopy(b) THEN pass[b].copy
                  ELSE [pass[b].copy EXCEPT !.auth = Unselected(@, "none")]
  <2>1. pass[b].pc = "capture" /\ Publish(b, c) /\ EndPass(b) /\ blobs' = blobs
    BY <1>8 DEF CaptureFails
  <2>2. Unselected(pass[b].copy.auth, "none") \in Authority
        /\ Unselected(pass[b].copy.auth, "none").kind = "none"
    BY <1>1, UnselectedOK
  <2>3. /\ c \in Copy
        /\ c.auth.kind = "hosted" => c.auth = pass[b].copy.auth
        /\ c.exact = pass[b].copy.exact /\ c.files = pass[b].copy.files
        /\ c.auth.kind # "local"
    BY <1>1, <2>2 DEF Copy, HostedCopy
  <2>4. c.exact => blobs[b] = c.files
    BY <1>2, <2>1, <2>3 DEF CopyOfPatches
  <2> HIDE DEF c
  <2> QED
    BY <2>1, <2>3, <2>4, LastPublication
<1>9. CASE PublishWithoutFiles(b)
  <2> DEFINE c == IF HostedCopy(b) THEN pass[b].copy ELSE WithoutFiles(pass[b].copy)
  <2>1. pass[b].pc = "finish" /\ Publish(b, c) /\ EndPass(b) /\ blobs' = blobs
    BY <1>9 DEF PublishWithoutFiles
  <2>2. /\ c \in Copy
        /\ c.auth.kind = "hosted" => c.auth = pass[b].copy.auth
        /\ c.exact => c = pass[b].copy
        /\ c.auth.kind # "local"
    BY <1>1, WithoutFilesOK DEF HostedCopy
  <2>3. c.exact => blobs[b] = c.files
    BY <1>2, <2>1, <2>2 DEF CopyOfPatches
  <2> HIDE DEF c
  <2> QED
    BY <2>1, <2>2, <2>3, LastPublication
<1>10. CASE PublishUnderHosted(b)
  <2> DEFINE c == [pass[b].copy EXCEPT !.final = pass[b].src]
  <2>1. pass[b].pc = "derive" /\ HostedCopy(b) /\ Publish(b, c) /\ EndPass(b) /\ blobs' = blobs
    BY <1>10 DEF PublishUnderHosted
  <2>2. /\ c \in Copy /\ c.auth = pass[b].copy.auth
        /\ c.exact = pass[b].copy.exact /\ c.files = pass[b].copy.files
    BY <1>1 DEF Copy, Pass
  <2>3. c.auth.kind # "local"
    BY <2>1, <2>2 DEF HostedCopy
  <2>4. c.exact => blobs[b] = c.files
    BY <1>2, <2>1, <2>2 DEF CopyOfPatches
  <2> HIDE DEF c
  <2> QED
    BY <2>1, <2>2, <2>3, <2>4, LastPublication
<1>11. CASE PublishStaged(b)
  <2> DEFINE c == LocalCopy(b)
  <2>1. pass[b].pc = "derive" /\ Publish(b, c) /\ blobs' = blobs
    BY <1>11 DEF PublishStaged
  <2>2. /\ c \in Copy /\ c.auth.kind = "local" /\ ~c.exact
        /\ c.files = pass[b].src /\ c.final = pass[b].src
    BY LocalCopyOK DEF LocalCopy
  <2>3. pass' = [pass EXCEPT ![b] = [pass[b] EXCEPT !.pc = "patches", !.copy = c]]
    BY <1>11 DEF PublishStaged, EvidenceTypeOK
  <2> HIDE DEF c
  <2> QED
    BY <2>1, <2>2, <2>3, EarlierPublication
<1>12. CASE PutPatches(b)
  BY <1>12, PutPatchesAgrees
<1>13. CASE PublishExact(b)
  <2> DEFINE c == [pass[b].copy EXCEPT !.exact = TRUE]
  <2>1. pass[b].pc = "exact" /\ Publish(b, c) /\ EndPass(b) /\ blobs' = blobs
    BY <1>13 DEF PublishExact
  <2>2. /\ c \in Copy /\ c.auth = pass[b].copy.auth
        /\ c.files = pass[b].copy.files /\ c.final = pass[b].copy.final
    BY <1>1 DEF Copy
  <2>3. c.files = pass[b].src /\ c.final = pass[b].src /\ blobs[b] = pass[b].src
    BY <1>2, <2>1, <2>2 DEF CopyOfPatches
  <2> HIDE DEF c
  <2> QED
    BY <2>1, <2>2, <2>3, LastPublication
<1>14. CASE PassFails(b)
  <2>1. pass'[b].pc = "idle" /\ \A a \in Bindings : a # b => pass'[a] = pass[a]
    BY <1>14 DEF PassFails, EndPass, IdlePass, EvidenceTypeOK
  <2>2. UNCHANGED <<changeVars, row, blobs>>
    BY <1>14 DEF PassFails
  <2> QED
    BY <1>2, <2>1, <2>2, QuietStep
<1> QED
  BY <1>3, <1>4, <1>5, <1>6, <1>7, <1>8, <1>9, <1>10, <1>11, <1>12, <1>13, <1>14 DEF Index

\* Every step keeps the agreement.
LEMMA EvidenceAgreesNext ==
    EvidenceTypeOK /\ EvidenceAgrees /\ [EvidenceNext]_evidenceVars => EvidenceAgrees'
<1> SUFFICES ASSUME EvidenceTypeOK, EvidenceAgrees, [EvidenceNext]_evidenceVars
             PROVE  EvidenceAgrees'
  OBVIOUS
<1>1. CASE ChangeNext /\ UNCHANGED passVars
  <2>1. Backed'
    BY <1>1, BackedNext DEF EvidenceAgrees, EvidenceTypeOK
  <2>2. ASSUME NEW b \in Bindings
        PROVE  PassAgrees(b)'
    BY <1>1, <2>2, ChangesPublishNoLocal, PassAgreesUnchanged
       DEF EvidenceAgrees, EvidenceTypeOK, passVars
  <2> QED
    BY <2>1, <2>2 DEF EvidenceAgrees
<1>2. CASE UNCHANGED <<changeVars, row, blobs, pass>>
  <2>1. Backed'
    BY <1>2, BackedUnchanged DEF EvidenceAgrees, changeVars
  <2>2. ASSUME NEW b \in Bindings
        PROVE  PassAgrees(b)'
    BY <1>2, <2>2, PassAgreesUnchanged DEF EvidenceAgrees, changeVars
  <2> QED
    BY <2>1, <2>2 DEF EvidenceAgrees
<1>3. ASSUME NEW b \in Bindings, Index(b)
      PROVE  EvidenceAgrees'
  <2>1. CASE ReplaceGraph(b) /\ UNCHANGED passVars
    BY <1>1, <2>1 DEF ChangeNext
  <2>2. CASE ~(ReplaceGraph(b) /\ UNCHANGED passVars)
    BY <1>3, <2>2, IndexAgrees
  <2> QED
    BY <2>1, <2>2
<1>4. CASE Crash
  <2>1. Backed'
    BY <1>4, BackedUnchanged DEF Crash, cacheVars, EvidenceAgrees
  <2>2. ASSUME NEW b \in Bindings
        PROVE  PassAgrees(b)'
    BY <1>4, <2>2 DEF Crash, IdlePass, EvidenceAgrees, PassAgrees
  <2> QED
    BY <2>1, <2>2 DEF EvidenceAgrees
<1> QED
  BY <1>1, <1>2, <1>3, <1>4, HandlersAreChanges
     DEF EvidenceNext, AppendSource, evidenceVars, passVars

\* The agreement holds throughout.
LEMMA EvidenceAgreesAlways == EvidenceSpec => []EvidenceAgrees
<1>1. EvidenceInit => EvidenceTypeOK /\ EvidenceAgrees
  BY EvidenceInitTypeOK, EvidenceAgreesInit
<1>2. EvidenceTypeOK /\ EvidenceAgrees /\ [EvidenceNext]_evidenceVars =>
         (EvidenceTypeOK /\ EvidenceAgrees)'
  BY EvidenceNextTypeOK, EvidenceAgreesNext
<1> QED
  BY <1>1, <1>2, PTL DEF EvidenceSpec

\* A patch that is served belongs to the file list it is served with, wherever a pass
\* failed or the process died.
THEOREM EvidencePatchesBelongToFiles == EvidenceSpec => []PatchesBelongToFiles
<1>1. EvidenceAgrees => PatchesBelongToFiles
  BY DEF EvidenceAgrees, PassAgrees, PatchesBelongToFiles
<1> QED
  BY <1>1, EvidenceAgreesAlways, PTL

\* Local files are those of the revision they are published under.
THEOREM EvidenceLocalFilesAreOfTheirRevision ==
    EvidenceSpec => []LocalFilesAreOfTheirRevision
<1>1. EvidenceAgrees => LocalFilesAreOfTheirRevision
  BY DEF EvidenceAgrees, PassAgrees, LocalFilesAreOfTheirRevision
<1> QED
  BY <1>1, EvidenceAgreesAlways, PTL

\* Hosted authority is backed by a confirmation although passes publish copies of it.
THEOREM EvidenceHostedAuthorityJustified == EvidenceSpec => []HostedAuthorityJustified
<1>1. EvidenceAgrees => HostedAuthorityJustified
  BY DEF EvidenceAgrees, Backed
<1> QED
  BY <1>1, EvidenceAgreesAlways, PTL

=============================================================================
