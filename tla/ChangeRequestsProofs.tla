------------------------ MODULE ChangeRequestsProofs ------------------------
(* Theorems about ChangeRequests for every number of versions, bindings, links, *)
(* synchronisations, pushes and graph revisions.                                *)
EXTENDS ChangeRequests, TLAPS

-----------------------------------------------------------------------------
(* Types.                                                                  *)

\* The initial store is typed.
LEMMA ChangeInitTypeOK == ChangeInit => ChangeTypeOK
<1> SUFFICES ASSUME ChangeInit
             PROVE  ChangeTypeOK
  OBVIOUS
<1>1. [NoAuthority EXCEPT !.kind = "absent"] \in Authority
  BY DEF NoAuthority, Authority
<1>2. authority \in [Bindings -> Authority]
  BY <1>1 DEF ChangeInit
<1>3. head \in [version : Versions \cup {None}, sync : 0 .. MaxSyncs, fresh : BOOLEAN]
  BY ChangeAssumption DEF ChangeInit
<1>4. collab \in [Bindings -> 1 .. MaxRevision] /\ binding \in [Bindings -> 0 .. MaxRevision]
  BY ChangeAssumption DEF ChangeInit
<1> QED
  BY ChangeAssumption, <1>2, <1>3, <1>4 DEF ChangeInit, ChangeTypeOK

\* A link that exists is a record of its fields.
LEMMA LinkIsRecord ==
    ASSUME ChangeTypeOK, NEW l \in Links, IsLink(links[l])
    PROVE  links[l] \in LinkRecord
BY DEF ChangeTypeOK, IsLink

\* The exactness of a link may change, its type does not.
LEMMA PendingLinkOK ==
    ASSUME NEW x \in LinkRecord
    PROVE  [x EXCEPT !.exact = FALSE] \in LinkRecord
BY DEF LinkRecord

\* Both authorities a demotion can leave behind are authorities.
LEMMA DemotedOK == Demoted \in Authority /\ NoAuthority \in Authority
BY DEF Demoted, NoAuthority, Authority

\* The authority a binding publishes is an authority.
LEMMA HostedOK ==
    ASSUME NEW l \in Links, NEW v \in Versions
    PROVE  Hosted(l, v) \in Authority
BY DEF Hosted, Authority

\* The transaction of StoreSnapshot keeps the types.
LEMMA StoreSnapshotTypeOK ==
    ASSUME ChangeTypeOK, NEW s \in syncs, StoreSnapshot(s)
    PROVE  ChangeTypeOK'
<1>1. s \in Sync /\ s.got \in Versions
  BY DEF StoreSnapshot, ChangeTypeOK, Sync
<1>2. s.start \in 1 .. MaxSyncs
  BY <1>1 DEF Sync
<1>3. syncs' \subseteq Sync
  BY DEF StoreSnapshot, ChangeTypeOK
<1>4. cache' \in [Versions -> {"absent", "current", "stale", "content_deleted"}]
  <2>1. \A v \in Versions : NewCache(s)[v] \in {"absent", "current", "stale", "content_deleted"}
    BY <1>1 DEF NewCache, OwnCacheState, DesiredCacheState, ChangeTypeOK
  <2>2. cache' = NewCache(s)
    BY DEF StoreSnapshot
  <2> QED
    BY <2>1, <2>2 DEF NewCache
<1>5. snapshotSync' \in [Versions -> 0 .. MaxSyncs]
  BY <1>1, <1>2 DEF StoreSnapshot, ChangeTypeOK
<1>6. head' \in [version : Versions \cup {None}, sync : 0 .. MaxSyncs, fresh : BOOLEAN]
  <2>1. head' = NewHead(s)
    BY DEF StoreSnapshot
  <2>2. CASE PromoteCacheHead(s)
    BY <1>1, <1>2, <2>1, <2>2 DEF NewHead
  <2>3. CASE ~PromoteCacheHead(s)
    BY <1>1, <2>1, <2>3 DEF NewHead, ChangeTypeOK
  <2> QED
    BY <2>2, <2>3
<1>7. links' \in [Links -> LinkRecord \cup {NoLink, Deleted}]
  BY LinkIsRecord, PendingLinkOK DEF StoreSnapshot, PendingElsewhere, ChangeTypeOK
<1>8. authority' \in [Bindings -> Authority]
  BY DemotedOK DEF StoreSnapshot, ChangeTypeOK
<1>9. responses' \subseteq [start : 1 .. MaxSyncs, version : Versions, current : BOOLEAN]
  <2>1. [start |-> s.start, version |-> s.got, current |-> s.want = None]
           \in [start : 1 .. MaxSyncs, version : Versions, current : BOOLEAN]
    BY <1>1, <1>2
  <2> QED
    BY <2>1 DEF StoreSnapshot, ChangeTypeOK
<1> QED
  BY <1>3, <1>4, <1>5, <1>6, <1>7, <1>8, <1>9 DEF StoreSnapshot, hostVars, ChangeTypeOK

\* Every step keeps the types.
LEMMA ChangeNextTypeOK == ChangeTypeOK /\ [ChangeNext]_changeVars => ChangeTypeOK'
<1> SUFFICES ASSUME ChangeTypeOK, [ChangeNext]_changeVars
             PROVE  ChangeTypeOK'
  OBVIOUS
<1> USE ChangeAssumption
<1>1. CASE Push
  BY <1>1 DEF Push, cacheVars, ChangeTypeOK
<1>2. ASSUME NEW want \in Versions \cup {None}, StartSync(want)
      PROVE  ChangeTypeOK'
  <2>1. clock' \in 1 .. MaxSyncs
    BY <1>2 DEF StartSync, ChangeTypeOK
  <2>2. syncs' \subseteq Sync
    BY <1>2, <2>1 DEF StartSync, ChangeTypeOK, Sync
  <2> QED
    BY <1>2, <2>1, <2>2 DEF StartSync, hostVars, cacheVars, ChangeTypeOK
<1>3. ASSUME NEW s \in syncs, FetchSnapshot(s)
      PROVE  ChangeTypeOK'
  <2>1. s \in Sync
    BY DEF ChangeTypeOK
  <2>2. (IF s.want = None THEN hostVersion ELSE s.want) \in Versions
    BY <2>1 DEF ChangeTypeOK, Sync
  <2>3. syncs' \subseteq Sync
    BY <1>3, <2>1, <2>2 DEF FetchSnapshot, ChangeTypeOK, Sync
  <2> QED
    BY <1>3, <2>3 DEF FetchSnapshot, hostVars, cacheVars, ChangeTypeOK
<1>4. ASSUME NEW s \in syncs, SyncFails(s)
      PROVE  ChangeTypeOK'
  BY <1>4 DEF SyncFails, hostVars, cacheVars, ChangeTypeOK
<1>5. ASSUME NEW s \in syncs, StoreSnapshot(s)
      PROVE  ChangeTypeOK'
  BY <1>5, StoreSnapshotTypeOK
<1>6. ASSUME NEW v \in Versions, DeleteContent(v)
      PROVE  ChangeTypeOK'
  <2>1. links' \in [Links -> LinkRecord \cup {NoLink, Deleted}]
    BY <1>6, LinkIsRecord, PendingLinkOK DEF DeleteContent, ChangeTypeOK
  <2>2. authority' \in [Bindings -> Authority]
    BY <1>6, DemotedOK DEF DeleteContent, ChangeTypeOK
  <2>3. cache' \in [Versions -> {"absent", "current", "stale", "content_deleted"}]
    BY <1>6 DEF DeleteContent, ChangeTypeOK
  <2>4. head' \in [version : Versions \cup {None}, sync : 0 .. MaxSyncs, fresh : BOOLEAN]
    BY <1>6 DEF DeleteContent, ChangeTypeOK
  <2> QED
    BY <1>6, <2>1, <2>2, <2>3, <2>4 DEF DeleteContent, hostVars, ChangeTypeOK
<1>7. ASSUME NEW b \in Bindings, ReadGraph(b)
      PROVE  ChangeTypeOK'
  BY <1>7 DEF ReadGraph, hostVars, cacheVars, ChangeTypeOK
<1>8. ASSUME NEW b \in Bindings, BindFails(b)
      PROVE  ChangeTypeOK'
  BY <1>8 DEF BindFails, hostVars, cacheVars, ChangeTypeOK
<1>9. ASSUME NEW b \in Bindings, NEW l \in Links, NEW v \in Versions, NEW x \in BOOLEAN,
             Bind(b, l, v, x)
      PROVE  ChangeTypeOK'
  <2>1. binding[b] \in 0 .. MaxRevision
    BY DEF ChangeTypeOK
  <2>2. [binding |-> b, version |-> v, exclusive |-> x, exact |-> TRUE,
         revision |-> binding[b]] \in LinkRecord
    BY <2>1 DEF LinkRecord
  <2>3. links' \in [Links -> LinkRecord \cup {NoLink, Deleted}]
    BY <1>9, <2>2 DEF Bind, ChangeTypeOK
  <2>4. authority' \in [Bindings -> Authority]
    BY <1>9, DemotedOK, HostedOK DEF Bind, ChangeTypeOK
  <2>5. binding' \in [Bindings -> 0 .. MaxRevision]
    BY <1>9 DEF Bind, ChangeTypeOK
  <2> QED
    BY <1>9, <2>3, <2>4, <2>5 DEF Bind, hostVars, cacheVars, ChangeTypeOK
<1>10. ASSUME NEW l \in Links, DeleteLink(l)
       PROVE  ChangeTypeOK'
  BY <1>10, DemotedOK DEF DeleteLink, hostVars, cacheVars, ChangeTypeOK
<1>11. ASSUME NEW b \in Bindings, ReplaceGraph(b)
       PROVE  ChangeTypeOK'
  <2>1. links' \in [Links -> LinkRecord \cup {NoLink, Deleted}]
    BY <1>11, LinkIsRecord, PendingLinkOK DEF ReplaceGraph, ChangeTypeOK
  <2>2. authority' \in [Bindings -> Authority]
    BY <1>11, DemotedOK DEF ReplaceGraph, ChangeTypeOK
  <2>3. collab' \in [Bindings -> 1 .. MaxRevision]
    BY <1>11 DEF ReplaceGraph, ChangeTypeOK
  <2> QED
    BY <1>11, <2>1, <2>2, <2>3 DEF ReplaceGraph, hostVars, cacheVars, ChangeTypeOK
<1>12. ASSUME NEW b \in Bindings, CreateEvidence(b)
       PROVE  ChangeTypeOK'
  BY <1>12, DemotedOK DEF CreateEvidence, hostVars, cacheVars, ChangeTypeOK
<1>13. CASE UNCHANGED changeVars
  BY <1>13 DEF changeVars, ChangeTypeOK
<1> QED
  BY <1>1, <1>2, <1>3, <1>4, <1>5, <1>6, <1>7, <1>8, <1>9, <1>10, <1>11, <1>12, <1>13
     DEF ChangeNext, Synchronise, Associate

\* Every column and every request in flight always has its type.
THEOREM ChangeTypeCorrect == ChangeSpec => []ChangeTypeOK
<1> QED
  BY ChangeInitTypeOK, ChangeNextTypeOK, PTL DEF ChangeSpec

-----------------------------------------------------------------------------
(* What the published authority rests on.  Authority rests on an exact     *)
(* confirmation, a confirmation on the current cache row, and that row on  *)
(* the cache head: none of the three is inductive without the others.      *)

Backed ==
    /\ head.fresh => head.version \in Versions
    /\ CacheHeadAgrees
    /\ ConfirmedLinksCurrent
    /\ HostedAuthorityJustified

\* Nothing is cached, confirmed or published at first.
LEMMA BackedInit == ChangeInit => Backed
BY ChangeAssumption
   DEF ChangeInit, Backed, CacheHeadAgrees, ConfirmedLinksCurrent, HostedAuthorityJustified,
       IsLink, NoAuthority

\* A link of the cache's version is what an exact confirmation names.
LEMMA ConfirmedIsHead ==
    ASSUME ChangeTypeOK, Backed,
           NEW l \in Links, IsLink(links[l]), links[l].exclusive, links[l].exact
    PROVE  links[l].version = head.version
BY LinkIsRecord DEF Backed, ConfirmedLinksCurrent, CacheHeadAgrees, LinkRecord

\* The head is served as current by the transaction that writes a snapshot, and no
\* other version is.
LEMMA StoreSnapshotCache ==
    ASSUME ChangeTypeOK, Backed, NEW s \in syncs, StoreSnapshot(s)
    PROVE  /\ CacheHeadAgrees'
           /\ head'.fresh => head'.version \in Versions
           /\ head'.version # head.version => PromoteCacheHead(s) /\ head'.version = s.got
           /\ \A v \in Versions : cache[v] = "current" /\ cache'[v] # "current" =>
                   HeadMoves(s) /\ v # s.got
<1>1. s.got \in Versions /\ None \notin Versions
  BY ChangeAssumption DEF StoreSnapshot, ChangeTypeOK, Sync
<1>2. /\ head \in [version : Versions \cup {None}, sync : 0 .. MaxSyncs, fresh : BOOLEAN]
      /\ cache \in [Versions -> {"absent", "current", "stale", "content_deleted"}]
  BY DEF ChangeTypeOK
<1>3. /\ \A v \in Versions : cache[v] = "current" => head.version = v
      /\ head.fresh => head.version \in Versions /\ cache[head.version] = "current"
  BY DEF Backed, CacheHeadAgrees
<1>4. cache' = NewCache(s) /\ head' = NewHead(s)
  BY DEF StoreSnapshot
<1>5. CASE PromoteCacheHead(s)
  <2>1. head'.version = s.got /\ head'.fresh
    BY <1>4, <1>5 DEF NewHead
  <2>2. cache'[s.got] = "current"
    BY <1>1, <1>4, <1>5 DEF NewCache
  <2>3. \A v \in Versions : v # s.got => cache'[v] # "current"
    BY <1>4, <1>5 DEF NewCache
  <2>4. \A v \in Versions : cache[v] = "current" /\ v # s.got => HeadMoves(s)
    BY <1>1, <1>3, <1>5 DEF HeadMoves
  <2> QED
    BY <1>1, <1>5, <2>1, <2>2, <2>3, <2>4 DEF CacheHeadAgrees
<1>6. CASE ~PromoteCacheHead(s)
  <2>1. head'.version = head.version
    BY <1>2, <1>4, <1>6 DEF NewHead
  <2>2. \A v \in Versions : v # s.got => cache'[v] = cache[v]
    BY <1>4, <1>6 DEF NewCache
  <2>3. cache'[s.got] = OwnCacheState(s)
    BY <1>1, <1>4, <1>6 DEF NewCache
  <2>4. cache[s.got] = "current" => cache'[s.got] = "current"
    BY <1>1, <1>3, <2>3 DEF OwnCacheState, DesiredCacheState
  <2>5. cache'[s.got] = "current" => head.version = s.got
    BY <1>1, <1>3, <2>3 DEF OwnCacheState, DesiredCacheState
  <2>6. head'.fresh => head'.version \in Versions /\ cache'[head'.version] = "current"
    <3> SUFFICES ASSUME head'.fresh
                 PROVE  head'.version \in Versions /\ cache'[head'.version] = "current"
      OBVIOUS
    <3>1. head.fresh \/ (head.version = s.got /\ cache[s.got] = "content_deleted")
      BY <1>2, <1>4, <1>6 DEF NewHead
    <3>2. CASE head.fresh
      BY <1>3, <2>1, <2>2, <2>4, <3>2
    <3>3. CASE head.version = s.got /\ cache[s.got] = "content_deleted"
      BY <1>1, <2>1, <2>3, <3>3 DEF OwnCacheState, DesiredCacheState
    <3> QED
      BY <3>1, <3>2, <3>3
  <2> QED
    BY <1>1, <1>3, <2>1, <2>2, <2>4, <2>5, <2>6 DEF CacheHeadAgrees
<1> QED
  BY <1>5, <1>6

\* A response that moves the head withdraws what rested on the version it replaces.
LEMMA StoreSnapshotBacked ==
    ASSUME ChangeTypeOK, Backed, NEW s \in syncs, StoreSnapshot(s)
    PROVE  Backed'
<1>1. links' = PendingElsewhere(s) /\ collab' = collab
  BY DEF StoreSnapshot
<1>2. \A l \in Links :
         /\ IsLink(links'[l]) <=> IsLink(links[l])
         /\ IsLink(links[l]) =>
               /\ links'[l].version = links[l].version
               /\ links'[l].binding = links[l].binding
               /\ links'[l].revision = links[l].revision
               /\ links'[l].exclusive = links[l].exclusive
               /\ links'[l].exact => links[l].exact
               /\ links'[l].exact =>
                     ~(HeadMoves(s) /\ links[l].exclusive /\ links[l].version # s.got)
               /\ (links[l].exact /\ ~(HeadMoves(s) /\ links[l].version # s.got)) => links'[l].exact
  <2> SUFFICES ASSUME NEW l \in Links
               PROVE  /\ IsLink(links'[l]) <=> IsLink(links[l])
                      /\ IsLink(links[l]) =>
                            /\ links'[l].version = links[l].version
                            /\ links'[l].binding = links[l].binding
                            /\ links'[l].revision = links[l].revision
                            /\ links'[l].exclusive = links[l].exclusive
                            /\ links'[l].exact => links[l].exact
                            /\ links'[l].exact =>
                                  ~(HeadMoves(s) /\ links[l].exclusive /\ links[l].version # s.got)
                            /\ (links[l].exact /\ ~(HeadMoves(s) /\ links[l].version # s.got))
                                  => links'[l].exact
    OBVIOUS
  <2>1. CASE HeadMoves(s) /\ IsLink(links[l]) /\ links[l].exclusive /\ links[l].version # s.got
    <3>1. links'[l] = [links[l] EXCEPT !.exact = FALSE]
      BY <1>1, <2>1 DEF PendingElsewhere
    <3>2. links[l] \in LinkRecord /\ links'[l] \in LinkRecord
      BY <2>1, <3>1, LinkIsRecord, PendingLinkOK
    <3>3. IsLink(links'[l])
      BY <3>2, ChangeAssumption
    <3> QED
      BY <2>1, <3>1, <3>2, <3>3 DEF LinkRecord
  <2>2. CASE ~(HeadMoves(s) /\ IsLink(links[l]) /\ links[l].exclusive /\ links[l].version # s.got)
    <3>1. links'[l] = links[l]
      BY <1>1, <2>2 DEF PendingElsewhere
    <3> QED
      BY <2>2, <3>1
  <2> QED
    BY <2>1, <2>2
<1>3. ConfirmedLinksCurrent'
  <2> SUFFICES ASSUME NEW l \in Links, IsLink(links'[l]), links'[l].exclusive, links'[l].exact
               PROVE  /\ cache'[links'[l].version] = "current"
                      /\ links'[l].revision = collab'[links'[l].binding]
    BY DEF ConfirmedLinksCurrent
  <2>1. /\ IsLink(links[l]) /\ links[l].exclusive /\ links[l].exact
        /\ ~(HeadMoves(s) /\ links[l].version # s.got)
    BY <1>2
  <2>2. cache[links[l].version] = "current" /\ links[l].revision = collab[links[l].binding]
    BY <2>1 DEF Backed, ConfirmedLinksCurrent
  <2>3. links[l].version \in Versions
    BY <2>1, LinkIsRecord DEF LinkRecord
  <2>4. cache'[links[l].version] = "current"
    BY <2>1, <2>2, <2>3, StoreSnapshotCache
  <2> QED
    BY <1>1, <1>2, <2>1, <2>2, <2>4
<1>4. HostedAuthorityJustified'
  <2> SUFFICES ASSUME NEW b \in Bindings, authority'[b].kind = "hosted"
               PROVE  /\ authority'[b].link \in Links
                      /\ IsLink(links'[authority'[b].link])
                      /\ links'[authority'[b].link].binding = b
                      /\ links'[authority'[b].link].version = authority'[b].version
                      /\ links'[authority'[b].link].exclusive
                      /\ links'[authority'[b].link].exact
    BY DEF HostedAuthorityJustified
  <2>1. authority'[b] = authority[b] /\ ~(HeadMoves(s) /\ SelectsOther(b, s.got))
    BY DEF StoreSnapshot, Demoted, NoAuthority
  <2> DEFINE l == authority[b].link
  <2>2. /\ l \in Links /\ IsLink(links[l]) /\ links[l].binding = b
        /\ links[l].version = authority[b].version
        /\ links[l].exclusive /\ links[l].exact
    BY <2>1 DEF Backed, HostedAuthorityJustified
  <2>3. ~(HeadMoves(s) /\ links[l].version # s.got)
    BY <2>1, <2>2 DEF SelectsOther
  <2> QED
    BY <1>2, <2>1, <2>2, <2>3
<1> QED
  BY <1>3, <1>4, StoreSnapshotCache DEF Backed

\* Nothing that leaves links, cache, graph and authority alone disturbs them.
LEMMA BackedUnchanged ==
    ASSUME Backed, UNCHANGED <<cache, head, links, collab, authority>>
    PROVE  Backed'
BY DEF Backed, CacheHeadAgrees, ConfirmedLinksCurrent, HostedAuthorityJustified

\* Deleted content takes the confirmations of its version and the authority they gave.
LEMMA DeleteContentBacked ==
    ASSUME ChangeTypeOK, Backed, NEW v \in Versions, DeleteContent(v)
    PROVE  Backed'
<1>1. /\ cache' = [cache EXCEPT ![v] = "content_deleted"]
      /\ head' = IF head.version = v THEN [head EXCEPT !.fresh = FALSE] ELSE head
      /\ collab' = collab
  BY DEF DeleteContent
<1>2. /\ cache \in [Versions -> {"absent", "current", "stale", "content_deleted"}]
      /\ head \in [version : Versions \cup {None}, sync : 0 .. MaxSyncs, fresh : BOOLEAN]
  BY DEF ChangeTypeOK
<1>3. CacheHeadAgrees' /\ (head'.fresh => head'.version \in Versions)
  BY <1>1, <1>2 DEF Backed, CacheHeadAgrees
<1>4. \A l \in Links :
         \/ links'[l] = links[l] /\ (IsLink(links[l]) /\ links[l].exclusive => links[l].version # v)
         \/ /\ IsLink(links[l]) /\ links[l].exclusive /\ links[l].version = v
            /\ links'[l] = [links[l] EXCEPT !.exact = FALSE]
  BY DEF DeleteContent
<1>5. \A l \in Links : IsLink(links[l]) /\ links[l].version = v /\ links[l].exclusive =>
         ~links'[l].exact
  BY <1>4, LinkIsRecord DEF LinkRecord
<1>6. ConfirmedLinksCurrent'
  <2> SUFFICES ASSUME NEW l \in Links, IsLink(links'[l]), links'[l].exclusive, links'[l].exact
               PROVE  /\ cache'[links'[l].version] = "current"
                      /\ links'[l].revision = collab'[links'[l].binding]
    BY DEF ConfirmedLinksCurrent
  <2>1. links'[l] = links[l] /\ links[l].version # v
    BY <1>4, <1>5
  <2>2. links[l].version \in Versions
    BY <2>1, LinkIsRecord DEF LinkRecord
  <2> QED
    BY <1>1, <1>2, <2>1, <2>2 DEF Backed, ConfirmedLinksCurrent
<1>7. HostedAuthorityJustified'
  <2> SUFFICES ASSUME NEW b \in Bindings, authority'[b].kind = "hosted"
               PROVE  /\ authority'[b].link \in Links
                      /\ IsLink(links'[authority'[b].link])
                      /\ links'[authority'[b].link].binding = b
                      /\ links'[authority'[b].link].version = authority'[b].version
                      /\ links'[authority'[b].link].exclusive
                      /\ links'[authority'[b].link].exact
    BY DEF HostedAuthorityJustified
  <2>1. authority'[b] = authority[b] /\ authority[b].version # v
    BY DEF DeleteContent, Demoted, NoAuthority
  <2>2. links'[authority[b].link] = links[authority[b].link]
    BY <1>4, <2>1 DEF Backed, HostedAuthorityJustified
  <2> QED
    BY <2>1, <2>2 DEF Backed, HostedAuthorityJustified
<1> QED
  BY <1>3, <1>6, <1>7 DEF Backed

\* A bind request confirms what is current when its transaction runs.
LEMMA BindBacked ==
    ASSUME ChangeTypeOK, Backed,
           NEW b \in Bindings, NEW l \in Links, NEW v \in Versions, NEW x \in BOOLEAN,
           Bind(b, l, v, x)
    PROVE  Backed'
<1> DEFINE bound == [binding |-> b, version |-> v, exclusive |-> x, exact |-> TRUE,
                     revision |-> binding[b]]
<1>1. /\ links' = [links EXCEPT ![l] = bound]
      /\ collab' = collab /\ cache' = cache /\ head' = head
  BY DEF Bind, cacheVars
<1>2. bound \in LinkRecord /\ IsLink(bound)
  <2>1. binding[b] \in 0 .. MaxRevision
    BY DEF ChangeTypeOK
  <2>2. bound \in LinkRecord
    BY <2>1 DEF LinkRecord
  <2> QED
    BY <2>2, ChangeAssumption
<1>3. /\ \A k \in Links : k # l => links'[k] = links[k]
      /\ links'[l] = bound
  <2>1. \A k \in Links \ {l} : links'[k] = links[k]
    BY <1>1
  <2>2. l \in DOMAIN links
    BY DEF ChangeTypeOK
  <2> QED
    BY <1>1, <2>1, <2>2
<1>4. LinkAccepted(b, l, v, x)
  BY DEF Bind
<1>5. ConfirmedLinksCurrent'
  <2> SUFFICES ASSUME NEW k \in Links, IsLink(links'[k]), links'[k].exclusive, links'[k].exact
               PROVE  /\ cache'[links'[k].version] = "current"
                      /\ links'[k].revision = collab'[links'[k].binding]
    BY DEF ConfirmedLinksCurrent
  <2>1. CASE k = l
    BY <1>1, <1>3, <1>4, <2>1 DEF LinkAccepted
  <2>2. CASE k # l
    BY <1>1, <1>3, <2>2 DEF Backed, ConfirmedLinksCurrent
  <2> QED
    BY <2>1, <2>2
<1>6. HostedAuthorityJustified'
  <2> SUFFICES ASSUME NEW a \in Bindings, authority'[a].kind = "hosted"
               PROVE  /\ authority'[a].link \in Links
                      /\ IsLink(links'[authority'[a].link])
                      /\ links'[authority'[a].link].binding = a
                      /\ links'[authority'[a].link].version = authority'[a].version
                      /\ links'[authority'[a].link].exclusive
                      /\ links'[authority'[a].link].exact
    BY DEF HostedAuthorityJustified
  <2>1. authority \in [Bindings -> Authority]
    BY DEF ChangeTypeOK
  <2>2. CASE a # b
    <3>1. authority'[a] = authority[a]
      BY <2>1, <2>2 DEF Bind
    <3>2. authority[a].link # l
      BY <1>4, <2>2, <3>1 DEF LinkAccepted, Backed, HostedAuthorityJustified
    <3> QED
      BY <1>3, <3>1, <3>2 DEF Backed, HostedAuthorityJustified
  <2>3. CASE a = b /\ x
    <3>1. authority'[a] = Hosted(l, v)
      BY <2>1, <2>3 DEF Bind
    <3> QED
      BY <1>2, <1>3, <2>3, <3>1 DEF Hosted
  <2>4. CASE a = b /\ ~x
    <3>1. authority'[a] = authority[a] /\ ~(IsLink(links[l]) /\ SelectedBy(b, l))
      BY <2>1, <2>4 DEF Bind, Demoted, NoAuthority
    <3>2. authority[a].link # l
      BY <2>4, <3>1 DEF SelectedBy, Backed, HostedAuthorityJustified
    <3> QED
      BY <1>3, <3>1, <3>2 DEF Backed, HostedAuthorityJustified
  <2> QED
    BY <2>2, <2>3, <2>4
<1> QED
  BY <1>1, <1>5, <1>6 DEF Backed, CacheHeadAgrees

\* A removed link takes the authority it gave, and only that.
LEMMA DeleteLinkBacked ==
    ASSUME ChangeTypeOK, Backed, NEW l \in Links, DeleteLink(l)
    PROVE  Backed'
<1>1. /\ links' = [links EXCEPT ![l] = Deleted]
      /\ collab' = collab /\ cache' = cache /\ head' = head
  BY DEF DeleteLink, cacheVars
<1>2. /\ \A k \in Links : k # l => links'[k] = links[k]
      /\ ~IsLink(links'[l])
  BY <1>1 DEF ChangeTypeOK, IsLink
<1>3. ConfirmedLinksCurrent'
  BY <1>1, <1>2 DEF Backed, ConfirmedLinksCurrent
<1>4. HostedAuthorityJustified'
  <2> SUFFICES ASSUME NEW b \in Bindings, authority'[b].kind = "hosted"
               PROVE  /\ authority'[b].link \in Links
                      /\ IsLink(links'[authority'[b].link])
                      /\ links'[authority'[b].link].binding = b
                      /\ links'[authority'[b].link].version = authority'[b].version
                      /\ links'[authority'[b].link].exclusive
                      /\ links'[authority'[b].link].exact
    BY DEF HostedAuthorityJustified
  <2>1. authority'[b] = authority[b] /\ ~(links[l].binding = b /\ SelectedBy(b, l))
    BY DEF DeleteLink, Demoted, NoAuthority
  <2>2. authority[b].link # l
    BY <2>1 DEF SelectedBy, Backed, HostedAuthorityJustified
  <2> QED
    BY <1>2, <2>1, <2>2 DEF Backed, HostedAuthorityJustified
<1> QED
  BY <1>1, <1>3, <1>4 DEF Backed, CacheHeadAgrees

\* A new collaboration graph takes the confirmations that named another, and their
\* authority.
LEMMA ReplaceGraphBacked ==
    ASSUME ChangeTypeOK, Backed, NEW b \in Bindings, ReplaceGraph(b)
    PROVE  Backed'
<1>1. /\ collab' = [collab EXCEPT ![b] = @ + 1]
      /\ cache' = cache /\ head' = head
  BY DEF ReplaceGraph, cacheVars
<1>2. /\ collab'[b] # collab[b]
      /\ \A a \in Bindings : a # b => collab'[a] = collab[a]
  BY <1>1 DEF ChangeTypeOK
<1>3. \A l \in Links :
         \/ links'[l] = links[l] /\ (IsLink(links[l]) /\ links[l].exclusive /\ links[l].binding = b
                                       => links[l].revision = collab'[b])
         \/ /\ IsLink(links[l]) /\ links[l].binding = b
            /\ links'[l] = [links[l] EXCEPT !.exact = FALSE]
  BY DEF ReplaceGraph
<1>4. \A l \in Links : IsLink(links'[l]) /\ links'[l].exact => links'[l] = links[l]
  BY <1>3, LinkIsRecord DEF LinkRecord
<1>5. ConfirmedLinksCurrent'
  <2> SUFFICES ASSUME NEW l \in Links, IsLink(links'[l]), links'[l].exclusive, links'[l].exact
               PROVE  /\ cache'[links'[l].version] = "current"
                      /\ links'[l].revision = collab'[links'[l].binding]
    BY DEF ConfirmedLinksCurrent
  <2>1. links'[l] = links[l] /\ links[l] \in LinkRecord
    BY <1>4, LinkIsRecord
  <2>2. cache[links[l].version] = "current" /\ links[l].revision = collab[links[l].binding]
    BY <2>1 DEF Backed, ConfirmedLinksCurrent
  <2>3. CASE links[l].binding = b
    <3>1. links[l].revision = collab'[b]
      BY <1>3, <2>1, <2>3 DEF LinkRecord
    <3> QED
      BY <1>1, <2>1, <2>2, <2>3, <3>1
  <2>4. CASE links[l].binding # b
    BY <1>1, <1>2, <2>1, <2>2, <2>4 DEF LinkRecord
  <2> QED
    BY <2>3, <2>4
<1>6. HostedAuthorityJustified'
  <2> SUFFICES ASSUME NEW a \in Bindings, authority'[a].kind = "hosted"
               PROVE  /\ authority'[a].link \in Links
                      /\ IsLink(links'[authority'[a].link])
                      /\ links'[authority'[a].link].binding = a
                      /\ links'[authority'[a].link].version = authority'[a].version
                      /\ links'[authority'[a].link].exclusive
                      /\ links'[authority'[a].link].exact
    BY DEF HostedAuthorityJustified
  <2>1. authority'[a] = authority[a]
    BY DEF ReplaceGraph, Demoted, NoAuthority, ChangeTypeOK
  <2> DEFINE l == authority[a].link
  <2>2. /\ l \in Links /\ IsLink(links[l]) /\ links[l].binding = a
        /\ links[l].version = authority[a].version
        /\ links[l].exclusive /\ links[l].exact
    BY <2>1 DEF Backed, HostedAuthorityJustified
  <2>3. links[l].revision = collab[a]
    BY <2>2 DEF Backed, ConfirmedLinksCurrent
  <2>4. a # b
    <3> SUFFICES ASSUME a = b
                 PROVE  FALSE
      OBVIOUS
    <3>1. links[l].revision # collab'[b]
      BY <1>2, <2>3
    <3>2. SelectedBy(b, l)
      BY <2>1 DEF SelectedBy
    <3>3. authority'[b] = Demoted
      BY <2>2, <3>1, <3>2 DEF ReplaceGraph, ChangeTypeOK
    <3> QED
      BY <3>3 DEF Demoted, NoAuthority
  <2>5. links'[l] = links[l]
    BY <1>3, <2>2, <2>4
  <2> QED
    BY <2>1, <2>2, <2>5
<1> QED
  BY <1>1, <1>5, <1>6 DEF Backed, CacheHeadAgrees

\* The created row has no authority.
LEMMA CreateEvidenceBacked ==
    ASSUME ChangeTypeOK, Backed, NEW b \in Bindings, CreateEvidence(b)
    PROVE  Backed'
<1>1. UNCHANGED <<links, collab, cache, head>>
  BY DEF CreateEvidence, cacheVars
<1>2. \A a \in Bindings : authority'[a].kind = "hosted" => authority'[a] = authority[a]
  BY DEF CreateEvidence, NoAuthority, ChangeTypeOK
<1> QED
  BY <1>1, <1>2 DEF Backed, CacheHeadAgrees, ConfirmedLinksCurrent, HostedAuthorityJustified

\* Every step keeps what the authority rests on.
LEMMA BackedNext == ChangeTypeOK /\ Backed /\ [ChangeNext]_changeVars => Backed'
<1> SUFFICES ASSUME ChangeTypeOK, Backed, [ChangeNext]_changeVars
             PROVE  Backed'
  OBVIOUS
<1>1. CASE Push
  BY <1>1, BackedUnchanged DEF Push, cacheVars
<1>2. ASSUME NEW want \in Versions \cup {None}, StartSync(want)
      PROVE  Backed'
  BY <1>2, BackedUnchanged DEF StartSync, cacheVars
<1>3. ASSUME NEW s \in syncs, FetchSnapshot(s) \/ SyncFails(s)
      PROVE  Backed'
  BY <1>3, BackedUnchanged DEF FetchSnapshot, SyncFails, cacheVars
<1>4. ASSUME NEW s \in syncs, StoreSnapshot(s)
      PROVE  Backed'
  BY <1>4, StoreSnapshotBacked
<1>5. ASSUME NEW v \in Versions, DeleteContent(v)
      PROVE  Backed'
  BY <1>5, DeleteContentBacked
<1>6. ASSUME NEW b \in Bindings, ReadGraph(b) \/ BindFails(b)
      PROVE  Backed'
  BY <1>6, BackedUnchanged DEF ReadGraph, BindFails, cacheVars
<1>7. ASSUME NEW b \in Bindings, NEW l \in Links, NEW v \in Versions, NEW x \in BOOLEAN,
             Bind(b, l, v, x)
      PROVE  Backed'
  BY <1>7, BindBacked
<1>8. ASSUME NEW l \in Links, DeleteLink(l)
      PROVE  Backed'
  BY <1>8, DeleteLinkBacked
<1>9. ASSUME NEW b \in Bindings, ReplaceGraph(b)
      PROVE  Backed'
  BY <1>9, ReplaceGraphBacked
<1>10. ASSUME NEW b \in Bindings, CreateEvidence(b)
       PROVE  Backed'
  BY <1>10, CreateEvidenceBacked
<1>11. CASE UNCHANGED changeVars
  BY <1>11, BackedUnchanged DEF changeVars
<1> QED
  BY <1>1, <1>2, <1>3, <1>4, <1>5, <1>6, <1>7, <1>8, <1>9, <1>10, <1>11
     DEF ChangeNext, Synchronise, Associate

\* The three invariants hold together.
LEMMA ChangeBacked == ChangeSpec => []Backed
<1>1. ChangeInit => ChangeTypeOK /\ Backed
  BY ChangeInitTypeOK, BackedInit
<1>2. ChangeTypeOK /\ Backed /\ [ChangeNext]_changeVars => (ChangeTypeOK /\ Backed)'
  BY ChangeNextTypeOK, BackedNext
<1> QED
  BY <1>1, <1>2, PTL DEF ChangeSpec

\* At most one version is served as current, and it is the head's.
THEOREM ChangeCacheHeadAgrees == ChangeSpec => []CacheHeadAgrees
<1>1. Backed => CacheHeadAgrees
  BY DEF Backed
<1> QED
  BY <1>1, ChangeBacked, PTL

\* A confirmation that counts rests on the current version and the current graph.
THEOREM ChangeConfirmedLinksCurrent == ChangeSpec => []ConfirmedLinksCurrent
<1>1. Backed => ConfirmedLinksCurrent
  BY DEF Backed
<1> QED
  BY <1>1, ChangeBacked, PTL

\* Published hosted authority is backed by a confirmation that counts.
THEOREM ChangeHostedAuthorityJustified == ChangeSpec => []HostedAuthorityJustified
<1>1. Backed => HostedAuthorityJustified
  BY DEF Backed
<1> QED
  BY <1>1, ChangeBacked, PTL

-----------------------------------------------------------------------------
(* The order of arrival.  A start time belongs to one request, a request   *)
(* answers once, and the cache keeps the latest start it has committed.    *)

StartsAreUnique ==
    /\ \A s \in syncs : s.start <= clock
    /\ \A r \in responses : r.start <= clock
    /\ \A s, t \in syncs : s.start = t.start => s = t
    /\ \A s \in syncs, r \in responses : s.start # r.start

HeadIsLatest ==
    /\ head.version = None => head.sync = 0
    /\ head.sync # 0 => \E r \in responses : r.current /\ r.start = head.sync
    /\ \A r \in responses : r.current =>
          r.start <= head.sync /\ (r.start = head.sync => r.version = head.version)

SnapshotIsLatest ==
    \A v \in Versions :
       /\ cache[v] = "absent" => snapshotSync[v] = 0
       /\ snapshotSync[v] # 0 => \E r \in responses : r.version = v /\ r.start = snapshotSync[v]
       /\ \A r \in responses : r.version = v => r.start <= snapshotSync[v]

Ordered == StartsAreUnique /\ HeadIsLatest /\ SnapshotIsLatest

\* The maximum of a set of numbers is the member that bounds the others.
LEMMA MaxIsBound ==
    ASSUME NEW S \in SUBSET Int, NEW m \in S, \A y \in S : y <= m
    PROVE  Max(S) = m
<1>1. \A y \in S : m >= y
  OBVIOUS
<1>2. Max(S) \in S /\ \A y \in S : Max(S) >= y
  BY <1>1 DEF Max
<1>3. Max(S) \in Int /\ m \in Int /\ Max(S) >= m /\ m >= Max(S)
  BY <1>1, <1>2
<1> QED
  BY <1>3

\* What the invariant says of heads and of the syncs of snapshots is what the property does.
LEMMA OrderedIsArrivalOrder == ChangeTypeOK /\ Ordered => ArrivalOrderIrrelevant
<1> SUFFICES ASSUME ChangeTypeOK, Ordered
             PROVE  ArrivalOrderIrrelevant
  OBVIOUS
<1> DEFINE current == {r \in responses : r.current}
           Of(v) == {r \in responses : r.version = v}
           Starts(R) == {0} \cup {r.start : r \in R}
<1>1. \A r \in responses : r.start \in 1 .. MaxSyncs
  BY DEF ChangeTypeOK
<1>2. head.sync \in 0 .. MaxSyncs /\ \A v \in Versions : snapshotSync[v] \in 0 .. MaxSyncs
  BY DEF ChangeTypeOK
<1>3. head.sync = Max(Starts(current))
  <2>1. Starts(current) \in SUBSET Int
    BY <1>1
  <2>2. head.sync \in Starts(current)
    BY DEF Ordered, HeadIsLatest
  <2>3. \A y \in Starts(current) : y <= head.sync
    BY <1>1, <1>2 DEF Ordered, HeadIsLatest
  <2> HIDE DEF Starts
  <2> QED
    BY <2>1, <2>2, <2>3, MaxIsBound
<1>4. ASSUME NEW v \in Versions
      PROVE  snapshotSync[v] = Max(Starts(Of(v)))
  <2>1. Starts(Of(v)) \in SUBSET Int
    BY <1>1
  <2>2. snapshotSync[v] \in Starts(Of(v))
    BY DEF Ordered, SnapshotIsLatest
  <2>3. \A y \in Starts(Of(v)) : y <= snapshotSync[v]
    BY <1>1, <1>2 DEF Ordered, SnapshotIsLatest
  <2> HIDE DEF Starts, Of
  <2> QED
    BY <2>1, <2>2, <2>3, MaxIsBound
<1>5. \A r \in current : r.start = head.sync => head.version = r.version
  BY DEF Ordered, HeadIsLatest
<1> QED
  BY <1>3, <1>4, <1>5 DEF ArrivalOrderIrrelevant

\* No request has started, no response was committed.
LEMMA OrderedInit == ChangeInit => Ordered
BY DEF ChangeInit, Ordered, StartsAreUnique, HeadIsLatest, SnapshotIsLatest

\* A committed response keeps the order whatever was committed before it.
LEMMA StoreSnapshotOrdered ==
    ASSUME ChangeTypeOK, Ordered, NEW s \in syncs, StoreSnapshot(s)
    PROVE  Ordered'
<1> DEFINE new == [start |-> s.start, version |-> s.got, current |-> s.want = None]
<1>1. /\ s.got \in Versions /\ None \notin Versions
      /\ s.start \in 1 .. MaxSyncs /\ clock \in 0 .. MaxSyncs
  BY ChangeAssumption DEF StoreSnapshot, ChangeTypeOK, Sync
<1>2. /\ syncs' = syncs \ {s} /\ clock' = clock
      /\ responses' = responses \cup {new}
      /\ head' = NewHead(s) /\ cache' = NewCache(s)
  BY DEF StoreSnapshot
<1>3. \A r \in responses : r.start \in 1 .. MaxSyncs
  BY DEF ChangeTypeOK
<1>4. \A r \in responses : r.start # s.start
  BY DEF Ordered, StartsAreUnique
<1>5. /\ head \in [version : Versions \cup {None}, sync : 0 .. MaxSyncs, fresh : BOOLEAN]
      /\ snapshotSync \in [Versions -> 0 .. MaxSyncs]
  BY DEF ChangeTypeOK
<1>6. StartsAreUnique'
  BY <1>2 DEF Ordered, StartsAreUnique
<1>7. HeadIsLatest'
  <2>1. CASE PromoteCacheHead(s)
    <3>1. head'.version = s.got /\ head'.sync = s.start
      BY <1>2, <2>1 DEF NewHead
    <3>2. \A r \in responses : r.current => r.start < s.start
      <4> SUFFICES ASSUME NEW r \in responses, r.current
                   PROVE  r.start < s.start
        OBVIOUS
      <4>1. r.start <= head.sync
        BY DEF Ordered, HeadIsLatest
      <4>2. head.version = None => head.sync = 0
        BY DEF Ordered, HeadIsLatest
      <4> QED
        BY <1>1, <1>3, <1>5, <2>1, <4>1, <4>2 DEF PromoteCacheHead
    <3>3. new \in responses' /\ new.current
      BY <1>2, <2>1 DEF PromoteCacheHead
    <3>4. head'.version # None /\ \E r \in responses' : r.current /\ r.start = head'.sync
      BY <1>1, <3>1, <3>3
    <3>5. ASSUME NEW r \in responses', r.current
          PROVE  r.start <= head'.sync /\ (r.start = head'.sync => r.version = head'.version)
      <4>1. CASE r = new
        BY <1>1, <3>1, <4>1
      <4>2. CASE r \in responses
        BY <1>1, <1>3, <3>1, <3>2, <3>5, <4>2
      <4> QED
        BY <1>2, <4>1, <4>2
    <3> QED
      BY <3>4, <3>5 DEF HeadIsLatest
  <2>2. CASE ~PromoteCacheHead(s)
    <3>1. head'.version = head.version /\ head'.sync = head.sync
      BY <1>2, <1>5, <2>2 DEF NewHead
    <3>2. s.want = None => head.version # None /\ s.start <= head.sync
      <4>1. head.sync \in 0 .. MaxSyncs /\ s.start \in Int
        BY <1>1, <1>5
      <4> QED
        BY <2>2, <4>1 DEF PromoteCacheHead
    <3>3. s.want = None => s.start # head.sync
      BY <1>1, <1>4, <3>2 DEF Ordered, HeadIsLatest
    <3>4. ASSUME NEW r \in responses', r.current
          PROVE  r.start <= head.sync /\ (r.start = head.sync => r.version = head.version)
      <4>1. CASE r = new
        BY <3>2, <3>3, <3>4, <4>1
      <4>2. CASE r \in responses
        BY <3>4, <4>2 DEF Ordered, HeadIsLatest
      <4> QED
        BY <1>2, <4>1, <4>2
    <3>5. head.sync # 0 => \E r \in responses' : r.current /\ r.start = head.sync
      BY <1>2 DEF Ordered, HeadIsLatest
    <3>6. head.version = None => head.sync = 0
      BY DEF Ordered, HeadIsLatest
    <3> HIDE DEF new
    <3> QED
      BY <3>1, <3>4, <3>5, <3>6 DEF HeadIsLatest
  <2> QED
    BY <2>1, <2>2
<1>8. SnapshotIsLatest'
  <2> SUFFICES ASSUME NEW v \in Versions
               PROVE  /\ cache'[v] = "absent" => snapshotSync'[v] = 0
                      /\ snapshotSync'[v] # 0 =>
                            \E r \in responses' : r.version = v /\ r.start = snapshotSync'[v]
                      /\ \A r \in responses' : r.version = v => r.start <= snapshotSync'[v]
    BY DEF SnapshotIsLatest
  <2>1. CASE v # s.got
    <3>1. snapshotSync'[v] = snapshotSync[v]
      BY <1>5, <2>1 DEF StoreSnapshot
    <3>2. cache'[v] = "absent" => cache[v] = "absent"
      BY <1>2, <2>1 DEF NewCache
    <3> QED
      BY <1>2, <2>1, <3>1, <3>2 DEF Ordered, SnapshotIsLatest
  <2>2. CASE v = s.got /\ SnapshotFresh(s)
    <3>1. snapshotSync'[v] = s.start
      BY <1>5, <2>2 DEF StoreSnapshot
    <3>2. cache'[v] # "absent"
      BY <1>2, <2>2 DEF NewCache, OwnCacheState, DesiredCacheState
    <3>3. \A r \in responses : r.version = v => r.start <= s.start
      <4> SUFFICES ASSUME NEW r \in responses, r.version = v
                   PROVE  r.start <= s.start
        OBVIOUS
      <4>1. r.start <= snapshotSync[v] /\ (cache[v] = "absent" => snapshotSync[v] = 0)
        BY DEF Ordered, SnapshotIsLatest
      <4> QED
        BY <1>1, <1>3, <1>5, <2>2, <4>1 DEF SnapshotFresh, SnapshotExists
    <3>4. new \in responses' /\ new.version = v /\ new.start = snapshotSync'[v]
      BY <1>2, <2>2, <3>1
    <3>5. \A r \in responses' : r.version = v => r.start <= snapshotSync'[v]
      <4> SUFFICES ASSUME NEW r \in responses', r.version = v
                   PROVE  r.start <= s.start
        BY <3>1
      <4>1. CASE r = new
        BY <1>1, <4>1
      <4>2. CASE r \in responses
        BY <3>3, <4>2
      <4> QED
        BY <1>2, <4>1, <4>2
    <3> QED
      BY <3>2, <3>4, <3>5
  <2>3. CASE v = s.got /\ ~SnapshotFresh(s)
    <3>1. snapshotSync' = snapshotSync
      BY <2>3 DEF StoreSnapshot
    <3>2. cache[v] # "absent" /\ s.start <= snapshotSync[v]
      BY <1>1, <1>5, <2>3 DEF SnapshotFresh, SnapshotExists
    <3>3. cache'[v] # "absent"
      BY <1>2, <2>3, <3>2 DEF NewCache, OwnCacheState, DesiredCacheState
    <3>4. \A r \in responses' : r.version = v => r.start <= snapshotSync[v]
      BY <1>2, <3>2 DEF Ordered, SnapshotIsLatest
    <3> QED
      BY <1>2, <3>1, <3>3, <3>4 DEF Ordered, SnapshotIsLatest
  <2> QED
    BY <2>1, <2>2, <2>3
<1> QED
  BY <1>6, <1>7, <1>8 DEF Ordered

\* Every step keeps the order.
LEMMA OrderedNext == ChangeTypeOK /\ Ordered /\ [ChangeNext]_changeVars => Ordered'
<1> SUFFICES ASSUME ChangeTypeOK, Ordered, [ChangeNext]_changeVars
             PROVE  Ordered'
  OBVIOUS
<1>1. CASE UNCHANGED <<clock, syncs, cache, snapshotSync, head, responses>>
  BY <1>1 DEF Ordered, StartsAreUnique, HeadIsLatest, SnapshotIsLatest
<1>2. ASSUME NEW want \in Versions \cup {None}, StartSync(want)
      PROVE  Ordered'
  <2>1. clock \in Nat /\ clock' = clock + 1
    BY <1>2, ChangeAssumption DEF StartSync, ChangeTypeOK
  <2>2. /\ \A t \in syncs : t.start \in Nat
        /\ \A r \in responses : r.start \in Nat
    BY DEF ChangeTypeOK, Sync
  <2>3. StartsAreUnique'
    BY <1>2, <2>1, <2>2 DEF StartSync, cacheVars, Ordered, StartsAreUnique
  <2> QED
    BY <1>2, <2>3 DEF StartSync, cacheVars, Ordered, HeadIsLatest, SnapshotIsLatest
<1>3. ASSUME NEW s \in syncs, FetchSnapshot(s)
      PROVE  Ordered'
  <2>1. PICK got : syncs' = (syncs \ {s}) \cup {[s EXCEPT !.got = got]}
    BY <1>3 DEF FetchSnapshot
  <2>2. s \in Sync
    BY DEF ChangeTypeOK
  <2>3. [s EXCEPT !.got = got].start = s.start
    BY <2>2 DEF Sync
  <2>4. StartsAreUnique'
    BY <1>3, <2>1, <2>3 DEF FetchSnapshot, cacheVars, Ordered, StartsAreUnique
  <2> QED
    BY <1>3, <2>4 DEF FetchSnapshot, cacheVars, Ordered, HeadIsLatest, SnapshotIsLatest
<1>4. ASSUME NEW s \in syncs, SyncFails(s)
      PROVE  Ordered'
  BY <1>4 DEF SyncFails, cacheVars, Ordered, StartsAreUnique, HeadIsLatest, SnapshotIsLatest
<1>5. ASSUME NEW s \in syncs, StoreSnapshot(s)
      PROVE  Ordered'
  BY <1>5, StoreSnapshotOrdered
<1>6. ASSUME NEW v \in Versions, DeleteContent(v)
      PROVE  Ordered'
  <2>1. /\ UNCHANGED <<clock, syncs, snapshotSync, responses>>
        /\ head'.version = head.version /\ head'.sync = head.sync
    BY <1>6 DEF DeleteContent, ChangeTypeOK
  <2>2. \A w \in Versions : cache'[w] = "absent" => cache[w] = "absent"
    BY <1>6 DEF DeleteContent, ChangeTypeOK
  <2> QED
    BY <2>1, <2>2 DEF Ordered, StartsAreUnique, HeadIsLatest, SnapshotIsLatest
<1> QED
  BY <1>1, <1>2, <1>3, <1>4, <1>5, <1>6
     DEF ChangeNext, Synchronise, Associate, changeVars, cacheVars,
         Push, ReadGraph, BindFails, Bind, DeleteLink, ReplaceGraph, CreateEvidence

\* However many synchronisations overlap and in whatever order their responses are
\* committed, the cache ends where the latest request put it.
THEOREM ChangeArrivalOrderIrrelevant == ChangeSpec => []ArrivalOrderIrrelevant
<1>1. ChangeInit => ChangeTypeOK /\ Ordered
  BY ChangeInitTypeOK, OrderedInit
<1>2. ChangeTypeOK /\ Ordered /\ [ChangeNext]_changeVars => (ChangeTypeOK /\ Ordered)'
  BY ChangeNextTypeOK, OrderedNext
<1>3. ChangeTypeOK /\ Ordered => ArrivalOrderIrrelevant
  BY OrderedIsArrivalOrder
<1> QED
  BY <1>1, <1>2, <1>3, PTL DEF ChangeSpec

=============================================================================
