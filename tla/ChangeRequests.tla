--------------------------- MODULE ChangeRequests ---------------------------
(***************************************************************************)
(* The hosted-change cache and the links between sessions and one hosted   *)
(* Change Request (internal/db/change_request_store.go,                    *)
(* change_request_link_store.go, source_content_store.go), with the        *)
(* provider synchronisation of internal/changehost/sync.go.                *)
(*                                                                         *)
(* One Change Request has content versions.  A synchronisation takes a     *)
(* start time, talks to the host for as long as it likes and then commits  *)
(* one transaction; several of them overlap and answer in any order.  A    *)
(* user ties a session's repository binding to one version by a link; an   *)
(* exclusive link is a confirmation and hands the binding's published      *)
(* authority to the hosted change until something makes the confirmation   *)
(* stale.                                                                  *)
(***************************************************************************)
EXTENDS Naturals, FiniteSets, FiniteSetsExt

CONSTANTS Versions,     \* content versions of the change
          None,         \* no version: nothing asked for, nothing answered
          Bindings,     \* repository bindings, each of one session root
          Links,        \* link identifiers, never issued twice
          NoLink,       \* the value of a link that was not yet created
          Deleted,      \* and of one that was removed
          MaxSyncs,     \* bound on started synchronisations
          MaxPushes,    \* bound on changes of the version at the host
          MaxRevision   \* bound on collaboration graph revisions

VARIABLES
    hostVersion,   \* the version the host serves as current
    pushes,        \* how often it changed
    clock,         \* start time of the last synchronisation
    syncs,         \* requests in flight: [start, want, got]
    cache,         \* change_request_snapshots.cache_state, or "absent"
    snapshotSync,  \* change_request_snapshot_syncs, 0 for no row
    head,          \* change_request_cache_heads and change_request_sync_heads
    links,         \* session_change_requests
    collab,        \* collaboration_roots.revision of the binding's session
    binding,       \* requests to bind: the graph revision they have read
    authority,     \* session_git_evidence: the authority columns
    responses      \* history: the responses that were committed

hostVars == <<hostVersion, pushes>>
cacheVars == <<cache, snapshotSync, head, responses>>
changeVars == <<hostVersion, pushes, clock, syncs, cache, snapshotSync, head,
                links, collab, binding, authority, responses>>

IsLink(x) == x \notin {NoLink, Deleted}
LinkRecord == [binding : Bindings, version : Versions, exclusive : BOOLEAN,
               exact : BOOLEAN, revision : 0 .. MaxRevision]

ASSUME ChangeAssumption ==
    /\ None \notin Versions
    /\ NoLink \notin Links
    /\ \A x \in LinkRecord : IsLink(x)
    /\ MaxSyncs \in Nat /\ MaxPushes \in Nat /\ MaxRevision \in Nat \ {0}

Authority == [kind : {"absent", "none", "local", "hosted"},
              link : Links \cup {NoLink}, version : Versions \cup {None},
              stale : BOOLEAN]
Sync == [start : 1 .. MaxSyncs, want : Versions \cup {None},
         got : Versions \cup {None}]

NoAuthority == [kind |-> "none", link |-> NoLink, version |-> None, stale |-> FALSE]
Demoted == [NoAuthority EXCEPT !.stale = TRUE]
Hosted(l, v) == [kind |-> "hosted", link |-> l, version |-> v, stale |-> FALSE]

\* The columns of the cache, the links and the authority, and the requests in flight.
ChangeTypeOK ==
    /\ hostVersion \in Versions
    /\ pushes \in 0 .. MaxPushes
    /\ clock \in 0 .. MaxSyncs
    /\ syncs \subseteq Sync
    /\ cache \in [Versions -> {"absent", "current", "stale", "content_deleted"}]
    /\ snapshotSync \in [Versions -> 0 .. MaxSyncs]
    /\ head \in [version : Versions \cup {None}, sync : 0 .. MaxSyncs, fresh : BOOLEAN]
    /\ links \in [Links -> LinkRecord \cup {NoLink, Deleted}]
    /\ collab \in [Bindings -> 1 .. MaxRevision]
    /\ binding \in [Bindings -> 0 .. MaxRevision]
    /\ authority \in [Bindings -> Authority]
    /\ responses \subseteq [start : 1 .. MaxSyncs, version : Versions, current : BOOLEAN]

ChangeInit ==
    /\ hostVersion \in Versions
    /\ pushes = 0
    /\ clock = 0
    /\ syncs = {}
    /\ cache = [v \in Versions |-> "absent"]
    /\ snapshotSync = [v \in Versions |-> 0]
    /\ head = [version |-> None, sync |-> 0, fresh |-> FALSE]
    /\ links = [l \in Links |-> NoLink]
    /\ collab = [b \in Bindings |-> 1]
    /\ binding = [b \in Bindings |-> 0]
    /\ authority = [b \in Bindings |-> [NoAuthority EXCEPT !.kind = "absent"]]
    /\ responses = {}

-----------------------------------------------------------------------------
(* The host and the synchronisation requests.                              *)

\* The author pushes, or moves the head back to an earlier version.
Push ==
    /\ pushes < MaxPushes
    /\ hostVersion' \in Versions \ {hostVersion}
    /\ pushes' = pushes + 1
    /\ UNCHANGED <<clock, syncs, cacheVars, links, collab, binding, authority>>

\* want = None asks for the current version, the only form that may move the
\* cache head.
StartSync(want) ==
    /\ clock < MaxSyncs
    /\ clock' = clock + 1
    /\ syncs' = syncs \cup {[start |-> clock + 1, want |-> want, got |-> None]}
    /\ UNCHANGED <<hostVars, cacheVars, links, collab, binding, authority>>

FetchSnapshot(s) ==
    /\ s.got = None
    /\ syncs' = (syncs \ {s}) \cup
                {[s EXCEPT !.got = IF s.want = None THEN hostVersion ELSE s.want]}
    /\ UNCHANGED <<hostVars, clock, cacheVars, links, collab, binding, authority>>

\* A provider error, a cancelled context, or a transaction rolled back because
\* of the content quota.
SyncFails(s) ==
    /\ syncs' = syncs \ {s}
    /\ UNCHANGED <<hostVars, clock, cacheVars, links, collab, binding, authority>>

-----------------------------------------------------------------------------
(* StoreChangeRequestSnapshot, one transaction.                            *)

SnapshotExists(v) == cache[v] # "absent"
SnapshotFresh(s) == ~SnapshotExists(s.got) \/ s.start > snapshotSync[s.got]
\* Seeded fault: the response that arrives last wins.
PromoteInArrivalOrder(s) == s.want = None

PromoteCacheHead(s) == s.want = None /\ (head.version = None \/ s.start > head.sync)

DesiredCacheState(s) ==
    IF head.version = s.got THEN "current" ELSE "stale"

\* The snapshot's own row: inserted, refreshed by a later request, or restored
\* because its content was deleted.
OwnCacheState(s) ==
    IF SnapshotFresh(s) \/ cache[s.got] = "content_deleted"
    THEN DesiredCacheState(s)
    ELSE cache[s.got]

\* Seeded fault: the version that loses the head stays current.
NewCacheKeepsOthers(s) ==
    [cache EXCEPT ![s.got] = IF PromoteCacheHead(s) THEN "current" ELSE OwnCacheState(s)]

NewCache(s) ==
    [v \in Versions |->
        CASE v = s.got /\ PromoteCacheHead(s) -> "current"
          [] v = s.got /\ ~PromoteCacheHead(s) -> OwnCacheState(s)
          [] v # s.got /\ PromoteCacheHead(s) /\ cache[v] = "current" -> "stale"
          [] OTHER -> cache[v]]

NewHead(s) ==
    IF PromoteCacheHead(s)
    THEN [version |-> s.got, sync |-> s.start, fresh |-> TRUE]
    ELSE [head EXCEPT !.fresh = @ \/ ( /\ head.version = s.got
                                       /\ cache[s.got] = "content_deleted")]

\* A moved head leaves the exclusive links of other versions pending ...
HeadMoves(s) == PromoteCacheHead(s) /\ head.version \notin {None, s.got}
PendingElsewhere(s) ==
    [l \in Links |->
        IF HeadMoves(s) /\ IsLink(links[l]) /\ links[l].exclusive /\ links[l].version # s.got
        THEN [links[l] EXCEPT !.exact = FALSE]
        ELSE links[l]]

\* Seeded fault: the comparison with the new head is the wrong way round.
SelectsSame(b, v) ==
    authority[b].kind = "hosted" /\ authority[b].version = v

\* ... and takes the authority of the bindings that had selected one of them.
SelectsOther(b, v) ==
    /\ authority[b].kind = "hosted"
    /\ \E l \in Links :
          /\ IsLink(links[l]) /\ links[l].binding = b /\ links[l].exclusive
          /\ links[l].version # v
          /\ links[l].version = authority[b].version
          /\ l = authority[b].link

StoreSnapshot(s) ==
    /\ s.got # None
    /\ syncs' = syncs \ {s}
    /\ cache' = NewCache(s)
    /\ snapshotSync' = IF SnapshotFresh(s) THEN [snapshotSync EXCEPT ![s.got] = s.start]
                                           ELSE snapshotSync
    /\ head' = NewHead(s)
    /\ links' = PendingElsewhere(s)
    /\ authority' = [b \in Bindings |-> IF HeadMoves(s) /\ SelectsOther(b, s.got)
                                        THEN Demoted ELSE authority[b]]
    /\ responses' = responses \cup
                    {[start |-> s.start, version |-> s.got, current |-> s.want = None]}
    /\ UNCHANGED <<hostVars, clock, collab, binding>>

\* DeleteSourceContentRef of a hosted snapshot: its retained bytes go, and with
\* them every confirmation that rested on them.
DeleteContent(v) ==
    /\ cache[v] \in {"current", "stale"}
    /\ cache' = [cache EXCEPT ![v] = "content_deleted"]
    /\ head' = IF head.version = v THEN [head EXCEPT !.fresh = FALSE] ELSE head
    /\ links' = [l \in Links |-> IF IsLink(links[l]) /\ links[l].exclusive /\ links[l].version = v
                                 THEN [links[l] EXCEPT !.exact = FALSE] ELSE links[l]]
    /\ authority' = [b \in Bindings |-> IF authority[b].kind = "hosted" /\ authority[b].version = v
                                        THEN Demoted ELSE authority[b]]
    /\ UNCHANGED <<hostVars, clock, syncs, snapshotSync, responses, collab, binding>>

-----------------------------------------------------------------------------
(* Links.                                                                  *)

SelectedBy(b, l) == authority[b].kind = "hosted" /\ authority[b].link = l

\* handleBindSessionChangeRequest reads the stored graph's revision first ...
ReadGraph(b) ==
    /\ binding[b] = 0
    /\ binding' = [binding EXCEPT ![b] = collab[b]]
    /\ UNCHANGED <<hostVars, clock, syncs, cacheVars, links, collab, authority>>

\* The two partial unique indexes on exclusive links.
ExclusiveIsFree(b, l, v) ==
    \A k \in Links \ {l} : IsLink(links[k]) /\ links[k].exclusive
                               => links[k].binding # b /\ links[k].version # v

\* Seeded fault: the transaction trusts the graph revision the handler read.
LinkAcceptedUnchecked(b, l, v, exclusive) ==
    /\ links[l] # Deleted
    /\ IsLink(links[l]) => links[l].binding = b
    /\ binding[b] # 0
    /\ authority[b].kind # "absent"
    /\ SnapshotExists(v)
    /\ exclusive => cache[v] = "current" /\ ExclusiveIsFree(b, l, v)

\* The entry a link names, exclusive or not, has to exist; the indexer writes it and
\* its evidence in one transaction. (A link may also name no entry: it selects none.)
LinkAccepted(b, l, v, exclusive) ==
    /\ links[l] # Deleted
    /\ IsLink(links[l]) => links[l].binding = b
    /\ binding[b] = collab[b]
    /\ authority[b].kind # "absent"
    /\ SnapshotExists(v)
    /\ exclusive => cache[v] = "current" /\ ExclusiveIsFree(b, l, v)

\* ... and StoreSessionChangeRequestLink checks it again inside its
\* transaction, writes the link and selects it when it is exclusive.
Bind(b, l, v, exclusive) ==
    /\ LinkAccepted(b, l, v, exclusive)
    /\ links' = [links EXCEPT ![l] = [binding |-> b, version |-> v, exclusive |-> exclusive,
                                      exact |-> TRUE, revision |-> binding[b]]]
    /\ authority' = [authority EXCEPT ![b] =
                        CASE exclusive -> Hosted(l, v)
                          [] ~exclusive /\ IsLink(links[l]) /\ SelectedBy(b, l)
                               -> Demoted
                          [] OTHER -> @]
    /\ binding' = [binding EXCEPT ![b] = 0]
    /\ UNCHANGED <<hostVars, clock, syncs, cacheVars, collab>>

\* A refused or abandoned bind request changes nothing.
BindFails(b) ==
    /\ binding[b] # 0
    /\ binding' = [binding EXCEPT ![b] = 0]
    /\ UNCHANGED <<hostVars, clock, syncs, cacheVars, links, collab, authority>>

DeleteLink(l) ==
    /\ IsLink(links[l])
    /\ links' = [links EXCEPT ![l] = Deleted]
    /\ authority' = [b \in Bindings |-> IF links[l].binding = b /\ SelectedBy(b, l)
                                        THEN Demoted ELSE authority[b]]
    /\ UNCHANGED <<hostVars, clock, syncs, cacheVars, collab, binding>>

\* ReplaceCollaborationGraph with a new revision: a confirmation names the
\* graph the user saw.
ReplaceGraph(b) ==
    /\ collab[b] < MaxRevision
    /\ collab' = [collab EXCEPT ![b] = @ + 1]
    /\ authority' = [authority EXCEPT ![b] =
                        IF \E l \in Links : /\ IsLink(links[l]) /\ links[l].binding = b
                                            /\ links[l].exclusive
                                            /\ links[l].revision # collab'[b]
                                            /\ links[l].version = authority[b].version
                                            /\ SelectedBy(b, l)
                        THEN Demoted ELSE @]
    /\ links' = [l \in Links |-> IF /\ IsLink(links[l]) /\ links[l].binding = b
                                    /\ links[l].exclusive /\ links[l].revision # collab'[b]
                                 THEN [links[l] EXCEPT !.exact = FALSE] ELSE links[l]]
    /\ UNCHANGED <<hostVars, clock, syncs, cacheVars, binding>>

Synchronise ==
    \/ Push
    \/ \E want \in Versions \cup {None} : StartSync(want)
    \/ \E s \in syncs : FetchSnapshot(s) \/ SyncFails(s) \/ StoreSnapshot(s)
    \/ \E v \in Versions : DeleteContent(v)

Associate ==
    \/ \E b \in Bindings : ReadGraph(b) \/ BindFails(b)
    \/ \E b \in Bindings, l \in Links, v \in Versions, x \in BOOLEAN : Bind(b, l, v, x)
    \/ \E l \in Links : DeleteLink(l)

\* The indexer creates the evidence row of a binding; what it does to the row
\* afterwards is in module GitEvidence.
CreateEvidence(b) ==
    /\ authority[b].kind = "absent"
    /\ authority' = [authority EXCEPT ![b] = NoAuthority]
    /\ UNCHANGED <<hostVars, clock, syncs, cacheVars, links, collab, binding>>

ChangeNext ==
    \/ Synchronise
    \/ Associate
    \/ \E b \in Bindings : ReplaceGraph(b) \/ CreateEvidence(b)

ChangeSpec == ChangeInit /\ [][ChangeNext]_changeVars

-----------------------------------------------------------------------------
(* Properties.                                                             *)

\* At most one version is served as current, it is the version of the cache
\* head, and a head that is marked current has its content
\* (change_request_store.go, the cache_state rules of one transaction, and
\* invalidateHostedSnapshotContent).
CacheHeadAgrees ==
    /\ \A v \in Versions : cache[v] = "current" => head.version = v
    /\ head.fresh => cache[head.version] = "current"

\* The cache does not depend on the order in which responses arrive: the head
\* is the version of the latest-started current request that was committed,
\* and a version's metadata is that of the latest-started request for it
\* ("cannot be rolled back by a late response").
ArrivalOrderIrrelevant ==
    LET current == {r \in responses : r.current}
        of(v) == {r \in responses : r.version = v}
        latest(R) == Max({0} \cup {r.start : r \in R})
    IN /\ head.sync = latest(current)
       /\ \A r \in current : r.start = head.sync => head.version = r.version
       /\ \A v \in Versions : snapshotSync[v] = latest(of(v))

\* A confirmation that still counts rests on the current version of the change
\* and on the current collaboration graph of its session: every write that
\* moves one of them demotes the confirmations it leaves behind, whatever
\* request is in flight.
ConfirmedLinksCurrent ==
    \A l \in Links : IsLink(links[l]) /\ links[l].exclusive /\ links[l].exact =>
        /\ cache[links[l].version] = "current"
        /\ links[l].revision = collab[links[l].binding]

\* Published hosted authority is always backed by a confirmation that still
\* counts, of the same binding and the same version.
HostedAuthorityJustified ==
    \A b \in Bindings : authority[b].kind = "hosted" =>
        /\ authority[b].link \in Links
        /\ IsLink(links[authority[b].link])
        /\ links[authority[b].link].binding = b
        /\ links[authority[b].link].version = authority[b].version
        /\ links[authority[b].link].exclusive
        /\ links[authority[b].link].exact

=============================================================================
