------------------------ MODULE CollaborationGraph ------------------------
(***************************************************************************)
(* Validate of internal/collaboration/validate.go: the loop over the       *)
(* delegations of one collaboration graph that derives the canonical       *)
(* parent of every invocation.  The loop's maps are the state; a step is   *)
(* one iteration.  The graph comes from a parser and may be anything:      *)
(* delegations between missing invocations, in circles, into the root, or  *)
(* with the same identifier twice.  Findings about single fields are data. *)
(***************************************************************************)
EXTENDS Naturals, Sequences, FiniteSets

CONSTANTS Names,           \* invocation identifiers; their order is that of the strings
          Ids,             \* delegation identifiers, likewise
          None,            \* the empty string
          MaxDelegations   \* bound on the delegations of the graph

\* Identifiers are ordered, and the empty string is none.
ASSUME GraphAssumption ==
    /\ Names \subseteq Nat
    /\ Ids \subseteq Nat
    /\ None \notin Names
    /\ MaxDelegations \in Nat

VARIABLES
    invocations,   \* invByID: the invocations the graph has
    root,          \* RootID, None for a graph without its root
    delegations,   \* sorted
    next,          \* the delegation the loop is at
    up,            \* parentChain
    canonical,     \* CanonicalParent: the delegation that says so
    seenIds,       \* seenDelegationIDs
    seenPairs,     \* seenPairs
    quarantined    \* Quarantined

graph == <<invocations, root, delegations>>
graphVars == <<graph, next, up, canonical, seenIds, seenPairs, quarantined>>

Delegation == [id : Ids, parent : Names, child : Names]

\* sort.SliceStable: by identifier, then by parent, then by child.
NotAfter(d, e) ==
    \/ d.id < e.id
    \/ d.id = e.id /\ d.parent < e.parent
    \/ d.id = e.id /\ d.parent = e.parent /\ d.child <= e.child

Sorted(s) == \A i, j \in DOMAIN s : i < j => NotAfter(s[i], s[j])

GraphInit ==
    /\ invocations \in SUBSET Names
    /\ root \in invocations \cup {None}
    /\ \E n \in 0 .. MaxDelegations : delegations \in {s \in [1 .. n -> Delegation] : Sorted(s)}
    /\ next = 1
    /\ up = [n \in Names |-> None]
    /\ canonical = [n \in Names |-> None]
    /\ seenIds = {} /\ seenPairs = {} /\ quarantined = {}

\* Seeded fault: only the parent's own parent is looked at.
CreatesShortCycle(parent, child) == child \in {parent, up[parent]}

\* createsCycle climbs from the parent: whatever is closed under climbing and has the
\* parent has the child.
Closed(S) == \A n \in S : up[n] # None => up[n] \in S
CreatesCycle(parent, child) == \A S \in SUBSET Names : parent \in S /\ Closed(S) => child \in S

\* What the loop says of a delegation, in the order of its tests.
Finding(d) ==
    IF d.id \in seenIds                        THEN "duplicate_delegation"
    ELSE IF d.child \notin invocations         THEN "unknown_child"
    ELSE IF d.parent = d.child                 THEN "self_link"
    ELSE IF d.child = root                     THEN "root_has_parent"
    ELSE IF d.parent \notin invocations        THEN "missing_parent"
    ELSE IF <<d.parent, d.child>> \in seenPairs THEN "duplicate_relation"
    ELSE IF up[d.child] # None                 THEN "multiple_parents"
    ELSE IF CreatesCycle(d.parent, d.child)    THEN "cycle"
    ELSE                                            "canonical"

\* missing_parent and multiple_parents are evidence that is kept.
Quarantining == {"duplicate_delegation", "unknown_child", "self_link", "root_has_parent",
                 "duplicate_relation", "cycle"}

Examine(d, finding) ==
    /\ seenIds' = seenIds \cup {d.id}
    /\ seenPairs' = IF finding \in {"multiple_parents", "cycle", "canonical"}
                    THEN seenPairs \cup {<<d.parent, d.child>>} ELSE seenPairs
    /\ quarantined' = IF finding \in Quarantining THEN quarantined \cup {d.id} ELSE quarantined
    /\ up' = IF finding = "canonical" THEN [up EXCEPT ![d.child] = d.parent] ELSE up
    /\ canonical' = IF finding = "canonical" THEN [canonical EXCEPT ![d.child] = d.id] ELSE canonical

GraphNext ==
    /\ next <= Len(delegations)
    /\ Examine(delegations[next], Finding(delegations[next]))
    /\ next' = next + 1
    /\ UNCHANGED graph

GraphSpec == GraphInit /\ [][GraphNext]_graphVars

\* The invocations that attach to the group of unlinked children.
Unlinked == {n \in invocations \ {root} : canonical[n] = None}

-----------------------------------------------------------------------------
(* Properties.                                                             *)

\* The types of the loop's maps.
GraphTypeOK ==
    /\ invocations \subseteq Names
    /\ root \in invocations \cup {None}
    /\ delegations \in Seq(Delegation)
    /\ next \in 1 .. Len(delegations) + 1
    /\ up \in [Names -> Names \cup {None}]
    /\ canonical \in [Names -> Ids \cup {None}]
    /\ seenIds \subseteq Ids
    /\ seenPairs \subseteq Names \X Names
    /\ quarantined \subseteq Ids

\* Every set of invocations has one whose parent is not among them: nobody is an
\* ancestor of itself, and climbing ends.
Acyclic == \A S \in SUBSET Names : S # {} => \E n \in S : up[n] \notin S

\* However the parser's delegations run in circles, into the root or nowhere, the
\* canonical parents form a forest of existing invocations with the root at a top.
\* createsCycle relies on it: it climbs without a bound.
ProjectionIsForest ==
    /\ Acyclic
    /\ \A n \in Names : up[n] # None => n \in invocations \ {root} /\ up[n] \in invocations

\* The comment on Quarantined: it lists identifiers that are excluded from the
\* canonical projection.
QuarantinedIsExcluded == \A n \in Names : canonical[n] # None => canonical[n] \notin quarantined

=============================================================================
