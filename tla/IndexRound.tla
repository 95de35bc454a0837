----------------------------- MODULE IndexRound -----------------------------
(***************************************************************************)
(* What one cycle of the indexer promises, whoever does the work and in    *)
(* which order: every listed session is indexed at most once; a reader's   *)
(* missing sessions are tombstoned only after all its listed ones were     *)
(* indexed; a round leaves something out only when the context ended; and  *)
(* one that leaves nothing out is announced exactly when it changed        *)
(* something and ends in errors exactly when something failed.             *)
(***************************************************************************)
EXTENDS Integers

CONSTANTS
    Readers,    \* the readers of the round
    Positions   \* positions a listing can have

VARIABLES
    listed,      \* per reader, the positions it listed, once it has
    complete,    \* readers whose inventory is complete
    indexed,     \* per reader, the positions indexSession has been called for
    tombstoned,  \* readers whose missing sessions have been marked
    dirty,       \* something changed
    trouble,     \* something failed
    over,        \* the context ended
    outcome,     \* "none" while the round goes on, "cancelled", "ready" or "errors"
    announced    \* the clients were told

roundVars == <<listed, complete, indexed, tombstoned, dirty, trouble, over, outcome, announced>>

Unlisted == {-1}     \* no set of positions, before the reader was listed

Init ==
    /\ listed = [r \in Readers |-> Unlisted]
    /\ complete = {}
    /\ indexed = [r \in Readers |-> {}]
    /\ tombstoned = {}
    /\ dirty = FALSE
    /\ trouble = FALSE
    /\ over = FALSE
    /\ outcome = "none"
    /\ announced = FALSE

\* The inventories are fixed before the first session is indexed.  A reader whose
\* listing failed contributes none.
List(r) ==
    /\ outcome = "none"
    /\ listed[r] = Unlisted
    /\ \A q \in Readers : indexed[q] = {}
    /\ \E S \in SUBSET Positions : listed' = [listed EXCEPT ![r] = S]
    /\ complete' \in {complete, complete \union {r}}
    /\ trouble' \in {trouble, TRUE}
    /\ UNCHANGED <<indexed, tombstoned, dirty, over, outcome, announced>>

Index(r, p) ==
    /\ outcome = "none"
    /\ \A q \in Readers : listed[q] # Unlisted
    /\ p \in listed[r] \ indexed[r]
    /\ r \notin tombstoned
    /\ indexed' = [indexed EXCEPT ![r] = @ \union {p}]
    /\ dirty' \in {dirty, TRUE}
    /\ trouble' \in {trouble, TRUE}
    /\ UNCHANGED <<listed, complete, tombstoned, over, outcome, announced>>

Tombstone(r) ==
    /\ outcome = "none"
    /\ r \in complete \ tombstoned
    /\ indexed[r] = listed[r]
    /\ tombstoned' = tombstoned \union {r}
    /\ dirty' \in {dirty, TRUE}
    /\ UNCHANGED <<listed, complete, indexed, trouble, over, outcome, announced>>

ContextEnds ==
    /\ ~over
    /\ over' = TRUE
    /\ UNCHANGED <<listed, complete, indexed, tombstoned, dirty, trouble, outcome, announced>>

\* The end of the context is an error of the reader it interrupts.
Interrupted ==
    /\ over
    /\ outcome = "none"
    /\ trouble' = TRUE
    /\ UNCHANGED <<listed, complete, indexed, tombstoned, dirty, over, outcome, announced>>

\* Only the end of the context lets a round leave something out, and then it may
\* or may not tell the clients of what it did.
Cancel ==
    /\ over
    /\ outcome = "none"
    /\ outcome' = "cancelled"
    /\ announced' \in {FALSE, dirty}
    /\ UNCHANGED <<listed, complete, indexed, tombstoned, dirty, trouble, over>>

End ==
    /\ outcome = "none"
    /\ \A r \in Readers : indexed[r] = listed[r]
    /\ complete = tombstoned
    /\ outcome' = IF trouble THEN "errors" ELSE "ready"
    /\ announced' = dirty
    /\ UNCHANGED <<listed, complete, indexed, tombstoned, dirty, trouble, over>>

Next ==
    \/ \E r \in Readers : List(r) \/ Tombstone(r)
    \/ \E r \in Readers, p \in Positions : Index(r, p)
    \/ ContextEnds
    \/ Interrupted
    \/ Cancel
    \/ End

Round == Init /\ [][Next]_roundVars

=============================================================================
