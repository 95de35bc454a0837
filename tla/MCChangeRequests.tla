-------------------------- MODULE MCChangeRequests --------------------------
(* Two versions, two repository bindings and a link for each of them. *)
EXTENDS ChangeRequests, TLC

Interchangeable == Permutations(Versions) \cup Permutations(Bindings) \cup Permutations(Links)
=============================================================================
