--------------------------- MODULE MCGitEvidence ---------------------------
(* One session and one link; three transcript revisions, so that a file list *)
(* (baseline at the first, final at the second) can be left behind.          *)
EXTENDS GitEvidence, TLC

Interchangeable == Permutations(Versions)
=============================================================================
