---------------------------- MODULE MCChangeHosts ----------------------------
(* One draft and two requests about it, for a comment that the store does not    *)
(* keep.                                                                         *)
EXTENDS ChangeHosts
=============================================================================
