--------------------------- MODULE MCSessionIndex ---------------------------
(* SessionIndex for TLC.  Three versions let a write fall between any two     *)
(* reads of a cycle and another after it; one fault at a time, see README.    *)
EXTENDS SessionIndex
=============================================================================
