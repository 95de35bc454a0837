---------------------------- MODULE MCSessionList ----------------------------
(* The session list on its own, for a comment that it does not keep: two         *)
(* notifiers, two changes and no interruption.                                   *)
EXTENDS SessionList
=============================================================================
