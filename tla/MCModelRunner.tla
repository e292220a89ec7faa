---------------------------- MODULE MCModelRunner ----------------------------
(***************************************************************************)
(* ModelRunner with two keys, listed in any order, once or twice, and two  *)
(* endpoints: an ordinary one, and one whose URL reads like a failure of   *)
(* authentication.                                                         *)
(***************************************************************************)
EXTENDS ModelRunner
=============================================================================
