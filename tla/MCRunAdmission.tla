--------------------------- MODULE MCRunAdmission ---------------------------
(***************************************************************************)
(* RunAdmission on small instances: more runs than slots, and handlers     *)
(* that meet each other.  Nothing is permuted: one of the properties is    *)
(* temporal.                                                               *)
(***************************************************************************)
EXTENDS RunAdmission
=============================================================================
