--------------------------- MODULE MCRunLifecycle ---------------------------
(***************************************************************************)
(* RunLifecycle on a small instance: one execution, up to MaxModelCalls    *)
(* counted model calls.  Two distinct non-zero usages are enough to tell a *)
(* report of the turn's usage from a zeroed or a premature one.            *)
(***************************************************************************)
EXTENDS RunLifecycle
=============================================================================
