----------------------------- MODULE MCRunTurn -----------------------------
(***************************************************************************)
(* RunTurn on a small instance: one call, which is enough to meet the run  *)
(* at all of its places; what calls do to each other is ToolBridge's.      *)
(***************************************************************************)
EXTENDS RunTurn

\* "web" is permitted, "mail" is refused.
WebOnly == {<<[text |-> "web", padded |-> FALSE]>>}
=============================================================================
