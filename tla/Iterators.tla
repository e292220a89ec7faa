----------------------------- MODULE Iterators -----------------------------
(***************************************************************************)
(* `find` of Rust's iterators, as the code uses it on vectors.             *)
(***************************************************************************)
EXTENDS SequencesExt

\* The first element of seq that is at one of the places, if any: Some(x) is
\* <<x>> and None is <<>>.
FirstAt(seq, places) == IF places = {} THEN <<>> ELSE <<seq[Min(places)]>>
=============================================================================
