---------------------------- MODULE MCToolBridge ----------------------------
(***************************************************************************)
(* ToolBridge on a small instance.  For the interleavings, three calls, so *)
(* that two can interleave while a third one is at any other place, under  *)
(* one allowlist, with which each of them may be of any kind.  For the     *)
(* permissions, every allowlist of at most two entries, and one call less. *)
(* Calls are not permuted: one of the properties is temporal.              *)
(***************************************************************************)
EXTENDS ToolBridge

CONSTANT ThirdCall  \* not made under the many allowlists

\* "web" and nothing else, so that "mail" is refused.
WebOnly == <<Plain("web")>>

\* Not set, blank, one name with or without spaces or two, of a remote or a local
\* tool, "*"; of two, one has spaces.
ShortAllowlists ==
    LET texts == {NoName, "*", "web", "skill_get"}
        plain == [text : texts, padded : {FALSE}]
        padded == [text : texts, padded : {TRUE}]
    IN  {<<>>} \cup {<<e>> : e \in plain \cup padded} \cup (plain \X padded)

TwoCallsOfMany == allowlist = WebOnly \/ step[ThirdCall] = "idle"
=============================================================================
