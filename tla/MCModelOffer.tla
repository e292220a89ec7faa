---------------------------- MODULE MCModelOffer ----------------------------
(***************************************************************************)
(* What a run offers the model, on small instances: SkillCatalog and       *)
(* ToolSelection.  They share no state, so a behaviour has one of them for *)
(* its subject, with the other at rest.                                    *)
(*                                                                         *)
(* SkillCatalog gets two local managed skills, of which control has one,   *)
(* one that only control has, and two custom skills, the second of which   *)
(* has the first one's id for a name; ToolSelection gets catalogs of up to *)
(* four tools of every sort, some of them twice.                           *)
(***************************************************************************)
EXTENDS SkillCatalog, ToolSelection

VARIABLE subject    \* "skills" or "tools"

Made(source, id, name, needs, prefers) ==
    [source |-> source, id |-> id, name |-> name, text |-> "control",
     needs |-> needs, prefers |-> prefers, availability |-> "", missing |-> {}]

SomeLocalSkills ==
    <<[id |-> "m1", needs |-> {"template"}, prefers |-> {"tool"}],
      [id |-> "m2", needs |-> {}, prefers |-> {"tool"}]>>

M1 == Made("managed", "m1", "control", {"template"}, {})
M3 == Made("managed", "m3", "control", {}, {"tool"})
C1 == Made("custom", "c1", "c1", {"server"}, {})
C2 == Made("custom", "m2", "c1", {}, {"tool"})

SomeSkillLists == {<<>>, <<C1>>, <<C1, M3>>, <<M1, C2>>}
SomeManagedLists == {<<>>, <<M3, M1>>}
SomeCustomLists == {<<>>, <<C1>>, <<C2, C1>>}
SomeHintLists == {<<>>, <<"fr", "ja-JP">>}
SomeSupplies == {{"tool"}, {"server", "template"}}
SomeRefs == {"m1", "m2", "m3", "c1"}

SomeTools ==
    [name : {"toolbox", "file_read", "web_fetch", "capability_search",
             "capability_invoke", "skill_catalog", "other_tool"},
     description : {1}]
    \cup [name : {"file_read", "other_tool"}, description : {2}]

SomeCatalogs == BoundedSeq(SomeTools, 4)

MCInit ==
    \/ subject = "skills" /\ Init
       /\ toolCatalog = <<>> /\ limit = 1 /\ offered = <<>>
    \/ subject = "tools" /\ SelectionInit
       /\ context = [skills |-> <<>>, managed |-> <<>>, custom |-> <<>>,
                     hints |-> <<>>, japanese |-> FALSE, supply |-> {"tool"}]
       /\ Init

MCNext ==
    \/ subject = "skills" /\ Next /\ UNCHANGED <<subject, selectionVars>>
    \/ subject = "tools" /\ SelectionNext /\ UNCHANGED <<subject, vars>>

MCSpec == MCInit /\ [][MCNext]_<<vars, selectionVars, subject>>
=============================================================================
