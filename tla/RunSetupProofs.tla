--------------------------- MODULE RunSetupProofs ---------------------------
(***************************************************************************)
(* Theorems about what a run is set up with: the skills and the tools that *)
(* its model is offered, its settings, and the names of what it leaves in  *)
(* the memory of its space (SkillCatalog, ToolSelection, RunSettings,      *)
(* MemoryNames), for all lists, limits, settings, ids and texts.           *)
(*                                                                         *)
(* Most of these are loops over lists.  A loop that builds a list or a sum *)
(* is FoldLeft, and FoldFacts gives for each of its steps what holds by    *)
(* induction over the list; a loop that finds something is a least place   *)
(* (MinIs, MaxIs, FirstAtIs).                                              *)
(***************************************************************************)
EXTENDS SkillCatalog, ToolSelection, RunSettings, MemoryNames, SequenceTheorems, TLAPS

Merging == INSTANCE FoldFacts WITH Op <- MergeSkill
Keeping == INSTANCE FoldFacts WITH Op <- AddCustom
Naming == INSTANCE FoldFacts WITH Op <- PushToolByName
Listing == INSTANCE FoldFacts WITH Op <- PushVisible
Counting == INSTANCE FoldFacts WITH Op <- AddWidth

\* The least and the greatest number of a set.
LEMMA MinIs ==
    ASSUME NEW S \in SUBSET Nat, S # {}
    PROVE  Min(S) \in S /\ \A i \in S : Min(S) <= i
<1>1. \E j \in S : \A i \in S : j <= i
  BY Merging!Least
<1> QED BY <1>1 DEF Min

LEMMA MaxIs ==
    ASSUME NEW b \in Nat, NEW S \in SUBSET (0..b), S # {}
    PROVE  Max(S) \in S /\ \A i \in S : i <= Max(S)
<1>1. \E j \in S : \A i \in S : i <= j
  BY Merging!Greatest
<1> QED BY <1>1 DEF Max

LEMMA FirstAtIs ==
    ASSUME NEW seq, NEW places \in SUBSET Nat
    PROVE  \/ places = {} /\ FirstAt(seq, places) = <<>>
           \/ \E j \in places : /\ \A m \in places : j <= m
                               /\ FirstAt(seq, places) = <<seq[j]>>
                               /\ FirstAt(seq, places) # <<>>
                               /\ Head(FirstAt(seq, places)) = seq[j]
<1>1. CASE places = {}
  BY <1>1 DEF FirstAt
<1>2. CASE places # {}
  <2>1. PICK j \in places : j = Min(places) /\ \A m \in places : j <= m
    BY <1>2, MinIs
  <2>4. FirstAt(seq, places) = <<seq[j]>>
    BY <2>1, <1>2 DEF FirstAt
  <2>5. <<seq[j]>> # <<>> /\ Head(<<seq[j]>>) = seq[j]
    OBVIOUS
  <2> QED BY <2>1, <2>4, <2>5
<1> QED BY <1>1, <1>2

-----------------------------------------------------------------------------
(* SkillCatalog *)

LEMMA MergeFolds ==
    ASSUME NEW target, NEW extra PROVE Merge(target, extra) = Merging!Fold(target, extra)
BY Zenon DEF Merge, Merging!Fold, FoldLeft, Merging!FoldLeft, MapThenFoldSet,
             Merging!MapThenFoldSet, Max, Merging!Max

LEMMA CustomsFold == ASSUME NEW skills PROVE Customs(skills) = Keeping!Fold(<<>>, skills)
BY Zenon DEF Customs, Keeping!Fold, FoldLeft, Keeping!FoldLeft, MapThenFoldSet,
             Keeping!MapThenFoldSet, Max, Keeping!Max

KeysOf(skills) == {Key(s) : s \in ToSet(skills)}

NoRepeats(skills) ==
    \A i, j \in 1..Len(skills) : Key(skills[i]) = Key(skills[j]) => i = j

LEMMA OneMore ==
    ASSUME NEW S, NEW skills \in Seq(S), NEW s \in S
    PROVE  /\ Append(skills, s) \in Seq(S)
           /\ ToSet(Append(skills, s)) = ToSet(skills) \cup {s}
           /\ KeysOf(Append(skills, s)) = KeysOf(skills) \cup {Key(s)}
           /\ NoRepeats(Append(skills, s)) <=>
                 NoRepeats(skills) /\ Key(s) \notin KeysOf(skills)
<1>0. Append(skills, s) \in Seq(S)
  OBVIOUS
<1>1. PICK more \in Seq(S) : more = Append(skills, s)
  BY <1>0, Zenon
<1>2. /\ Len(skills) \in Nat /\ Len(more) = Len(skills) + 1
      /\ DOMAIN skills = 1..Len(skills) /\ DOMAIN more = 1..Len(more)
      /\ more[Len(more)] = s
      /\ \A i \in 1..Len(skills) : more[i] = skills[i]
      /\ \A i \in 1..Len(more) : i \in 1..Len(skills) \/ i = Len(more)
  BY <1>1
<1>3. ToSet(more) = ToSet(skills) \cup {s}
  <2>1. \A i \in DOMAIN skills : i \in DOMAIN more /\ more[i] = skills[i]
    BY <1>2
  <2>2. Len(more) \in DOMAIN more
    BY <1>2
  <2> QED BY <2>1, <2>2, <1>2 DEF ToSet
<1>4. KeysOf(more) = KeysOf(skills) \cup {Key(s)}
  BY <1>3, Zenon DEF KeysOf
<1>5. ASSUME NoRepeats(more) PROVE NoRepeats(skills) /\ Key(s) \notin KeysOf(skills)
  <2>1. \A i \in 1..Len(skills) : i \in 1..Len(more) /\ i # Len(more)
    BY <1>2
  <2>2. Len(more) \in 1..Len(more)
    BY <1>2
  <2>3. NoRepeats(skills)
    BY <2>1, <1>5, <1>2 DEF NoRepeats
  <2>4. \A i \in 1..Len(skills) : Key(skills[i]) # Key(s)
    BY <2>1, <2>2, <1>5, <1>2 DEF NoRepeats
  <2> QED BY <2>3, <2>4, <1>2 DEF KeysOf, ToSet
<1>6. ASSUME NoRepeats(skills), Key(s) \notin KeysOf(skills) PROVE NoRepeats(more)
  <2>1. \A i \in 1..Len(skills) : Key(skills[i]) # Key(s)
    BY <1>6, <1>2 DEF KeysOf, ToSet
  <2> QED BY <2>1, <1>6, <1>2 DEF NoRepeats
<1> QED BY <1>0, <1>1, <1>3, <1>4, <1>5, <1>6

LEMMA NoneYet == /\ ToSet(<<>>) = {} /\ KeysOf(<<>>) = {} /\ NoRepeats(<<>>)
                 /\ \A S : <<>> \in Seq(S)
<1>1. ToSet(<<>>) = {}
  BY DEF ToSet
<1>2. KeysOf(<<>>) = {}
  BY <1>1 DEF KeysOf
<1>3. NoRepeats(<<>>)
  BY DEF NoRepeats
<1> QED BY <1>1, <1>2, <1>3

\* What a merge is.
MergedFrom(S, target, extra, merged) ==
    /\ merged \in Seq(S)
    /\ ToSet(target) \subseteq ToSet(merged)
    /\ ToSet(merged) \subseteq ToSet(target) \cup ToSet(extra)
    /\ KeysOf(merged) = KeysOf(target) \cup KeysOf(extra)
    /\ NoRepeats(target) => NoRepeats(merged)

LEMMA MergeIs ==
    ASSUME NEW S, NEW target \in Seq(S), NEW extra \in Seq(S)
    PROVE  MergedFrom(S, target, extra, Merge(target, extra))
<1> DEFINE T == {seq \in Seq(S) : MergedFrom(S, target, seq, Merging!Fold(target, seq))}
<1>1. <<>> \in T
  <2>1. MergedFrom(S, target, <<>>, target)
    BY NoneYet DEF MergedFrom
  <2>2. Merging!Fold(target, <<>>) = target
    BY Merging!FoldEmpty
  <2> QED BY <2>1, <2>2, NoneYet
<1>2. ASSUME NEW seq \in Seq(S), NEW s \in S, seq \in T PROVE Append(seq, s) \in T
  <2>1. PICK old : old = Merging!Fold(target, seq)
    OBVIOUS
  <2>2. PICK new : new = MergeSkill(old, s)
    OBVIOUS
  <2>3. Merging!Fold(target, Append(seq, s)) = new
    BY <2>1, <2>2, Merging!FoldAppend
  <2>4. MergedFrom(S, target, seq, old)
    BY <1>2, <2>1
  <2>5. ToSet(old) \subseteq ToSet(target) \cup ToSet(seq) /\ old \in Seq(S)
    BY <2>4 DEF MergedFrom
  <2>6. /\ ToSet(Append(seq, s)) = ToSet(seq) \cup {s}
        /\ KeysOf(Append(seq, s)) = KeysOf(seq) \cup {Key(s)}
        /\ Append(seq, s) \in Seq(S)
    BY OneMore
  <2>7. (\E i \in DOMAIN old : Key(old[i]) = Key(s)) <=> Key(s) \in KeysOf(old)
    BY DEF KeysOf, ToSet
  <2>8. CASE Key(s) \in KeysOf(old)
    <3>1. new = old
      BY <2>2, <2>7, <2>8 DEF MergeSkill
    <3>2. MergedFrom(S, target, Append(seq, s), old)
      BY <2>4, <2>6, <2>8 DEF MergedFrom
    <3> QED BY <3>1, <3>2, <2>3, <2>6
  <2>9. CASE Key(s) \notin KeysOf(old)
    <3>1. new = Append(old, s)
      BY <2>2, <2>7, <2>9 DEF MergeSkill
    <3>2. /\ new \in Seq(S) /\ ToSet(new) = ToSet(old) \cup {s}
          /\ KeysOf(new) = KeysOf(old) \cup {Key(s)}
          /\ NoRepeats(new) <=> NoRepeats(old)
      BY <3>1, <2>5, <2>9, OneMore
    <3>3. MergedFrom(S, target, Append(seq, s), new)
      BY <3>2, <2>4, <2>6 DEF MergedFrom
    <3> QED BY <3>3, <2>3, <2>6
  <2> QED BY <2>8, <2>9
<1> HIDE DEF T
<1>3. Seq(S) \subseteq T
  BY <1>1, <1>2, Merging!SequenceInduction
<1>4. MergedFrom(S, target, extra, Merging!Fold(target, extra))
  BY <1>3 DEF T
<1> QED BY <1>4, MergeFolds

\* What the filter for custom skills leaves.
CustomsFrom(S, skills, customs) ==
    /\ customs \in Seq(S)
    /\ ToSet(customs) = {s \in ToSet(skills) : IsCustom(s)}
    /\ NoRepeats(skills) => NoRepeats(customs)

LEMMA CustomsAre ==
    ASSUME NEW S, NEW skills \in Seq(S)
    PROVE  CustomsFrom(S, skills, Customs(skills))
<1> DEFINE T == {seq \in Seq(S) : CustomsFrom(S, seq, Keeping!Fold(<<>>, seq))}
<1>1. <<>> \in T
  <2>1. CustomsFrom(S, <<>>, <<>>)
    BY NoneYet DEF CustomsFrom
  <2>2. Keeping!Fold(<<>>, <<>>) = <<>>
    BY Keeping!FoldEmpty
  <2> QED BY <2>1, <2>2, NoneYet
<1>2. ASSUME NEW seq \in Seq(S), NEW s \in S, seq \in T PROVE Append(seq, s) \in T
  <2>1. PICK old : old = Keeping!Fold(<<>>, seq)
    OBVIOUS
  <2>2. PICK new : new = AddCustom(old, s)
    OBVIOUS
  <2>3. Keeping!Fold(<<>>, Append(seq, s)) = new
    BY <2>1, <2>2, Keeping!FoldAppend
  <2>4. CustomsFrom(S, seq, old)
    BY <1>2, <2>1
  <2>5. /\ ToSet(Append(seq, s)) = ToSet(seq) \cup {s}
        /\ NoRepeats(Append(seq, s)) <=> NoRepeats(seq) /\ Key(s) \notin KeysOf(seq)
        /\ Append(seq, s) \in Seq(S)
    BY OneMore
  <2>6. CASE ~IsCustom(s)
    <3>1. new = old
      BY <2>2, <2>6 DEF AddCustom
    <3>2. CustomsFrom(S, Append(seq, s), old)
      BY <2>4, <2>5, <2>6 DEF CustomsFrom
    <3> QED BY <3>1, <3>2, <2>3, <2>5
  <2>7. CASE IsCustom(s)
    <3>1. new = Append(old, s)
      BY <2>2, <2>7 DEF AddCustom
    <3>2. old \in Seq(S)
      BY <2>4 DEF CustomsFrom
    <3>3. /\ new \in Seq(S) /\ ToSet(new) = ToSet(old) \cup {s}
          /\ NoRepeats(new) <=> NoRepeats(old) /\ Key(s) \notin KeysOf(old)
      BY <3>1, <3>2, OneMore
    <3>4. KeysOf(old) \subseteq KeysOf(seq)
      BY <2>4 DEF CustomsFrom, KeysOf
    <3>5. CustomsFrom(S, Append(seq, s), new)
      BY <3>3, <3>4, <2>4, <2>5, <2>7 DEF CustomsFrom
    <3> QED BY <3>5, <2>3, <2>5
  <2> QED BY <2>6, <2>7
<1> HIDE DEF T
<1>3. Seq(S) \subseteq T
  BY <1>1, <1>2, Keeping!SequenceInduction
<1>4. CustomsFrom(S, skills, Keeping!Fold(<<>>, skills))
  BY <1>3 DEF T
<1> QED BY <1>4, CustomsFold

-----------------------------------------------------------------------------
(* Building the catalog *)

\* The skills that a catalog in a locale can hold.
Known(locale) == Sent \cup ToSet(LocalManaged(locale))

CustomIds(skills) == {s.id : s \in {e \in ToSet(skills) : IsCustom(e)}}
SentIds(c) == CustomIds(c.skills \o c.custom)
ManagedAreSent(c) == {s \in ToSet(c.skills \o c.managed) : IsManaged(s)} # {}

ManagedIds(skills) == {s.id : s \in {e \in ToSet(skills) : IsManaged(e)}}
LocalIds == {s.id : s \in ToSet(LocalSkills)}
SentManagedIds(c) ==
    IF HasManaged(c.skills) THEN ManagedIds(c.skills)
    ELSE IF c.managed # <<>> THEN ManagedIds(c.managed)
    ELSE LocalIds

\* A merge adds no managed skill when all those of the other list are there.
LEMMA ManagedStay ==
    ASSUME NEW S, NEW target, NEW extra, NEW merged, MergedFrom(S, target, extra, merged),
           \A s \in ToSet(extra) : IsManaged(s) => s \in ToSet(target)
    PROVE  ManagedIds(merged) = ManagedIds(target)
<1>1. /\ ToSet(target) \subseteq ToSet(merged)
      /\ ToSet(merged) \subseteq ToSet(target) \cup ToSet(extra)
  BY DEF MergedFrom
<1>2. {e \in ToSet(merged) : IsManaged(e)} = {e \in ToSet(target) : IsManaged(e)}
  BY <1>1
<1> QED BY <1>2 DEF ManagedIds

LEMMA IsEmpty ==
    ASSUME NEW S, NEW a \in Seq(S) PROVE a = <<>> <=> ToSet(a) = {}
<1>1. CASE a = <<>>
  BY <1>1, NoneYet
<1>2. CASE a # <<>>
  <2>1. 1 \in DOMAIN a
    BY <1>2
  <2> QED BY <2>1, <1>2 DEF ToSet
<1> QED BY <1>1, <1>2

LEMMA JoinsPlaces ==
    ASSUME NEW S, NEW a \in Seq(S), NEW b \in Seq(S), NEW c, c = a \o b
    PROVE  /\ c \in Seq(S) /\ Len(c) = Len(a) + Len(b)
           /\ Len(a) \in Nat /\ Len(b) \in Nat
           /\ DOMAIN a = 1..Len(a) /\ DOMAIN b = 1..Len(b) /\ DOMAIN c = 1..Len(c)
           /\ \A n \in 1..Len(a) : n \in 1..Len(c) /\ c[n] = a[n]
           /\ \A n \in 1..Len(b) : n + Len(a) \in 1..Len(c) /\ c[n + Len(a)] = b[n]
           /\ \A n \in 1..Len(c) : n \notin 1..Len(a) =>
                 n - Len(a) \in 1..Len(b) /\ c[n] = b[n - Len(a)]
<1>1. c \in Seq(S) /\ Len(c) = Len(a) + Len(b) /\ Len(a) \in Nat /\ Len(b) \in Nat
  OBVIOUS
<1>2. DOMAIN a = 1..Len(a) /\ DOMAIN b = 1..Len(b) /\ DOMAIN c = 1..Len(c)
  BY <1>1
<1>3. ASSUME NEW n \in 1..Len(a) PROVE n \in 1..Len(c) /\ c[n] = a[n]
  BY <1>1, <1>2
<1>4. ASSUME NEW n \in 1..Len(b) PROVE n + Len(a) \in 1..Len(c) /\ c[n + Len(a)] = b[n]
  BY <1>1, <1>2
<1>5. ASSUME NEW n \in 1..Len(c), n \notin 1..Len(a)
      PROVE  n - Len(a) \in 1..Len(b) /\ c[n] = b[n - Len(a)]
  BY <1>1, <1>2, <1>5
<1> QED BY <1>1, <1>2, <1>3, <1>4, <1>5

LEMMA Joins ==
    ASSUME NEW S, NEW a \in Seq(S), NEW b \in Seq(S)
    PROVE  /\ a \o b \in Seq(S)
           /\ ToSet(a \o b) = ToSet(a) \cup ToSet(b)
<1>1. PICK c : c = a \o b
  OBVIOUS
<1>2. c \in Seq(S)
  BY <1>1, JoinsPlaces
<1>3. DOMAIN a = 1..Len(a) /\ DOMAIN b = 1..Len(b) /\ DOMAIN c = 1..Len(c)
  BY <1>1, JoinsPlaces
<1>4. ASSUME NEW n \in 1..Len(a) PROVE n \in DOMAIN c /\ c[n] = a[n]
  BY <1>1, <1>3, JoinsPlaces
<1>5. ASSUME NEW n \in 1..Len(b) PROVE n + Len(a) \in DOMAIN c /\ c[n + Len(a)] = b[n]
  BY <1>1, <1>3, JoinsPlaces
<1>6. ASSUME NEW n \in DOMAIN c, n \notin 1..Len(a)
      PROVE  n - Len(a) \in 1..Len(b) /\ c[n] = b[n - Len(a)]
  BY <1>1, <1>3, <1>6, JoinsPlaces
<1>7. ToSet(a) \subseteq ToSet(c)
  BY <1>3, <1>4 DEF ToSet
<1>8. ToSet(b) \subseteq ToSet(c)
  BY <1>3, <1>5 DEF ToSet
<1>9. ASSUME NEW n \in DOMAIN c PROVE c[n] \in ToSet(a) \cup ToSet(b)
  <2>1. CASE n \in 1..Len(a)
    BY <2>1, <1>3, <1>4 DEF ToSet
  <2>2. CASE n \notin 1..Len(a)
    BY <2>2, <1>3, <1>6 DEF ToSet
  <2> QED BY <2>1, <2>2
<1>10. ToSet(c) \subseteq ToSet(a) \cup ToSet(b)
  BY <1>9 DEF ToSet
<1> QED BY <1>1, <1>2, <1>7, <1>8, <1>10

LEMMA InContext ==
    ASSUME NEW c \in Contexts
    PROVE  /\ c.skills \in Seq(Sent) /\ c.managed \in Seq(Sent) /\ c.custom \in Seq(Sent)
           /\ NoRepeats(c.skills) /\ NoRepeats(c.managed)
           /\ \A s \in ToSet(c.managed) : IsManaged(s) /\ ~IsCustom(s)
           /\ \A s \in ToSet(c.custom) : IsCustom(s) /\ ~IsManaged(s)
           /\ ToSet(c.skills) \subseteq Sent /\ ToSet(c.managed) \subseteq Sent
           /\ ToSet(c.custom) \subseteq Sent
<1>1. /\ c.skills \in SkillLists /\ c.managed \in ManagedLists /\ c.custom \in CustomLists
  BY DEF Contexts
<1>2. c.skills \in Seq(Sent) /\ c.managed \in Seq(Sent) /\ c.custom \in Seq(Sent)
  BY <1>1, SentAssumption
<1>3. NoRepeats(c.skills) /\ NoRepeats(c.managed)
  BY <1>1, <1>2, ListsAssumption DEF NoRepeats, Key
<1>4. /\ \A s \in ToSet(c.managed) : IsManaged(s) /\ ~IsCustom(s)
      /\ \A s \in ToSet(c.custom) : IsCustom(s) /\ ~IsManaged(s)
  BY <1>1, ListsAssumption DEF IsManaged, IsCustom
<1> QED BY <1>2, <1>3, <1>4 DEF ToSet

LEMMA SentAre ==
    ASSUME NEW s \in Sent
    PROVE  s.text = "control" /\ (IsManaged(s) <=> ~IsCustom(s))
<1>1. s.text = "control"
  BY SentAssumption
<1> QED BY <1>1, SentAssumption DEF IsManaged, IsCustom

LEMMA LocalIs ==
    ASSUME NEW locale
    PROVE  /\ LocalManaged(locale) \in Seq(ToSet(LocalManaged(locale)))
           /\ DOMAIN LocalManaged(locale) = DOMAIN LocalSkills
           /\ DOMAIN LocalSkills = 1..Len(LocalSkills)
           /\ Len(LocalManaged(locale)) = Len(LocalSkills)
           /\ NoRepeats(LocalManaged(locale))
           /\ \A i \in DOMAIN LocalSkills :
                 /\ LocalManaged(locale)[i] \in ToSet(LocalManaged(locale))
                 /\ LocalManaged(locale)[i].id = LocalSkills[i].id
                 /\ LocalManaged(locale)[i].needs = LocalSkills[i].needs
                 /\ LocalManaged(locale)[i].prefers = LocalSkills[i].prefers
           /\ \A e \in ToSet(LocalManaged(locale)) :
                 /\ IsManaged(e) /\ ~IsCustom(e) /\ e.text # "control"
                 /\ e = [source |-> e.source, id |-> e.id, name |-> e.name,
                         text |-> e.text, needs |-> e.needs, prefers |-> e.prefers,
                         availability |-> e.availability, missing |-> e.missing]
<1>1. PICK local : local = LocalManaged(locale)
  OBVIOUS
<1>2. /\ DOMAIN LocalSkills = 1..Len(LocalSkills) /\ Len(LocalSkills) \in Nat
  BY LocalSkillsAssumption
<1>3. local = [i \in 1..Len(LocalSkills) |->
                 [source |-> "managed", id |-> LocalSkills[i].id, name |-> "local",
                  text |-> IF locale = "ja" THEN "ja" ELSE "en",
                  needs |-> LocalSkills[i].needs, prefers |-> LocalSkills[i].prefers,
                  availability |-> "available", missing |-> {}]]
  BY <1>1, <1>2 DEF LocalManaged
<1>4. DOMAIN local = 1..Len(LocalSkills)
  BY <1>3
<1>5. \A i \in 1..Len(LocalSkills) : local[i] \in ToSet(local)
  BY <1>4 DEF ToSet
<1>6. local \in Seq(ToSet(local)) /\ Len(local) = Len(LocalSkills)
  BY <1>2, <1>3, <1>5
<1>7. ASSUME NEW i \in 1..Len(LocalSkills)
      PROVE  /\ local[i].source = "managed"
             /\ local[i].id = LocalSkills[i].id /\ local[i].needs = LocalSkills[i].needs
             /\ local[i].prefers = LocalSkills[i].prefers
             /\ local[i].text # "control"
             /\ local[i] = [source |-> local[i].source, id |-> local[i].id,
                    name |-> local[i].name, text |-> local[i].text,
                    needs |-> local[i].needs, prefers |-> local[i].prefers,
                    availability |-> local[i].availability, missing |-> local[i].missing]
  BY <1>3
<1>8. \A e \in ToSet(local) : \E i \in 1..Len(LocalSkills) : e = local[i]
  BY <1>4 DEF ToSet
<1>9. ASSUME NEW i \in 1..Len(LocalSkills), NEW j \in 1..Len(LocalSkills),
             Key(local[i]) = Key(local[j])
      PROVE  i = j
  <2>1. local[i].id = local[j].id
    BY <1>9 DEF Key
  <2>2. i \in DOMAIN LocalSkills /\ j \in DOMAIN LocalSkills
    BY <1>2
  <2>3. LocalSkills[i].id = LocalSkills[j].id
    BY <2>1, <1>7
  <2> QED BY <2>2, <2>3, LocalSkillsAssumption, Zenon
<1>10. NoRepeats(local)
  BY <1>6, <1>9 DEF NoRepeats
<1>11. ASSUME NEW e \in ToSet(local)
       PROVE  /\ IsManaged(e) /\ ~IsCustom(e) /\ e.text # "control"
              /\ e = [source |-> e.source, id |-> e.id, name |-> e.name,
                      text |-> e.text, needs |-> e.needs, prefers |-> e.prefers,
                      availability |-> e.availability, missing |-> e.missing]
  <2>1. PICK i \in 1..Len(LocalSkills) : e = local[i]
    BY <1>8
  <2> QED BY <2>1, <1>7 DEF IsManaged, IsCustom
<1> QED BY <1>1, <1>2, <1>4, <1>5, <1>6, <1>7, <1>10, <1>11

LEMMA LocalIdsAre == ASSUME NEW locale PROVE ManagedIds(LocalManaged(locale)) = LocalIds
<1>1. ASSUME NEW x \in ManagedIds(LocalManaged(locale)) PROVE x \in LocalIds
  <2>1. PICK e \in ToSet(LocalManaged(locale)) : x = e.id
    BY DEF ManagedIds
  <2>2. PICK i \in DOMAIN LocalSkills : e = LocalManaged(locale)[i]
    BY <2>1, LocalIs DEF ToSet
  <2>3. x = LocalSkills[i].id
    BY <2>1, <2>2, LocalIs
  <2> QED BY <2>3 DEF LocalIds, ToSet
<1>2. ASSUME NEW x \in LocalIds PROVE x \in ManagedIds(LocalManaged(locale))
  <2>1. PICK i \in DOMAIN LocalSkills : x = LocalSkills[i].id
    BY DEF LocalIds, ToSet
  <2>2. /\ LocalManaged(locale)[i] \in ToSet(LocalManaged(locale))
        /\ LocalManaged(locale)[i].id = x
    BY <2>1, LocalIs
  <2>3. IsManaged(LocalManaged(locale)[i])
    BY <2>2, LocalIs
  <2> QED BY <2>2, <2>3 DEF ManagedIds
<1> QED BY <1>1, <1>2

\* What the catalog starts with: of control's managed skills, or else all of the
\* local copy; besides them only custom skills that control sent.
BaseFrom(c, locale, base) ==
    /\ base \in Seq(Known(locale)) /\ NoRepeats(base)
    /\ ManagedIds(base) = SentManagedIds(c)
    /\ \/ /\ Origin(c) = "control" /\ ManagedAreSent(c)
          /\ ToSet(base) \subseteq
                ToSet(c.skills) \cup ToSet(c.managed) \cup ToSet(c.custom)
       \/ /\ Origin(c) = "fallback_local" /\ ~ManagedAreSent(c)
          /\ ToSet(LocalManaged(locale)) \subseteq ToSet(base)
          /\ ToSet(base) \subseteq ToSet(LocalManaged(locale)) \cup ToSet(c.custom)

LEMMA BaseIs ==
    ASSUME NEW c \in Contexts, NEW locale
    PROVE  BaseFrom(c, locale, Base(c, locale))
<1>1. /\ c.skills \in Seq(Known(locale)) /\ c.managed \in Seq(Known(locale))
      /\ c.custom \in Seq(Known(locale)) /\ LocalManaged(locale) \in Seq(Known(locale))
  BY InContext, LocalIs DEF Known
<1>2. /\ HasManaged(c.skills) <=> \E s \in ToSet(c.skills) : IsManaged(s)
      /\ c.managed = <<>> <=> ToSet(c.managed) = {}
      /\ ToSet(c.skills \o c.managed) = ToSet(c.skills) \cup ToSet(c.managed)
  <2>1. HasManaged(c.skills) <=> \E s \in ToSet(c.skills) : IsManaged(s)
    BY DEF HasManaged, ToSet
  <2>2. c.managed = <<>> <=> ToSet(c.managed) = {}
    BY <1>1, IsEmpty
  <2> QED BY <2>1, <2>2, <1>1, Joins
<1>3. CASE HasManaged(c.skills)
  BY <1>1, <1>2, <1>3, InContext DEF Base, Origin, BaseFrom, ManagedAreSent, SentManagedIds
<1>4. CASE ~HasManaged(c.skills) /\ c.managed # <<>>
  <2>1. MergedFrom(Known(locale), c.managed, c.custom, Merge(c.managed, c.custom))
    BY <1>1, MergeIs
  <2>2. ManagedAreSent(c)
    BY <1>2, <1>4, InContext DEF ManagedAreSent
  <2>3. ManagedIds(Merge(c.managed, c.custom)) = ManagedIds(c.managed)
    BY <2>1, InContext, ManagedStay
  <2> QED BY <2>1, <2>2, <2>3, <1>4, InContext
          DEF Base, Origin, BaseFrom, MergedFrom, SentManagedIds
<1>5. CASE ~HasManaged(c.skills) /\ c.managed = <<>>
  <2>1. MergedFrom(Known(locale), LocalManaged(locale), c.custom,
                   Merge(LocalManaged(locale), c.custom))
    BY <1>1, MergeIs
  <2>2. ~ManagedAreSent(c)
    BY <1>2, <1>5 DEF ManagedAreSent
  <2>3. ManagedIds(Merge(LocalManaged(locale), c.custom)) = LocalIds
    BY <2>1, InContext, ManagedStay, LocalIdsAre
  <2> QED BY <2>1, <2>2, <2>3, <1>5, LocalIs
          DEF Base, Origin, BaseFrom, MergedFrom, SentManagedIds
<1> QED BY <1>3, <1>4, <1>5

\* What is merged: nothing twice, all of control's custom skills and no others,
\* and all the managed skills of one source.
MergedAll(c, locale, merged) ==
    /\ merged \in Seq(Known(locale)) /\ NoRepeats(merged)
    /\ CustomIds(merged) = SentIds(c) /\ ManagedIds(merged) = SentManagedIds(c)
    /\ \/ /\ Origin(c) = "control" /\ ManagedAreSent(c)
          /\ ToSet(merged) \subseteq Sent
       \/ /\ Origin(c) = "fallback_local" /\ ~ManagedAreSent(c)
          /\ ToSet(LocalManaged(locale)) \subseteq ToSet(merged)
          /\ \A s \in ToSet(merged) : IsManaged(s) => s \in ToSet(LocalManaged(locale))

LEMMA MergedIs ==
    ASSUME NEW c \in Contexts, NEW locale
    PROVE  MergedAll(c, locale, Merged(c, locale))
<1>1. PICK base : base = Base(c, locale)
  OBVIOUS
<1>2. PICK first : first = Merge(base, c.skills)
  OBVIOUS
<1>3. PICK merged : merged = Merge(first, c.custom)
  OBVIOUS
<1>4. Merged(c, locale) = merged
  BY <1>1, <1>2, <1>3 DEF Merged
<1>5. /\ c.skills \in Seq(Known(locale)) /\ c.custom \in Seq(Known(locale))
      /\ ToSet(c.skills) \subseteq Sent /\ ToSet(c.managed) \subseteq Sent
      /\ ToSet(c.custom) \subseteq Sent
  BY InContext DEF Known
<1>6. BaseFrom(c, locale, base)
  BY <1>1, BaseIs
<1>7. base \in Seq(Known(locale)) /\ NoRepeats(base)
  BY <1>6 DEF BaseFrom
<1>8. MergedFrom(Known(locale), base, c.skills, first)
  BY <1>2, <1>5, <1>7, MergeIs
<1>9. MergedFrom(Known(locale), first, c.custom, merged)
  <2>1. first \in Seq(Known(locale))
    BY <1>8 DEF MergedFrom
  <2> QED BY <2>1, <1>3, <1>5, MergeIs
<1>10. /\ merged \in Seq(Known(locale)) /\ NoRepeats(merged)
       /\ ToSet(base) \subseteq ToSet(merged)
       /\ ToSet(merged) \subseteq ToSet(base) \cup ToSet(c.skills) \cup ToSet(c.custom)
       /\ KeysOf(c.skills) \subseteq KeysOf(merged)
       /\ KeysOf(c.custom) \subseteq KeysOf(merged)
  BY <1>7, <1>8, <1>9 DEF MergedFrom
<1>11. ToSet(base) \subseteq ToSet(c.skills) \cup ToSet(c.managed) \cup ToSet(c.custom)
                              \cup ToSet(LocalManaged(locale))
  BY <1>6 DEF BaseFrom
<1>12. CustomIds(merged) = SentIds(c)
  <2>1. SentIds(c) = {s.id : s \in {e \in ToSet(c.skills) \cup ToSet(c.custom) : IsCustom(e)}}
    <3>1. ToSet(c.skills \o c.custom) = ToSet(c.skills) \cup ToSet(c.custom)
      BY <1>5, Joins
    <3> QED BY <3>1 DEF SentIds, CustomIds
  <2>2. ASSUME NEW e \in ToSet(merged), IsCustom(e)
        PROVE  e \in ToSet(c.skills) \cup ToSet(c.custom)
    BY <2>2, <1>10, <1>11, InContext, LocalIs
  <2>3. ASSUME NEW s \in ToSet(c.skills) \cup ToSet(c.custom), IsCustom(s)
        PROVE  \E e \in ToSet(merged) : IsCustom(e) /\ e.id = s.id
    <3>1. Key(s) \in KeysOf(merged)
      BY <1>10 DEF KeysOf
    <3>2. PICK e \in ToSet(merged) : Key(e) = Key(s)
      BY <3>1 DEF KeysOf
    <3>3. e.source = s.source /\ e.id = s.id
      BY <3>2 DEF Key
    <3> QED BY <3>3, <2>3 DEF IsCustom
  <2>4. ASSUME NEW x \in CustomIds(merged) PROVE x \in SentIds(c)
    <3>1. PICK e \in ToSet(merged) : IsCustom(e) /\ x = e.id
      BY DEF CustomIds
    <3> QED BY <3>1, <2>1, <2>2
  <2>5. ASSUME NEW x \in SentIds(c) PROVE x \in CustomIds(merged)
    <3>1. PICK s \in ToSet(c.skills) \cup ToSet(c.custom) : IsCustom(s) /\ x = s.id
      BY <2>1
    <3> QED BY <3>1, <2>3 DEF CustomIds
  <2> QED BY <2>4, <2>5
<1>13. ManagedIds(merged) = SentManagedIds(c)
  <2>1. \A s \in ToSet(c.skills) : IsManaged(s) => s \in ToSet(base)
    BY <1>1 DEF Base, HasManaged, ToSet
  <2>2. ManagedIds(first) = ManagedIds(base)
    BY <2>1, <1>8, ManagedStay
  <2>3. ManagedIds(merged) = ManagedIds(first)
    BY <1>9, InContext, ManagedStay
  <2> QED BY <2>2, <2>3, <1>6 DEF BaseFrom
<1>14. CASE /\ Origin(c) = "control" /\ ManagedAreSent(c)
            /\ ToSet(base) \subseteq
                  ToSet(c.skills) \cup ToSet(c.managed) \cup ToSet(c.custom)
  BY <1>4, <1>5, <1>10, <1>12, <1>13, <1>14 DEF MergedAll
<1>15. CASE /\ Origin(c) = "fallback_local" /\ ~ManagedAreSent(c)
            /\ ToSet(LocalManaged(locale)) \subseteq ToSet(base)
            /\ ToSet(base) \subseteq ToSet(LocalManaged(locale)) \cup ToSet(c.custom)
  <2>1. \A s \in ToSet(c.skills) : ~IsManaged(s)
    <3>1. ToSet(c.skills \o c.managed) = ToSet(c.skills) \cup ToSet(c.managed)
      BY InContext, Joins
    <3> QED BY <3>1, <1>15 DEF ManagedAreSent
  <2>2. \A s \in ToSet(merged) : IsManaged(s) => s \in ToSet(LocalManaged(locale))
    BY <2>1, <1>10, <1>15, InContext
  <2> QED BY <2>2, <1>4, <1>10, <1>12, <1>13, <1>15 DEF MergedAll
<1> QED BY <1>6, <1>14, <1>15 DEF BaseFrom

-----------------------------------------------------------------------------
(* What the tools read *)

Truthful(c, e) ==
    /\ e.availability \in Outcomes
    /\ e.availability = "unavailable" <=> ~(e.needs \subseteq c.supply)
    /\ e.availability = "available" => e.prefers \subseteq c.supply
    /\ e.missing = (e.needs \cup e.prefers) \ c.supply

\* A list that a tool can answer with: nothing twice, custom skills are control's,
\* managed ones are all of one source, and their availability is what it is said
\* to be.
GoodList(c, skills) ==
    /\ skills \in Seq(ToSet(skills)) /\ NoRepeats(skills)
    /\ CustomIds(skills) = SentIds(c) /\ ManagedIds(skills) = SentManagedIds(c)
    /\ \A e \in ToSet(skills) :
          /\ Truthful(c, e)
          /\ IsManaged(e) <=> ~IsCustom(e)
          /\ IsManaged(e) => (e.text = "control" <=> ManagedAreSent(c))

\* Every local skill is in it, and its managed skills are local ones, with the
\* local copies' contracts.
HoldsLocal(skills) ==
    /\ \A i \in DOMAIN LocalSkills : \E e \in ToSet(skills) :
          IsManaged(e) /\ e.id = LocalSkills[i].id
    /\ \A e \in ToSet(skills) : IsManaged(e) =>
          \E i \in DOMAIN LocalSkills :
             /\ e.id = LocalSkills[i].id /\ e.needs = LocalSkills[i].needs
             /\ e.prefers = LocalSkills[i].prefers

GoodCatalog(c, from) ==
    /\ from.locale \in {"ja", "en"}
    /\ GoodList(c, from.skills)
    /\ \/ from.origin = "control"
       \/ from.origin = "fallback_local" /\ ~ManagedAreSent(c) /\ HoldsLocal(from.skills)

LEMMA EvaluateIs ==
    ASSUME NEW locale, NEW e \in Known(locale), NEW c
    PROVE  /\ Evaluate(e, c.supply).source = e.source /\ Evaluate(e, c.supply).id = e.id
           /\ Evaluate(e, c.supply).text = e.text
           /\ Evaluate(e, c.supply).needs = e.needs
           /\ Evaluate(e, c.supply).prefers = e.prefers
           /\ Truthful(c, Evaluate(e, c.supply))
<1>1. e = [source |-> e.source, id |-> e.id, name |-> e.name, text |-> e.text,
           needs |-> e.needs, prefers |-> e.prefers,
           availability |-> e.availability, missing |-> e.missing]
  <2>1. CASE e \in Sent
    <3>1. e = [source |-> e.source, id |-> e.id, name |-> e.name, text |-> "control",
               needs |-> e.needs, prefers |-> e.prefers,
               availability |-> e.availability, missing |-> e.missing]
      BY <2>1, SentAssumption
    <3> QED BY <3>1, <2>1, SentAre
  <2>2. CASE e \in ToSet(LocalManaged(locale))
    BY <2>2, LocalIs
  <2> QED BY <2>1, <2>2 DEF Known
<1>2. PICK new : new = Evaluate(e, c.supply)
  OBVIOUS
<1>3. /\ new.source = e.source /\ new.id = e.id /\ new.text = e.text
      /\ new.needs = e.needs /\ new.prefers = e.prefers
      /\ new.availability = IF ~(e.needs \subseteq c.supply) THEN "unavailable"
                            ELSE IF ~(e.prefers \subseteq c.supply) THEN "warning"
                            ELSE "available"
      /\ new.missing = (e.needs \cup e.prefers) \ c.supply
  BY <1>1, <1>2 DEF Evaluate
<1>4. Truthful(c, new)
  BY <1>3 DEF Truthful, Outcomes
<1> QED BY <1>2, <1>3, <1>4

\* Evaluating each skill changes nothing that the rest depends on.
LEMMA EvaluatedIs ==
    ASSUME NEW c \in Contexts, NEW locale, NEW merged, merged = Merged(c, locale),
           NEW skills,
           skills = [i \in DOMAIN merged |-> Evaluate(merged[i], c.supply)]
    PROVE  /\ GoodList(c, skills)
           /\ \/ Origin(c) = "control"
              \/ /\ Origin(c) = "fallback_local" /\ ~ManagedAreSent(c)
                 /\ HoldsLocal(skills)
<1>1. MergedAll(c, locale, merged)
  BY MergedIs
<1>2. /\ merged \in Seq(Known(locale)) /\ NoRepeats(merged)
      /\ Len(merged) \in Nat /\ DOMAIN merged = 1..Len(merged)
  BY <1>1 DEF MergedAll
<1>3. DOMAIN skills = 1..Len(merged)
  BY <1>2
<1>4. ASSUME NEW i \in 1..Len(merged)
      PROVE  /\ merged[i] \in Known(locale) /\ merged[i] \in ToSet(merged)
             /\ skills[i] \in ToSet(skills)
             /\ skills[i].source = merged[i].source /\ skills[i].id = merged[i].id
             /\ skills[i].text = merged[i].text
             /\ skills[i].needs = merged[i].needs
             /\ skills[i].prefers = merged[i].prefers
             /\ Truthful(c, skills[i])
  <2>1. merged[i] \in Known(locale) /\ merged[i] \in ToSet(merged)
    BY <1>2 DEF ToSet
  <2>2. skills[i] = Evaluate(merged[i], c.supply)
    BY <1>2
  <2>3. skills[i] \in ToSet(skills)
    BY <1>3 DEF ToSet
  <2> QED BY <2>1, <2>2, <2>3, EvaluateIs
<1>5. \A e \in ToSet(skills) : \E i \in 1..Len(merged) : e = skills[i]
  BY <1>3 DEF ToSet
<1>6. \A s \in ToSet(merged) : \E i \in 1..Len(merged) : s = merged[i]
  BY <1>2 DEF ToSet
<1>7. skills \in Seq(ToSet(skills)) /\ Len(skills) = Len(merged)
  <2>1. \A i \in 1..Len(merged) : Evaluate(merged[i], c.supply) \in ToSet(skills)
    BY <1>2, <1>4
  <2> QED BY <2>1, <1>2
<1>8. NoRepeats(skills)
  <2>1. \A i \in 1..Len(merged) : Key(skills[i]) = Key(merged[i])
    BY <1>4 DEF Key
  <2> QED BY <2>1, <1>2, <1>7 DEF NoRepeats
<1>9. CustomIds(skills) = CustomIds(merged)
  <2>1. ASSUME NEW x \in CustomIds(skills) PROVE x \in CustomIds(merged)
    <3>1. PICK e \in ToSet(skills) : IsCustom(e) /\ x = e.id
      BY DEF CustomIds
    <3>2. PICK i \in 1..Len(merged) : e = skills[i]
      BY <1>5
    <3>3. IsCustom(merged[i]) /\ x = merged[i].id
      BY <3>1, <3>2, <1>4 DEF IsCustom
    <3> QED BY <3>3, <1>4 DEF CustomIds
  <2>2. ASSUME NEW x \in CustomIds(merged) PROVE x \in CustomIds(skills)
    <3>1. PICK s \in ToSet(merged) : IsCustom(s) /\ x = s.id
      BY DEF CustomIds
    <3>2. PICK i \in 1..Len(merged) : s = merged[i]
      BY <1>6
    <3>3. IsCustom(skills[i]) /\ x = skills[i].id
      BY <3>1, <3>2, <1>4 DEF IsCustom
    <3> QED BY <3>3, <1>4 DEF CustomIds
  <2> QED BY <2>1, <2>2
<1>10. ASSUME NEW s \in ToSet(merged)
       PROVE  /\ IsManaged(s) <=> ~IsCustom(s)
              /\ IsManaged(s) => (s.text = "control" <=> ManagedAreSent(c))
  <2>1. s \in Sent \/ s \in ToSet(LocalManaged(locale))
    <3>1. s \in Known(locale)
      BY <1>4, <1>6
    <3> QED BY <3>1 DEF Known
  <2>2. IsManaged(s) <=> ~IsCustom(s)
    BY <2>1, SentAre, LocalIs
  <2> QED BY <2>2, <1>1, SentAre, LocalIs DEF MergedAll
<1>11. ASSUME NEW e \in ToSet(skills)
       PROVE  /\ Truthful(c, e)
              /\ IsManaged(e) <=> ~IsCustom(e)
              /\ IsManaged(e) => (e.text = "control" <=> ManagedAreSent(c))
  <2>1. PICK i \in 1..Len(merged) : e = skills[i]
    BY <1>5
  <2> QED BY <2>1, <1>4, <1>10 DEF IsManaged, IsCustom
<1>12. ManagedIds(skills) = ManagedIds(merged)
  <2>1. ASSUME NEW x \in ManagedIds(skills) PROVE x \in ManagedIds(merged)
    <3>1. PICK e \in ToSet(skills) : IsManaged(e) /\ x = e.id
      BY DEF ManagedIds
    <3>2. PICK i \in 1..Len(merged) : e = skills[i]
      BY <1>5
    <3>3. IsManaged(merged[i]) /\ x = merged[i].id
      BY <3>1, <3>2, <1>4 DEF IsManaged
    <3> QED BY <3>3, <1>4 DEF ManagedIds
  <2>2. ASSUME NEW x \in ManagedIds(merged) PROVE x \in ManagedIds(skills)
    <3>1. PICK s \in ToSet(merged) : IsManaged(s) /\ x = s.id
      BY DEF ManagedIds
    <3>2. PICK i \in 1..Len(merged) : s = merged[i]
      BY <1>6
    <3>3. IsManaged(skills[i]) /\ x = skills[i].id
      BY <3>1, <3>2, <1>4 DEF IsManaged
    <3> QED BY <3>3, <1>4 DEF ManagedIds
  <2> QED BY <2>1, <2>2
<1>13. GoodList(c, skills)
  BY <1>1, <1>7, <1>8, <1>9, <1>11, <1>12 DEF GoodList, MergedAll
<1>14. CASE /\ Origin(c) = "fallback_local" /\ ~ManagedAreSent(c)
            /\ ToSet(LocalManaged(locale)) \subseteq ToSet(merged)
            /\ \A s \in ToSet(merged) : IsManaged(s) => s \in ToSet(LocalManaged(locale))
  <2>1. ASSUME NEW i \in DOMAIN LocalSkills
        PROVE  \E e \in ToSet(skills) : IsManaged(e) /\ e.id = LocalSkills[i].id
    <3>1. LocalManaged(locale)[i] \in ToSet(merged) /\ IsManaged(LocalManaged(locale)[i])
      BY <1>14, LocalIs
    <3>2. PICK j \in 1..Len(merged) : LocalManaged(locale)[i] = merged[j]
      BY <3>1, <1>6
    <3>3. merged[j].id = LocalSkills[i].id
      BY <3>2, LocalIs
    <3>4. IsManaged(skills[j]) /\ skills[j].id = LocalSkills[i].id
      BY <3>1, <3>2, <3>3, <1>4 DEF IsManaged
    <3> QED BY <3>4, <1>4
  <2>2. ASSUME NEW e \in ToSet(skills), IsManaged(e)
        PROVE  \E i \in DOMAIN LocalSkills :
                  /\ e.id = LocalSkills[i].id /\ e.needs = LocalSkills[i].needs
                  /\ e.prefers = LocalSkills[i].prefers
    <3>1. PICK j \in 1..Len(merged) : e = skills[j]
      BY <1>5
    <3>2. merged[j] \in ToSet(LocalManaged(locale))
      BY <3>1, <2>2, <1>4, <1>14 DEF IsManaged
    <3>3. PICK i \in DOMAIN LocalSkills : merged[j] = LocalManaged(locale)[i]
      BY <3>2, LocalIs DEF ToSet
    <3>4. /\ merged[j].id = LocalSkills[i].id /\ merged[j].needs = LocalSkills[i].needs
          /\ merged[j].prefers = LocalSkills[i].prefers
      BY <3>3, LocalIs
    <3> QED BY <3>1, <3>4, <1>4
  <2> QED BY <1>13, <1>14, <2>1, <2>2 DEF HoldsLocal
<1> QED BY <1>1, <1>13, <1>14 DEF MergedAll

\* Places in a list.
LEMMA PlacesAre ==
    ASSUME NEW S, NEW seq \in Seq(S), NEW places \in SUBSET (DOMAIN seq)
    PROVE  places \in SUBSET Nat
<1>1. DOMAIN seq \subseteq Nat
  OBVIOUS
<1> QED BY <1>1

LEMMA LocaleIs ==
    ASSUME NEW hints \in HintLists, NEW japanese
    PROVE  ResolvedLocale(hints, japanese) \in {"ja", "en"}
<1>1. PICK places : places = {i \in DOMAIN hints : Normalized(hints[i]) # NoLocale}
  OBVIOUS
<1>2. places \in SUBSET Nat
  BY <1>1, HintListsAssumption, PlacesAre
<1>3. CASE places = {} /\ FirstAt(hints, places) = <<>>
  BY <1>1, <1>3 DEF ResolvedLocale
<1>4. CASE \E j \in places : /\ FirstAt(hints, places) # <<>>
                            /\ Head(FirstAt(hints, places)) = hints[j]
  <2>1. PICK j \in places : /\ FirstAt(hints, places) # <<>>
                            /\ Head(FirstAt(hints, places)) = hints[j]
    BY <1>4
  <2>2. Normalized(hints[j]) # NoLocale
    BY <1>1
  <2>3. Normalized(hints[j]) \in {"ja", "en"}
    BY <2>2 DEF Normalized
  <2> QED BY <1>1, <2>1, <2>3 DEF ResolvedLocale
<1> QED BY <1>2, <1>3, <1>4, FirstAtIs

\* A local copy is as available as the catalog's skill of the same id, whose
\* contract it has.
LEMMA RelocatedIs ==
    ASSUME NEW c, NEW locale, NEW skills, GoodList(c, skills), HoldsLocal(skills),
           NEW i \in DOMAIN LocalSkills
    PROVE  LET local == LocalManaged(locale)[i]
               new == Relocated(local, skills)
           IN  /\ new.source = local.source /\ new.id = local.id
               /\ new.text = local.text
               /\ Truthful(c, new)
<1>1. PICK local : local = LocalManaged(locale)[i]
  OBVIOUS
<1>2. /\ local \in ToSet(LocalManaged(locale))
      /\ local.id = LocalSkills[i].id /\ local.needs = LocalSkills[i].needs
      /\ local.prefers = LocalSkills[i].prefers
  BY <1>1, LocalIs
<1>3. /\ IsManaged(local)
      /\ local = [source |-> local.source, id |-> local.id, name |-> local.name,
                  text |-> local.text, needs |-> local.needs, prefers |-> local.prefers,
                  availability |-> local.availability, missing |-> local.missing]
  BY <1>2, LocalIs
<1>4. PICK places : places = {k \in DOMAIN skills : Key(skills[k]) = Key(local)}
  OBVIOUS
<1>5. PICK existing : existing = FirstAt(skills, places)
  OBVIOUS
<1>6. places \in SUBSET Nat
  BY <1>4, PlacesAre DEF GoodList
<1>7. places # {}
  <2>1. PICK e \in ToSet(skills) : IsManaged(e) /\ e.id = LocalSkills[i].id
    BY DEF HoldsLocal
  <2>2. Key(e) = Key(local)
    BY <2>1, <1>2, <1>3 DEF Key, IsManaged
  <2> QED BY <2>2, <1>4 DEF ToSet
<1>8. PICK k \in places : existing # <<>> /\ Head(existing) = skills[k]
  BY <1>5, <1>6, <1>7, FirstAtIs
<1>9. skills[k] \in ToSet(skills) /\ Key(skills[k]) = Key(local)
  BY <1>4 DEF ToSet
<1>10. IsManaged(skills[k]) /\ skills[k].id = local.id
  BY <1>9, <1>3 DEF Key, IsManaged
<1>11. skills[k].needs = local.needs /\ skills[k].prefers = local.prefers
  <2>1. PICK j \in DOMAIN LocalSkills :
           /\ skills[k].id = LocalSkills[j].id /\ skills[k].needs = LocalSkills[j].needs
           /\ skills[k].prefers = LocalSkills[j].prefers
    BY <1>9, <1>10 DEF HoldsLocal
  <2>2. j = i
    <3>1. LocalSkills[j].id = LocalSkills[i].id
      BY <2>1, <1>2, <1>10
    <3> QED BY <3>1, LocalSkillsAssumption, Zenon
  <2> QED BY <2>1, <2>2, <1>2
<1>12. PICK new : new = Relocated(local, skills)
  OBVIOUS
<1>13. /\ new.source = local.source /\ new.id = local.id /\ new.text = local.text
       /\ new.needs = local.needs /\ new.prefers = local.prefers
       /\ new.availability = skills[k].availability
       /\ new.missing = skills[k].missing
  <2>1. new = [local EXCEPT !.availability = skills[k].availability,
                           !.missing = skills[k].missing]
    BY <1>4, <1>5, <1>8, <1>12 DEF Relocated
  <2> QED BY <2>1, <1>3
<1>14. Truthful(c, skills[k])
  BY <1>9 DEF GoodList
<1>15. Truthful(c, new)
  BY <1>11, <1>13, <1>14 DEF Truthful
<1> QED BY <1>1, <1>12, <1>13, <1>15

\* In any locale the list is as good as the catalog's.
LEMMA LocalizedIsGood ==
    ASSUME NEW c, NEW from, GoodCatalog(c, from), NEW locale
    PROVE  GoodList(c, LocalizedFrom(from, locale))
<1>1. CASE locale = from.locale \/ from.origin = "control"
  BY <1>1 DEF LocalizedFrom, GoodCatalog
<1>2. CASE ~(locale = from.locale \/ from.origin = "control")
  <2>1. PICK local : local = [i \in DOMAIN LocalSkills |->
                                Relocated(LocalManaged(locale)[i], from.skills)]
    OBVIOUS
  <2>2. PICK customs : customs = Customs(from.skills)
    OBVIOUS
  <2>3. PICK list : list = local \o customs
    OBVIOUS
  <2>4. LocalizedFrom(from, locale) = list
    BY <1>2, <2>1, <2>2, <2>3 DEF LocalizedFrom
  <2>5. /\ GoodList(c, from.skills) /\ ~ManagedAreSent(c) /\ HoldsLocal(from.skills)
    BY <1>2 DEF GoodCatalog
  <2>6. /\ from.skills \in Seq(ToSet(from.skills)) /\ NoRepeats(from.skills)
        /\ CustomIds(from.skills) = SentIds(c)
    BY <2>5 DEF GoodList
  <2>7. CustomsFrom(ToSet(from.skills), from.skills, customs)
    BY <2>2, <2>6, CustomsAre
  <2>8. /\ customs \in Seq(ToSet(from.skills)) /\ NoRepeats(customs)
        /\ ToSet(customs) = {s \in ToSet(from.skills) : IsCustom(s)}
    BY <2>6, <2>7 DEF CustomsFrom
  <2>9. DOMAIN LocalSkills = 1..Len(LocalSkills) /\ Len(LocalSkills) \in Nat
    BY LocalSkillsAssumption
  <2>10. ASSUME NEW i \in 1..Len(LocalSkills)
         PROVE  /\ IsManaged(local[i]) /\ ~IsCustom(local[i])
                /\ Key(local[i]) = Key(LocalManaged(locale)[i])
                /\ local[i].text # "control" /\ Truthful(c, local[i])
    <3>1. local[i] = Relocated(LocalManaged(locale)[i], from.skills)
      BY <2>1, <2>9
    <3>2. /\ local[i].source = LocalManaged(locale)[i].source
          /\ local[i].id = LocalManaged(locale)[i].id
          /\ local[i].text = LocalManaged(locale)[i].text
          /\ Truthful(c, local[i])
      BY <3>1, <2>5, <2>9, RelocatedIs
    <3>3. LocalManaged(locale)[i] \in ToSet(LocalManaged(locale))
      BY <2>9, LocalIs
    <3>4. /\ IsManaged(LocalManaged(locale)[i]) /\ ~IsCustom(LocalManaged(locale)[i])
          /\ LocalManaged(locale)[i].text # "control"
      BY <3>3, LocalIs
    <3> QED BY <3>2, <3>4 DEF IsManaged, IsCustom, Key
  <2>11. DOMAIN local = 1..Len(LocalSkills)
    BY <2>1, <2>9
  <2>12. \A e \in ToSet(local) : \E i \in 1..Len(LocalSkills) : e = local[i]
    BY <2>11 DEF ToSet
  <2>13. local \in Seq(ToSet(local)) /\ Len(local) = Len(LocalSkills)
    <3>1. \A i \in 1..Len(LocalSkills) :
             Relocated(LocalManaged(locale)[i], from.skills) \in ToSet(local)
      BY <2>1, <2>9, <2>11 DEF ToSet
    <3> QED BY <3>1, <2>1, <2>9
  <2>14. NoRepeats(local)
    <3>1. NoRepeats(LocalManaged(locale)) /\ Len(LocalManaged(locale)) = Len(LocalSkills)
      BY LocalIs
    <3> QED BY <3>1, <2>10, <2>13 DEF NoRepeats
  <2>15. /\ list \in Seq(ToSet(list)) /\ ToSet(list) = ToSet(local) \cup ToSet(customs)
    <3>1. customs \in Seq(ToSet(customs))
      BY <2>8 DEF ToSet
    <3>2. /\ local \in Seq(ToSet(local) \cup ToSet(customs))
          /\ customs \in Seq(ToSet(local) \cup ToSet(customs))
      BY <2>13, <3>1
    <3> QED BY <3>2, <2>3, Joins
  <2>16. \A s \in ToSet(customs) : IsCustom(s) /\ ~IsManaged(s)
    BY <2>8 DEF IsCustom, IsManaged
  <2>17. NoRepeats(list)
    <3>1. /\ Len(list) = Len(local) + Len(customs)
          /\ \A n \in 1..Len(local) : list[n] = local[n]
          /\ \A n \in 1..Len(list) : n \notin 1..Len(local) =>
                n - Len(local) \in 1..Len(customs) /\ list[n] = customs[n - Len(local)]
      <4>1. /\ local \in Seq(ToSet(local) \cup ToSet(from.skills))
            /\ customs \in Seq(ToSet(local) \cup ToSet(from.skills))
        BY <2>8, <2>13
      <4> QED BY <4>1, <2>3, JoinsPlaces
    <3>2. ASSUME NEW n \in 1..Len(local), NEW m \in 1..Len(list), m \notin 1..Len(local)
          PROVE  Key(list[n]) # Key(list[m])
      <4>1. IsManaged(list[n])
        BY <3>1, <2>10, <2>13
      <4>2. list[m] \in ToSet(customs)
        BY <3>1, <3>2, <2>8 DEF ToSet
      <4>3. ~IsManaged(list[m])
        BY <4>2, <2>16
      <4> QED BY <4>1, <4>3 DEF Key, IsManaged
    <3>3. ASSUME NEW n \in 1..Len(list), NEW m \in 1..Len(list),
                 Key(list[n]) = Key(list[m])
          PROVE  n = m
      <4>1. CASE n \in 1..Len(local) /\ m \in 1..Len(local)
        BY <4>1, <3>1, <3>3, <2>14 DEF NoRepeats
      <4>2. CASE n \notin 1..Len(local) /\ m \notin 1..Len(local)
        <5>1. n - Len(local) = m - Len(local)
          BY <4>2, <3>1, <3>3, <2>8 DEF NoRepeats
        <5> QED BY <5>1, <2>13, <2>9
      <4> QED BY <4>1, <4>2, <3>2, <3>3
    <3> QED BY <3>3 DEF NoRepeats
  <2>18. CustomIds(list) = SentIds(c)
    <3>1. {e \in ToSet(list) : IsCustom(e)} = {s \in ToSet(from.skills) : IsCustom(s)}
      BY <2>8, <2>10, <2>12, <2>15
    <3> QED BY <3>1, <2>6 DEF CustomIds
  <2>19. ASSUME NEW e \in ToSet(list)
         PROVE  /\ Truthful(c, e)
                /\ IsManaged(e) <=> ~IsCustom(e)
                /\ IsManaged(e) => (e.text = "control" <=> ManagedAreSent(c))
    <3>1. CASE e \in ToSet(local)
      BY <3>1, <2>5, <2>10, <2>12
    <3>2. CASE e \in ToSet(customs)
      BY <3>2, <2>5, <2>8, <2>16 DEF GoodList
    <3> QED BY <3>1, <3>2, <2>15
  <2>20. ManagedIds(list) = SentManagedIds(c)
    <3>1. LocalIds \subseteq ManagedIds(from.skills)
      <4>1. ASSUME NEW x \in LocalIds PROVE x \in ManagedIds(from.skills)
        <5>1. PICK i \in DOMAIN LocalSkills : x = LocalSkills[i].id
          BY DEF LocalIds, ToSet
        <5> QED BY <5>1, <2>5 DEF HoldsLocal, ManagedIds
      <4> QED BY <4>1
    <3>2. ManagedIds(from.skills) \subseteq LocalIds
      <4>1. ASSUME NEW x \in ManagedIds(from.skills) PROVE x \in LocalIds
        <5>1. PICK e \in ToSet(from.skills) : IsManaged(e) /\ x = e.id
          BY DEF ManagedIds
        <5>2. PICK i \in DOMAIN LocalSkills : e.id = LocalSkills[i].id
          BY <5>1, <2>5 DEF HoldsLocal
        <5> QED BY <5>1, <5>2 DEF LocalIds, ToSet
      <4> QED BY <4>1
    <3>3. ASSUME NEW x \in ManagedIds(list) PROVE x \in LocalIds
      <4>1. PICK e \in ToSet(list) : IsManaged(e) /\ x = e.id
        BY DEF ManagedIds
      <4>2. e \in ToSet(local)
        BY <4>1, <2>15, <2>16
      <4>3. PICK i \in 1..Len(LocalSkills) : e = local[i]
        BY <4>2, <2>12
      <4>4. e.id = LocalManaged(locale)[i].id
        BY <4>3, <2>10 DEF Key
      <4>5. x = LocalSkills[i].id
        BY <4>1, <4>4, <2>9, LocalIs
      <4> QED BY <4>5, <2>9 DEF LocalIds, ToSet
    <3>4. ASSUME NEW x \in LocalIds PROVE x \in ManagedIds(list)
      <4>1. PICK i \in DOMAIN LocalSkills : x = LocalSkills[i].id
        BY DEF LocalIds, ToSet
      <4>2. i \in 1..Len(LocalSkills) /\ LocalManaged(locale)[i].id = x
        BY <4>1, <2>9, LocalIs
      <4>3. local[i].id = x /\ IsManaged(local[i])
        BY <4>2, <2>10 DEF Key
      <4>4. local[i] \in ToSet(list)
        BY <4>2, <2>11, <2>15 DEF ToSet
      <4> QED BY <4>3, <4>4 DEF ManagedIds
    <3>5. ManagedIds(from.skills) = SentManagedIds(c)
      BY <2>5 DEF GoodList
    <3> QED BY <3>1, <3>2, <3>3, <3>4, <3>5
  <2> QED BY <2>4, <2>15, <2>17, <2>18, <2>19, <2>20 DEF GoodList
<1> QED BY <1>1, <1>2

\* One of the skills, or none if there is none of that kind.
LEMMA FoundIs ==
    ASSUME NEW skills, skills \in Seq(ToSet(skills)), NEW places \in SUBSET (DOMAIN skills)
    PROVE  \/ places = {} /\ FirstAt(skills, places) = <<>>
           \/ \E j \in places : /\ FirstAt(skills, places) # <<>>
                               /\ Head(FirstAt(skills, places)) = skills[j]
                               /\ ToSet(FirstAt(skills, places)) = {skills[j]}
                               /\ skills[j] \in ToSet(skills)
<1>1. places \in SUBSET Nat
  BY PlacesAre
<1>2. CASE \E j \in places : /\ FirstAt(skills, places) = <<skills[j]>>
                            /\ FirstAt(skills, places) # <<>>
                            /\ Head(FirstAt(skills, places)) = skills[j]
  <2>1. PICK j \in places : /\ FirstAt(skills, places) = <<skills[j]>>
                            /\ FirstAt(skills, places) # <<>>
                            /\ Head(FirstAt(skills, places)) = skills[j]
    BY <1>2
  <2>2. ToSet(<<skills[j]>>) = {skills[j]}
    BY DEF ToSet
  <2>3. skills[j] \in ToSet(skills)
    BY DEF ToSet
  <2> QED BY <2>1, <2>2, <2>3
<1> QED BY <1>1, <1>2, FirstAtIs

\* What is offered is found.
LEMMA DescribeFinds ==
    ASSUME NEW skills, skills \in Seq(ToSet(skills)), NoRepeats(skills),
           \A s \in ToSet(skills) : IsManaged(s) <=> ~IsCustom(s),
           NEW e \in ToSet(skills), NEW hint \in {e.source, NoHint},
           NEW reply, reply = Describe(skills, e.id, hint)
    PROVE  /\ reply # <<>>
           /\ \/ Head(reply) = e
              \/ IsCustom(e) /\ Head(reply).name = e.id
              \/ IsCustom(e) /\ hint = NoHint /\ IsManaged(Head(reply))
<1>1. PICK managedAt : managedAt =
         {i \in DOMAIN skills : IsManaged(skills[i]) /\ skills[i].id = e.id}
  OBVIOUS
<1>2. PICK customAt : customAt =
         {i \in DOMAIN skills :
             IsCustom(skills[i]) /\ e.id \in {skills[i].id, skills[i].name}}
  OBVIOUS
<1>3. PICK managed : managed = FirstAt(skills, managedAt)
  OBVIOUS
<1>4. PICK custom : custom = FirstAt(skills, customAt)
  OBVIOUS
<1>5. reply = CASE hint = "managed" -> managed
                [] hint = "custom" -> custom
                [] OTHER -> IF managed # <<>> THEN managed ELSE custom
  BY <1>1, <1>2, <1>3, <1>4 DEF Describe
<1>6. PICK n \in DOMAIN skills : e = skills[n]
  BY DEF ToSet
<1>7. ASSUME NEW j \in DOMAIN skills, Key(skills[j]) = Key(e) PROVE skills[j] = e
  <2>1. n \in 1..Len(skills) /\ j \in 1..Len(skills)
    OBVIOUS
  <2> QED BY <2>1, <1>6, <1>7 DEF NoRepeats
<1>8. \/ managedAt = {} /\ managed = <<>>
      \/ managed # <<>> /\ \E j \in managedAt : Head(managed) = skills[j]
  BY <1>1, <1>3, FoundIs
<1>9. \/ customAt = {} /\ custom = <<>>
      \/ custom # <<>> /\ \E j \in customAt : Head(custom) = skills[j]
  BY <1>2, <1>4, FoundIs
<1>10. CASE IsManaged(e)
  <2>1. n \in managedAt /\ managed # <<>>
    BY <1>1, <1>6, <1>8, <1>10
  <2>2. PICK j \in managedAt : Head(managed) = skills[j]
    BY <2>1, <1>8
  <2>3. Key(skills[j]) = Key(e)
    BY <2>2, <1>1, <1>10 DEF Key, IsManaged
  <2>4. Head(managed) = e
    BY <2>2, <2>3, <1>1, <1>7
  <2>5. reply = managed
    BY <1>5, <1>10, <2>1 DEF IsManaged, NoHint
  <2> QED BY <2>1, <2>4, <2>5
<1>11. CASE IsCustom(e)
  <2>1. n \in customAt /\ custom # <<>>
    BY <1>2, <1>6, <1>9, <1>11
  <2>2. PICK j \in customAt : Head(custom) = skills[j]
    BY <2>1, <1>9
  <2>3. Head(custom) = e \/ Head(custom).name = e.id
    <3>1. CASE skills[j].id = e.id
      <4>1. Key(skills[j]) = Key(e)
        BY <3>1, <1>2, <1>11 DEF Key, IsCustom
      <4> QED BY <4>1, <2>2, <1>2, <1>7
    <3>2. CASE skills[j].name = e.id
      BY <3>2, <2>2
    <3> QED BY <3>1, <3>2, <1>2
  <2>4. CASE reply = custom
    BY <2>1, <2>3, <2>4, <1>11
  <2>5. CASE reply = managed /\ managed # <<>> /\ hint = NoHint
    <3>1. IsManaged(Head(managed))
      BY <2>5, <1>1, <1>8
    <3> QED BY <3>1, <2>5, <1>11
  <2>6. hint \in {"custom", NoHint}
    BY <1>11 DEF IsCustom
  <2> QED BY <2>4, <2>5, <2>6, <1>5 DEF NoHint
<1> QED BY <1>10, <1>11

LEMMA DescribeIsIn ==
    ASSUME NEW skills, skills \in Seq(ToSet(skills)), NEW ref, NEW hint
    PROVE  ToSet(Describe(skills, ref, hint)) \subseteq ToSet(skills)
<1>1. PICK managed : managed =
         FirstAt(skills, {i \in DOMAIN skills : IsManaged(skills[i]) /\ skills[i].id = ref})
  OBVIOUS
<1>2. PICK custom : custom =
         FirstAt(skills, {i \in DOMAIN skills :
             IsCustom(skills[i]) /\ ref \in {skills[i].id, skills[i].name}})
  OBVIOUS
<1>3. ToSet(managed) \subseteq ToSet(skills) /\ ToSet(custom) \subseteq ToSet(skills)
  <2>1. \A places \in SUBSET (DOMAIN skills) :
           ToSet(FirstAt(skills, places)) \subseteq ToSet(skills)
    BY FoundIs, NoneYet
  <2> QED BY <2>1, <1>1, <1>2
<1>4. Describe(skills, ref, hint) \in {managed, custom}
  BY <1>1, <1>2 DEF Describe
<1> QED BY <1>3, <1>4

-----------------------------------------------------------------------------
(* The invariant *)

AskedOf(from, locale) == IF locale = NoLocale THEN from.locale ELSE locale

\* The offer and the answer are what the tools read from this catalog.
OfferIs(from, o) ==
    \/ o = NoCall
    \/ o.reply = LocalizedFrom(from, AskedOf(from, o.locale))

AnswerIs(from, a) ==
    /\ a.locale \in Locales \cup {NoLocale}
    /\ \/ a = NoCall
       \/ a.tool = "skill_list" /\ a.reply = Customs(from.skills)
       \/ a.tool = "skill_get" /\ a.reply =
             FirstAt(from.skills, {i \in DOMAIN from.skills :
                 IsCustom(from.skills[i]) /\ from.skills[i].id = a.ref})
       \/ /\ a.tool = "skill_catalog"
          /\ a.reply = LocalizedFrom(from, AskedOf(from, a.locale))
       \/ /\ a.tool = "skill_describe"
          /\ a.reply = Describe(LocalizedFrom(from, AskedOf(from, a.locale)),
                                a.ref, a.hint)

SkillsInv ==
    /\ context \in Contexts
    /\ \/ /\ catalog = [locale |-> NoLocale, origin |-> "none", skills |-> <<>>]
          /\ offer = NoCall /\ answer = NoCall
       \/ /\ GoodCatalog(context, catalog)
          /\ OfferIs(catalog, offer) /\ AnswerIs(catalog, answer)

LEMMA SkillsInvStart == Init => SkillsInv
BY DEF Init, SkillsInv

LEMMA SkillsInvStep == SkillsInv /\ [Next]_vars => SkillsInv'
<1> SUFFICES ASSUME SkillsInv, [Next]_vars PROVE SkillsInv'
  OBVIOUS
<1>1. CASE Build
  <2>1. /\ catalog.origin = "none" /\ UNCHANGED <<context, offer, answer>>
        /\ context \in Contexts
    BY <1>1 DEF Build, SkillsInv
  <2>2. offer = NoCall /\ answer = NoCall
    BY <2>1 DEF SkillsInv, GoodCatalog
  <2>3. PICK locale : locale = ResolvedLocale(context.hints, context.japanese)
    OBVIOUS
  <2>4. PICK merged : merged = Merged(context, locale)
    OBVIOUS
  <2>5. PICK skills : skills = [i \in DOMAIN merged |-> Evaluate(merged[i], context.supply)]
    OBVIOUS
  <2>6. catalog' = [locale |-> locale, origin |-> Origin(context), skills |-> skills]
    BY <1>1, <2>3, <2>4, <2>5 DEF Build
  <2>7. locale \in {"ja", "en"}
    BY <2>1, <2>3, LocaleIs DEF Contexts
  <2>8. GoodList(context, skills) /\
        \/ Origin(context) = "control"
        \/ /\ Origin(context) = "fallback_local" /\ ~ManagedAreSent(context)
           /\ HoldsLocal(skills)
    BY <2>1, <2>4, <2>5, EvaluatedIs
  <2>9. GoodCatalog(context, [locale |-> locale, origin |-> Origin(context),
                              skills |-> skills])
    BY <2>7, <2>8 DEF GoodCatalog
  <2>10. NoCall.locale = NoLocale
    BY DEF NoCall, Call
  <2> QED BY <2>1, <2>2, <2>6, <2>9, <2>10 DEF SkillsInv, OfferIs, AnswerIs
<1>2. ASSUME Ready, UNCHANGED <<context, catalog>>
      PROVE  /\ GoodCatalog(context, catalog) /\ OfferIs(catalog, offer)
             /\ context' \in Contexts /\ GoodCatalog(context', catalog')
             /\ offer' = offer => OfferIs(catalog', offer')
  BY <1>2 DEF SkillsInv, Ready
<1>3. CASE SkillList
  <2>1. AnswerIs(catalog, answer')
    BY <1>3 DEF SkillList, AnswerIs, Call
  <2> QED BY <1>2, <1>3, <2>1 DEF SkillList, SkillsInv
<1>4. ASSUME NEW ref \in Refs, SkillGet(ref) PROVE SkillsInv'
  <2>1. AnswerIs(catalog, answer')
    BY <1>4 DEF SkillGet, AnswerIs, Call
  <2> QED BY <1>2, <1>4, <2>1 DEF SkillGet, SkillsInv
<1>5. ASSUME NEW locale \in Locales \cup {NoLocale}, SkillCatalogTool(locale)
      PROVE  SkillsInv'
  <2>1. AnswerIs(catalog, answer') /\ OfferIs(catalog, answer')
    BY <1>5 DEF SkillCatalogTool, AnswerIs, OfferIs, Call, Localized, Asked, AskedOf
  <2> QED BY <1>2, <1>5, <2>1 DEF SkillCatalogTool, SkillsInv
<1>6. ASSUME NEW locale \in Locales \cup {NoLocale}, NEW ref \in Refs,
             NEW hint \in {"managed", "custom", NoHint}, SkillDescribe(ref, hint, locale)
      PROVE  SkillsInv'
  <2>1. AnswerIs(catalog, answer')
    BY <1>6 DEF SkillDescribe, AnswerIs, Call, Localized, Asked, AskedOf
  <2> QED BY <1>2, <1>6, <2>1 DEF SkillDescribe, SkillsInv
<1>7. CASE UNCHANGED vars
  BY <1>7 DEF vars, SkillsInv
<1> QED BY <1>1, <1>3, <1>4, <1>5, <1>6, <1>7 DEF Next

LEMMA SkillsInvAlways == Spec => []SkillsInv
BY SkillsInvStart, SkillsInvStep, PTL DEF Spec

\* What an answer holds is of a good list, and what an offer is, is one.
LEMMA AnswersAreGood ==
    ASSUME SkillsInv
    PROVE  /\ \A e \in ToSet(answer.reply) :
                 /\ Truthful(context, e)
                 /\ IsManaged(e) <=> ~IsCustom(e)
                 /\ IsManaged(e) => (e.text = "control" <=> ManagedAreSent(context))
           /\ offer = NoCall \/ GoodList(context, offer.reply)
<1>1. CASE offer = NoCall /\ answer = NoCall
  <2>1. answer.reply = <<>>
    BY <1>1 DEF NoCall, Call
  <2> QED BY <1>1, <2>1, NoneYet
<1>2. CASE GoodCatalog(context, catalog) /\ OfferIs(catalog, offer) /\ AnswerIs(catalog, answer)
  <2>1. PICK list : list = LocalizedFrom(catalog, AskedOf(catalog, answer.locale))
    OBVIOUS
  <2>2. GoodList(context, list) /\ GoodList(context, catalog.skills)
    BY <1>2, <2>1, LocalizedIsGood DEF GoodCatalog
  <2>3. list \in Seq(ToSet(list)) /\ catalog.skills \in Seq(ToSet(catalog.skills))
    BY <2>2 DEF GoodList
  <2>4. \/ ToSet(answer.reply) \subseteq ToSet(list)
        \/ ToSet(answer.reply) \subseteq ToSet(catalog.skills)
    <3>1. CASE answer = NoCall
      <4>1. answer.reply = <<>>
        BY <3>1 DEF NoCall, Call
      <4> QED BY <4>1, NoneYet
    <3>2. CASE answer.reply = Customs(catalog.skills)
      BY <3>2, <2>3, CustomsAre DEF CustomsFrom
    <3>3. CASE answer.reply = FirstAt(catalog.skills, {i \in DOMAIN catalog.skills :
                 IsCustom(catalog.skills[i]) /\ catalog.skills[i].id = answer.ref})
      <4>1. \A places \in SUBSET (DOMAIN catalog.skills) :
               ToSet(FirstAt(catalog.skills, places)) \subseteq ToSet(catalog.skills)
        BY <2>3, FoundIs, NoneYet
      <4> QED BY <3>3, <4>1
    <3>4. CASE answer.reply = list
      BY <3>4
    <3>5. CASE answer.reply = Describe(list, answer.ref, answer.hint)
      BY <3>5, <2>3, DescribeIsIn
    <3> QED BY <1>2, <2>1, <3>1, <3>2, <3>3, <3>4, <3>5 DEF AnswerIs
  <2>5. offer = NoCall \/ GoodList(context, offer.reply)
    BY <1>2, LocalizedIsGood DEF OfferIs
  <2> QED BY <2>2, <2>4, <2>5 DEF GoodList
<1> QED BY <1>1, <1>2 DEF SkillsInv

\* For every list that control may send: what one tool offers in a locale, the
\* other finds there.
THEOREM OfferedIsDescribed == Spec => []DescribesWhatItOffers
<1>1. ASSUME SkillsInv, answer.tool = "skill_describe", answer.locale = offer.locale,
             NEW e \in ToSet(offer.reply), answer.ref = e.id,
             answer.hint \in {e.source, NoHint}
      PROVE  /\ answer.reply # <<>>
             /\ \/ Head(answer.reply) = e
                \/ IsCustom(e) /\ Head(answer.reply).name = e.id
                \/ IsCustom(e) /\ answer.hint = NoHint
                    /\ IsManaged(Head(answer.reply))
  <2>1. answer # NoCall
    BY <1>1 DEF NoCall, Call
  <2>2. offer # NoCall
    <3>1. NoCall.reply = <<>>
      BY DEF NoCall, Call
    <3> QED BY <1>1, <3>1, NoneYet
  <2>3. /\ GoodCatalog(context, catalog)
        /\ offer.reply = LocalizedFrom(catalog, AskedOf(catalog, answer.locale))
        /\ answer.reply = Describe(offer.reply, answer.ref, answer.hint)
    BY <1>1, <2>1, <2>2 DEF SkillsInv, OfferIs, AnswerIs
  <2>4. GoodList(context, offer.reply)
    BY <2>3, LocalizedIsGood
  <2>5. /\ offer.reply \in Seq(ToSet(offer.reply)) /\ NoRepeats(offer.reply)
        /\ \A s \in ToSet(offer.reply) : IsManaged(s) <=> ~IsCustom(s)
    BY <2>4 DEF GoodList
  <2>6. answer.reply = Describe(offer.reply, e.id, answer.hint)
    BY <1>1, <2>3
  <2> QED BY <1>1, <2>5, <2>6, DescribeFinds
<1>2. SkillsInv => DescribesWhatItOffers
  BY <1>1, Zenon DEF DescribesWhatItOffers
<1> QED BY <1>2, SkillsInvAlways, PTL

\* For every context: no tool says of a skill that it is more available than it is.
THEOREM AvailabilityIsTrue == Spec => []AvailabilityIsReal
<1>1. SkillsInv => AvailabilityIsReal
  BY AnswersAreGood DEF Truthful, AvailabilityIsReal
<1> QED BY <1>1, SkillsInvAlways, PTL

\* For every context: each tool's list has every custom skill control sent, and the
\* catalog exactly the managed skills of one list besides; nothing is made up,
\* mixed or repeated.
THEOREM CatalogKeepsWhatWasSent == Spec => []CatalogIsWhatWasSent
<1>1. SkillsInv => TypeOK
  <2> SUFFICES ASSUME SkillsInv PROVE TypeOK
    OBVIOUS
  <2>1. \A i \in DOMAIN answer.reply : answer.reply[i].availability \in Outcomes
    BY AnswersAreGood DEF ToSet, Truthful
  <2>2. CASE /\ catalog = [locale |-> NoLocale, origin |-> "none", skills |-> <<>>]
             /\ answer = NoCall
    <3>1. answer.locale = NoLocale /\ catalog.skills = <<>>
      BY <2>2 DEF NoCall, Call
    <3> QED BY <2>1, <2>2, <3>1 DEF TypeOK, SkillsInv
  <2>3. CASE GoodCatalog(context, catalog) /\ AnswerIs(catalog, answer)
    <3>1. \A i \in DOMAIN catalog.skills : catalog.skills[i].availability \in Outcomes
      BY <2>3 DEF GoodCatalog, GoodList, ToSet, Truthful
    <3> QED BY <2>1, <2>3, <3>1 DEF TypeOK, SkillsInv, GoodCatalog, AnswerIs
  <2> QED BY <2>2, <2>3 DEF SkillsInv
<1>2. SkillsInv => CustomSkillsAreKept
  <2> SUFFICES ASSUME SkillsInv PROVE CustomSkillsAreKept
    OBVIOUS
  <2>1. CASE answer = NoCall
    <3>1. answer.tool = "none"
      BY <2>1 DEF NoCall, Call
    <3> QED BY <3>1 DEF CustomSkillsAreKept
  <2>2. CASE GoodCatalog(context, catalog) /\ AnswerIs(catalog, answer) /\ answer # NoCall
    <3>1. GoodList(context, catalog.skills)
      BY <2>2 DEF GoodCatalog
    <3>2. /\ catalog.skills \in Seq(ToSet(catalog.skills))
          /\ CustomIds(catalog.skills) = SentIds(context)
      BY <3>1 DEF GoodList
    <3>3. CASE answer.tool = "skill_list" /\ answer.reply = Customs(catalog.skills)
      <4>1. ToSet(answer.reply) = {s \in ToSet(catalog.skills) : IsCustom(s)}
        BY <3>2, <3>3, CustomsAre DEF CustomsFrom
      <4>2. CustomIds(answer.reply) = SentIds(context)
        BY <4>1, <3>2 DEF CustomIds
      <4> QED BY <3>3, <4>2 DEF CustomSkillsAreKept, CustomIds, SentIds
    <3>4. CASE answer.tool = "skill_get" /\ answer.reply =
                 FirstAt(catalog.skills, {i \in DOMAIN catalog.skills :
                     IsCustom(catalog.skills[i]) /\ catalog.skills[i].id = answer.ref})
      <4>1. PICK places : places = {i \in DOMAIN catalog.skills :
                     IsCustom(catalog.skills[i]) /\ catalog.skills[i].id = answer.ref}
        OBVIOUS
      <4>2. answer.reply # <<>> <=> places # {}
        BY <3>2, <3>4, <4>1, FoundIs
      <4>3. places # {} <=> answer.ref \in CustomIds(catalog.skills)
        BY <4>1 DEF CustomIds, ToSet
      <4> QED BY <3>2, <3>4, <4>2, <4>3 DEF CustomSkillsAreKept, CustomIds, SentIds
    <3>5. CASE /\ answer.tool = "skill_catalog"
               /\ answer.reply = LocalizedFrom(catalog, AskedOf(catalog, answer.locale))
      <4>1. GoodList(context, answer.reply)
        BY <2>2, <3>5, LocalizedIsGood
      <4>2. CustomIds(answer.reply) = SentIds(context)
        BY <4>1 DEF GoodList
      <4> QED BY <3>5, <4>2 DEF CustomSkillsAreKept, CustomIds, SentIds
    <3>6. CASE answer.tool = "skill_describe"
      BY <3>6 DEF CustomSkillsAreKept
    <3> QED BY <2>2, <3>3, <3>4, <3>5, <3>6 DEF AnswerIs
  <2> QED BY <2>1, <2>2 DEF SkillsInv
<1>3. SkillsInv => ManagedSkillsAreKept
  <2> SUFFICES ASSUME SkillsInv, answer.tool = "skill_catalog"
               PROVE  ManagedIds(answer.reply) = SentManagedIds(context)
    BY DEF ManagedSkillsAreKept, ManagedIds, SentManagedIds, LocalIds
  <2>1. answer # NoCall
    BY DEF NoCall, Call
  <2>2. /\ GoodCatalog(context, catalog)
        /\ answer.reply = LocalizedFrom(catalog, AskedOf(catalog, answer.locale))
    BY <2>1 DEF SkillsInv, AnswerIs
  <2>3. GoodList(context, answer.reply)
    BY <2>2, LocalizedIsGood
  <2> QED BY <2>3 DEF GoodList
<1>4. SkillsInv => ManagedFromOneSource
  BY AnswersAreGood DEF ManagedFromOneSource, ManagedAreSent
<1>5. SkillsInv => OfferedOnce
  <2> SUFFICES ASSUME SkillsInv PROVE OfferedOnce
    OBVIOUS
  <2>1. CASE offer = NoCall
    BY <2>1 DEF NoCall, Call, OfferedOnce
  <2>2. CASE GoodList(context, offer.reply)
    <3>1. offer.reply \in Seq(ToSet(offer.reply)) /\ NoRepeats(offer.reply)
      BY <2>2 DEF GoodList
    <3>2. DOMAIN offer.reply = 1..Len(offer.reply)
      BY <3>1
    <3> QED BY <3>1, <3>2 DEF NoRepeats, OfferedOnce
  <2> QED BY <2>1, <2>2, AnswersAreGood
<1>6. SkillsInv => CatalogIsWhatWasSent
  BY <1>1, <1>2, <1>3, <1>4, <1>5 DEF CatalogIsWhatWasSent
<1> QED BY <1>6, SkillsInvAlways, PTL

-----------------------------------------------------------------------------
(* ToolSelection *)

\* The state that the selection finds.
Given_ == toolCatalog \in Seq(Tools) /\ limit \in Nat /\ limit >= 1

LEMMA PushAllFolds == ASSUME NEW names PROVE PushAll(names) = Naming!Fold(<<>>, names)
BY Zenon DEF PushAll, Naming!Fold, FoldLeft, Naming!FoldLeft, MapThenFoldSet,
             Naming!MapThenFoldSet, Max, Naming!Max

ListAll(tools) == FoldLeft(PushVisible, <<>>, tools)

LEMMA ListAllFolds == ASSUME NEW tools PROVE ListAll(tools) = Listing!Fold(<<>>, tools)
BY Zenon DEF ListAll, Listing!Fold, FoldLeft, Listing!FoldLeft, MapThenFoldSet,
             Listing!MapThenFoldSet, Max, Listing!Max

\* The j-th tool is the one that a call of its name is about.
IsFirst(tools, j) == \A k \in 1..(j - 1) : tools[k].name # tools[j].name

FirstOfName(tools, tool) ==
    \E j \in 1..Len(tools) : tool = tools[j] /\ IsFirst(tools, j)

\* A list that a provider takes.
WellFormed(selected) ==
    /\ selected \in Seq(Tools)
    /\ Len(selected) <= limit
    /\ \A i, j \in 1..Len(selected) : selected[i].name = selected[j].name => i = j

LEMMA PushKeepsForm ==
    ASSUME Given_, NEW selected, WellFormed(selected), NEW tool \in Tools
    PROVE  /\ WellFormed(PushTool(selected, tool))
           /\ \/ /\ PushTool(selected, tool) = selected
                 /\ Len(selected) = limit \/ tool.name \in Names(selected)
              \/ /\ PushTool(selected, tool) = Append(selected, tool)
                 /\ Len(selected) < limit /\ tool.name \notin Names(selected)
<1>1. CASE Len(selected) >= limit \/ tool.name \in Names(selected)
  BY <1>1 DEF PushTool, WellFormed, Given_
<1>2. CASE Len(selected) < limit /\ tool.name \notin Names(selected)
  <2>1. PushTool(selected, tool) = Append(selected, tool)
    BY <1>2 DEF PushTool, WellFormed, Given_
  <2>2. \A i \in 1..Len(selected) : selected[i].name # tool.name
    BY <1>2 DEF Names, WellFormed
  <2>3. WellFormed(Append(selected, tool))
    BY <1>2, <2>2 DEF WellFormed, Given_
  <2> QED BY <1>2, <2>1, <2>3
<1> QED BY <1>1, <1>2 DEF WellFormed, Given_

LEMMA NamesGrow ==
    ASSUME NEW selected \in Seq(Tools), NEW tool \in Tools
    PROVE  /\ Names(selected) \subseteq Names(Append(selected, tool))
           /\ tool.name \in Names(Append(selected, tool))
<1>1. PICK next : next = Append(selected, tool)
  OBVIOUS
<1>2. /\ Len(selected) \in Nat /\ Len(next) = Len(selected) + 1
      /\ DOMAIN selected = 1..Len(selected) /\ DOMAIN next = 1..Len(next)
      /\ next[Len(next)] = tool
      /\ \A i \in 1..Len(selected) : next[i] = selected[i]
  BY <1>1
<1>3. ASSUME NEW i \in 1..Len(selected) PROVE selected[i].name \in Names(next)
  <2>1. i \in DOMAIN next /\ next[i] = selected[i]
    BY <1>2
  <2> QED BY <2>1 DEF Names
<1>4. next[Len(next)].name \in Names(next)
  <2>1. Len(next) \in DOMAIN next
    BY <1>2
  <2> QED BY <2>1, Zenon DEF Names
<1> QED BY <1>1, <1>2, <1>3, <1>4 DEF Names

\* One more name: nothing happens if the catalog has no tool of it.
LEMMA PushByName ==
    ASSUME Given_, NEW selected, NEW name
    PROVE  \/ /\ name \notin Names(toolCatalog)
              /\ PushToolByName(selected, name) = selected
           \/ \E j \in 1..Len(toolCatalog) :
                 /\ toolCatalog[j].name = name /\ IsFirst(toolCatalog, j)
                 /\ PushToolByName(selected, name) = PushTool(selected, toolCatalog[j])
<1> DEFINE places == {i \in DOMAIN toolCatalog : toolCatalog[i].name = name}
<1>1. places \subseteq Nat /\ places \subseteq 1..Len(toolCatalog)
  BY DEF Given_
<1>2. CASE places = {} /\ FirstAt(toolCatalog, places) = <<>>
  BY <1>2 DEF PushToolByName, Names
<1>3. CASE \E j \in places : /\ \A m \in places : j <= m
                            /\ FirstAt(toolCatalog, places) = <<toolCatalog[j]>>
  <2>1. PICK j \in places : /\ \A m \in places : j <= m
                            /\ FirstAt(toolCatalog, places) = <<toolCatalog[j]>>
    BY <1>3
  <2>2. j \in 1..Len(toolCatalog) /\ toolCatalog[j].name = name
    BY <1>1
  <2>3. IsFirst(toolCatalog, j)
    <3>1. ASSUME NEW k \in 1..(j - 1) PROVE toolCatalog[k].name # toolCatalog[j].name
      <4>1. k \in 1..Len(toolCatalog) /\ ~(j <= k)
        BY <2>2, <1>1
      <4>2. k \notin places
        BY <4>1, <2>1
      <4> QED BY <4>1, <4>2, <2>2 DEF Given_
    <3> QED BY <3>1 DEF IsFirst
  <2>4. PushToolByName(selected, name) = PushTool(selected, toolCatalog[j])
    <3>1. <<toolCatalog[j]>> # <<>> /\ Head(<<toolCatalog[j]>>) = toolCatalog[j]
      OBVIOUS
    <3> QED BY <2>1, <3>1 DEF PushToolByName
  <2> QED BY <2>2, <2>3, <2>4
<1> QED BY <1>1, <1>2, <1>3, FirstAtIs

\* What the loop over names has selected: first tools of these names, in their
\* order, and of every name there is, unless the limit is reached.
SelectedBy(names, selected) ==
    /\ WellFormed(selected)
    /\ \A i \in 1..Len(selected) : FirstOfName(toolCatalog, selected[i])
    /\ \A n \in 1..Len(names) :
          names[n] \in Names(toolCatalog) =>
             names[n] \in Names(selected) \/ Len(selected) = limit
    /\ Len(names) > 0 /\ names[1] \in Names(toolCatalog) =>
          names[1] \in Names(selected)
    /\ \E place \in [1..Len(selected) -> 1..Len(names)] :
          /\ \A i \in 1..Len(selected) : selected[i].name = names[place[i]]
          /\ \A i, j \in 1..Len(selected) : i < j => place[i] < place[j]

LEMMA SelectedByNone == ASSUME Given_ PROVE SelectedBy(<<>>, <<>>)
<1>1. WellFormed(<<>>)
  BY DEF WellFormed, Given_
<1>2. Len(<<>>) = 0 /\ 1..0 = {}
  OBVIOUS
<1>3. [i \in 1..0 |-> 0] \in [1..0 -> 1..0]
  BY <1>2
<1>4. \E place \in [1..Len(<<>>) -> 1..Len(<<>>)] :
         /\ \A i \in 1..Len(<<>>) : <<>>[i].name = <<>>[place[i]]
         /\ \A i, j \in 1..Len(<<>>) : i < j => place[i] < place[j]
  BY <1>2, <1>3
<1>5. \A i \in 1..Len(<<>>) : FirstOfName(toolCatalog, <<>>[i])
  BY <1>2
<1>6. \A n \in 1..Len(<<>>) : <<>>[n] \in Names(toolCatalog) =>
         <<>>[n] \in Names(<<>>) \/ Len(<<>>) = limit
  BY <1>2
<1>7. ~(Len(<<>>) > 0)
  BY <1>2
<1> QED BY <1>1, <1>4, <1>5, <1>6, <1>7, Zenon DEF SelectedBy

\* A name more in the list, and nothing more selected.
LEMMA SelectedStays ==
    ASSUME Given_, NEW E, NEW names \in Seq(E), NEW more \in Seq(E),
           Len(more) = Len(names) + 1, \A n \in 1..Len(names) : more[n] = names[n],
           NEW selected, SelectedBy(names, selected),
           \/ more[Len(more)] \notin Names(toolCatalog)
           \/ more[Len(more)] \in Names(selected)
           \/ Len(selected) = limit
    PROVE  SelectedBy(more, selected)
<1>1. WellFormed(selected) /\ Len(selected) \in Nat /\ Len(names) \in Nat
  BY DEF SelectedBy, WellFormed
<1>2. PICK place \in [1..Len(selected) -> 1..Len(names)] :
          /\ \A i \in 1..Len(selected) : selected[i].name = names[place[i]]
          /\ \A i, j \in 1..Len(selected) : i < j => place[i] < place[j]
  BY DEF SelectedBy
<1>3. \A n \in 1..Len(more) :
          more[n] \in Names(toolCatalog) =>
             more[n] \in Names(selected) \/ Len(selected) = limit
  <2>1. ASSUME NEW n \in 1..Len(more), more[n] \in Names(toolCatalog)
        PROVE  more[n] \in Names(selected) \/ Len(selected) = limit
    <3>1. CASE n = Len(more)
      BY <2>1, <3>1
    <3>2. CASE n \in 1..Len(names)
      BY <2>1, <3>2 DEF SelectedBy
    <3> QED BY <3>1, <3>2, <1>1
  <2> QED BY <2>1
<1>4. ASSUME Len(more) > 0, more[1] \in Names(toolCatalog)
      PROVE  more[1] \in Names(selected)
  <2>1. CASE Len(names) = 0
    <3>1. Len(selected) = 0
      BY <1>1, <1>2, <2>1
    <3> QED BY <3>1, <2>1, <1>4 DEF Given_
  <2>2. CASE Len(names) > 0
    <3>1. names[1] = more[1] /\ names[1] \in Names(selected)
      BY <2>2, <1>1, <1>4 DEF SelectedBy
    <3> QED BY <3>1
  <2> QED BY <2>1, <2>2, <1>1
<1>5. /\ place \in [1..Len(selected) -> 1..Len(more)]
      /\ \A i \in 1..Len(selected) : selected[i].name = more[place[i]]
  <2>1. \A i \in 1..Len(selected) :
           place[i] \in 1..Len(names) /\ place[i] \in 1..Len(more)
    BY <1>1, <1>2
  <2> QED BY <2>1, <1>2
<1>6. \A i \in 1..Len(selected) : FirstOfName(toolCatalog, selected[i])
  BY DEF SelectedBy
<1> QED BY <1>1, <1>2, <1>3, <1>4, <1>5, <1>6 DEF SelectedBy

\* A name more in the list, and the first tool of that name.
LEMMA SelectedGrows ==
    ASSUME Given_, NEW E, NEW names \in Seq(E), NEW more \in Seq(E),
           Len(more) = Len(names) + 1, \A n \in 1..Len(names) : more[n] = names[n],
           NEW selected, SelectedBy(names, selected),
           NEW t \in 1..Len(toolCatalog), toolCatalog[t].name = more[Len(more)],
           IsFirst(toolCatalog, t),
           NEW next, next = Append(selected, toolCatalog[t]), WellFormed(next)
    PROVE  SelectedBy(more, next)
<1>1. WellFormed(selected) /\ Len(selected) \in Nat /\ Len(names) \in Nat
  BY DEF SelectedBy, WellFormed
<1>2. PICK place \in [1..Len(selected) -> 1..Len(names)] :
          /\ \A i \in 1..Len(selected) : selected[i].name = names[place[i]]
          /\ \A i, j \in 1..Len(selected) : i < j => place[i] < place[j]
  BY DEF SelectedBy
<1>3. /\ Len(next) = Len(selected) + 1 /\ next[Len(next)] = toolCatalog[t]
      /\ \A i \in 1..Len(selected) : next[i] = selected[i]
  BY <1>1 DEF WellFormed, Given_
<1>4. Names(selected) \subseteq Names(next) /\ more[Len(more)] \in Names(next)
  <2>1. toolCatalog[t] \in Tools /\ selected \in Seq(Tools)
    BY <1>1 DEF Given_, WellFormed
  <2> QED BY <2>1, NamesGrow
<1>5. ASSUME NEW i \in 1..Len(next) PROVE FirstOfName(toolCatalog, next[i])
  <2>1. CASE i \in 1..Len(selected)
    BY <2>1, <1>3 DEF SelectedBy
  <2>2. CASE i \notin 1..Len(selected)
    <3>1. next[i] = toolCatalog[t]
      BY <2>2, <1>1, <1>3
    <3> QED BY <3>1 DEF FirstOfName
  <2> QED BY <2>1, <2>2
<1>6. Len(selected) + 1 <= limit
  BY <1>3 DEF WellFormed
<1>7. \A n \in 1..Len(more) :
         more[n] \in Names(toolCatalog) => more[n] \in Names(next) \/ Len(next) = limit
  <2>1. ASSUME NEW n \in 1..Len(names), names[n] \in Names(toolCatalog)
        PROVE  names[n] \in Names(next)
    <3>1. names[n] \in Names(selected) \/ Len(selected) = limit
      BY <2>1 DEF SelectedBy
    <3>2. Len(selected) # limit
      BY <1>6, <1>1 DEF Given_
    <3> QED BY <3>1, <3>2, <1>4
  <2>2. ASSUME NEW n \in 1..Len(more), more[n] \in Names(toolCatalog)
        PROVE  more[n] \in Names(next)
    <3>1. CASE n = Len(more)
      BY <3>1, <1>4
    <3>2. CASE n \in 1..Len(names)
      BY <3>2, <2>1, <2>2
    <3> QED BY <3>1, <3>2, <1>1
  <2> QED BY <2>2
<1>8. ASSUME Len(more) > 0, more[1] \in Names(toolCatalog)
      PROVE  more[1] \in Names(next)
  <2>1. CASE Len(names) = 0
    <3>1. Len(more) = 1
      BY <2>1
    <3> QED BY <3>1, <1>4
  <2>2. CASE Len(names) > 0
    <3>1. names[1] = more[1] /\ names[1] \in Names(selected)
      BY <2>2, <1>1, <1>8 DEF SelectedBy
    <3> QED BY <3>1, <1>4
  <2> QED BY <2>1, <2>2, <1>1
<1> DEFINE longer == [i \in 1..Len(next) |->
                        IF i = Len(next) THEN Len(more) ELSE place[i]]
<1>9. /\ longer \in [1..Len(next) -> 1..Len(more)]
      /\ \A i \in 1..Len(next) : next[i].name = more[longer[i]]
      /\ \A i, j \in 1..Len(next) : i < j => longer[i] < longer[j]
  <2>1. ASSUME NEW i \in 1..Len(selected)
        PROVE  place[i] \in 1..Len(names) /\ longer[i] = place[i]
    <3>1. i \in 1..Len(next) /\ i # Len(next)
      BY <1>1, <1>3
    <3> QED BY <3>1, <1>2
  <2>2. longer[Len(next)] = Len(more)
    BY <1>1, <1>3
  <2>3. longer \in [1..Len(next) -> 1..Len(more)]
    <3>1. \A i \in 1..Len(next) :
             (IF i = Len(next) THEN Len(more) ELSE place[i]) \in 1..Len(more)
      BY <2>1, <1>1, <1>2, <1>3
    <3> QED BY <3>1
  <2> HIDE DEF longer
  <2>4. \A i \in 1..Len(next) : i \in 1..Len(selected) \/ i = Len(next)
    BY <1>1, <1>3
  <2>5. \A i \in 1..Len(selected) : next[i].name = more[longer[i]]
    BY <2>1, <1>2, <1>3
  <2>6. next[Len(next)].name = more[longer[Len(next)]]
    BY <2>2, <1>3
  <2>7. ASSUME NEW i \in 1..Len(next), NEW j \in 1..Len(next), i < j
        PROVE  longer[i] < longer[j]
    <3>1. i \in 1..Len(selected)
      BY <2>7, <1>1, <1>3
    <3>2. CASE j = Len(next)
      BY <3>1, <3>2, <2>1, <2>2, <1>1
    <3>3. CASE j \in 1..Len(selected)
      BY <3>1, <3>3, <2>1, <1>2, <2>7
    <3> QED BY <3>2, <3>3, <2>4
  <2>8. \A i \in 1..Len(next) : next[i].name = more[longer[i]]
    BY <2>4, <2>5, <2>6
  <2> QED BY <2>3, <2>7, <2>8
<1> HIDE DEF longer
<1> QED BY <1>5, <1>7, <1>8, <1>9 DEF SelectedBy

LEMMA SelectedByOneMore ==
    ASSUME Given_, NEW E, NEW names \in Seq(E), NEW selected, NEW name \in E,
           SelectedBy(names, selected)
    PROVE  SelectedBy(Append(names, name), PushToolByName(selected, name))
<1>0. Append(names, name) \in Seq(E)
  OBVIOUS
<1>1. PICK more \in Seq(E) : more = Append(names, name)
  BY <1>0, Zenon
<1>2. PICK next : next = PushToolByName(selected, name)
  OBVIOUS
<1>3. /\ Len(more) = Len(names) + 1 /\ more[Len(more)] = name
      /\ \A n \in 1..Len(names) : more[n] = names[n]
  BY <1>1
<1>4. WellFormed(selected)
  BY DEF SelectedBy
<1>5. CASE name \notin Names(toolCatalog) /\ next = selected
  <2>1. SelectedBy(more, selected)
    BY <1>3, <1>5, SelectedStays
  <2> QED BY <2>1, <1>1, <1>2, <1>5
<1>6. CASE \E t \in 1..Len(toolCatalog) :
              /\ toolCatalog[t].name = name /\ IsFirst(toolCatalog, t)
              /\ next = PushTool(selected, toolCatalog[t])
  <2>1. PICK t \in 1..Len(toolCatalog) :
              /\ toolCatalog[t].name = name /\ IsFirst(toolCatalog, t)
              /\ next = PushTool(selected, toolCatalog[t])
    BY <1>6
  <2>2. toolCatalog[t] \in Tools
    BY DEF Given_
  <2>3. CASE next = selected /\ (Len(selected) = limit \/ name \in Names(selected))
    <3>1. SelectedBy(more, selected)
      BY <1>3, <2>3, SelectedStays
    <3> QED BY <3>1, <1>1, <1>2, <2>3
  <2>4. CASE next = Append(selected, toolCatalog[t])
    <3>1. WellFormed(PushTool(selected, toolCatalog[t]))
      BY <2>2, <1>4, PushKeepsForm
    <3>2. SelectedBy(more, next)
      BY <1>3, <2>1, <2>4, <3>1, WellFormed(next), SelectedGrows
    <3> QED BY <3>2, <1>1, <1>2
  <2>5. \/ /\ PushTool(selected, toolCatalog[t]) = selected
           /\ Len(selected) = limit \/ toolCatalog[t].name \in Names(selected)
        \/ PushTool(selected, toolCatalog[t]) = Append(selected, toolCatalog[t])
    BY <2>2, <1>4, PushKeepsForm
  <2> QED BY <2>1, <2>3, <2>4, <2>5
<1> QED BY <1>5, <1>6, <1>2, PushByName

LEMMA AllSelectedBy ==
    ASSUME Given_, NEW E, NEW names \in Seq(E)
    PROVE  SelectedBy(names, PushAll(names))
<1> DEFINE T == {seq \in Seq(E) : SelectedBy(seq, Naming!Fold(<<>>, seq))}
<1>1. <<>> \in T
  <2>1. SelectedBy(<<>>, Naming!Fold(<<>>, <<>>))
    BY SelectedByNone, Naming!FoldEmpty
  <2> QED BY <2>1
<1>2. ASSUME NEW seq \in Seq(E), NEW e \in E, seq \in T
      PROVE  Append(seq, e) \in T
  <2>1. Naming!Fold(<<>>, Append(seq, e)) = PushToolByName(Naming!Fold(<<>>, seq), e)
    BY Naming!FoldAppend
  <2>2. SelectedBy(Append(seq, e), PushToolByName(Naming!Fold(<<>>, seq), e))
    BY <1>2, SelectedByOneMore
  <2>3. Append(seq, e) \in Seq(E)
    OBVIOUS
  <2> QED BY <2>1, <2>2, <2>3
<1> HIDE DEF T
<1>3. Seq(E) \subseteq T
  BY <1>1, <1>2, Naming!SequenceInduction
<1>4. SelectedBy(names, Naming!Fold(<<>>, names))
  BY <1>3 DEF T
<1> QED BY <1>4, PushAllFolds

-----------------------------------------------------------------------------
\* What the loop over the catalog has listed: first tools, all for the model to
\* see, and all of these unless the limit is reached.
ListedFrom(tools, selected) ==
    /\ WellFormed(selected)
    /\ \A i \in 1..Len(selected) :
          FirstOfName(tools, selected[i]) /\ selected[i].name \notin HiddenModelTools
    /\ \A n \in 1..Len(tools) :
          tools[n].name \notin HiddenModelTools =>
             tools[n].name \in Names(selected) \/ Len(selected) = limit

LEMMA ListedFromNone == ASSUME Given_ PROVE ListedFrom(<<>>, <<>>)
<1>1. WellFormed(<<>>)
  BY DEF WellFormed, Given_
<1>2. Len(<<>>) = 0 /\ 1..0 = {}
  OBVIOUS
<1>3. \A i \in 1..Len(<<>>) :
         FirstOfName(<<>>, <<>>[i]) /\ <<>>[i].name \notin HiddenModelTools
  BY <1>2
<1>4. \A n \in 1..Len(<<>>) : <<>>[n].name \notin HiddenModelTools =>
         <<>>[n].name \in Names(<<>>) \/ Len(<<>>) = limit
  BY <1>2
<1> QED BY <1>1, <1>3, <1>4, Zenon DEF ListedFrom

\* A tool more in the catalog, and nothing more listed.
LEMMA ListedStays ==
    ASSUME Given_, NEW tools \in Seq(Tools), NEW more \in Seq(Tools),
           Len(more) = Len(tools) + 1, \A n \in 1..Len(tools) : more[n] = tools[n],
           NEW selected, ListedFrom(tools, selected),
           \/ more[Len(more)].name \in HiddenModelTools
           \/ more[Len(more)].name \in Names(selected)
           \/ Len(selected) = limit
    PROVE  ListedFrom(more, selected)
<1>1. WellFormed(selected) /\ Len(tools) \in Nat
  BY DEF ListedFrom
<1>2. \A n \in 1..Len(more) : n \in 1..Len(tools) \/ n = Len(more)
  BY <1>1
<1>3. ASSUME NEW i \in 1..Len(selected)
      PROVE  FirstOfName(more, selected[i]) /\ selected[i].name \notin HiddenModelTools
  <2>1. PICK j \in 1..Len(tools) : selected[i] = tools[j] /\ IsFirst(tools, j)
    BY <1>3 DEF ListedFrom, FirstOfName
  <2>2. j \in 1..Len(more) /\ more[j] = tools[j]
    BY <1>1
  <2>3. \A k \in 1..(j - 1) : k \in 1..Len(tools) /\ more[k] = tools[k]
    BY <1>1
  <2>4. IsFirst(more, j)
    BY <2>1, <2>2, <2>3 DEF IsFirst
  <2> QED BY <2>1, <2>2, <2>4 DEF ListedFrom, FirstOfName
<1>4. ASSUME NEW n \in 1..Len(more), more[n].name \notin HiddenModelTools
      PROVE  more[n].name \in Names(selected) \/ Len(selected) = limit
  <2>1. CASE n = Len(more)
    BY <2>1, <1>4
  <2>2. CASE n \in 1..Len(tools)
    BY <2>2, <1>4 DEF ListedFrom
  <2> QED BY <2>1, <2>2, <1>2
<1> QED BY <1>1, <1>3, <1>4 DEF ListedFrom

\* A tool more in the catalog, of a name that is not listed.
LEMMA ListedGrows ==
    ASSUME Given_, NEW tools \in Seq(Tools), NEW more \in Seq(Tools),
           Len(more) = Len(tools) + 1, \A n \in 1..Len(tools) : more[n] = tools[n],
           NEW selected, ListedFrom(tools, selected),
           more[Len(more)].name \notin HiddenModelTools,
           more[Len(more)].name \notin Names(selected), Len(selected) < limit,
           NEW next, next = Append(selected, more[Len(more)]), WellFormed(next)
    PROVE  ListedFrom(more, next)
<1>1. /\ WellFormed(selected) /\ selected \in Seq(Tools)
      /\ Len(tools) \in Nat /\ Len(selected) \in Nat
  BY DEF ListedFrom, WellFormed
<1>2. /\ Len(next) = Len(selected) + 1 /\ next[Len(next)] = more[Len(more)]
      /\ \A i \in 1..Len(selected) : next[i] = selected[i]
      /\ \A i \in 1..Len(next) : i \in 1..Len(selected) \/ i = Len(next)
  <2>1. more[Len(more)] \in Tools
    BY <1>1
  <2> QED BY <2>1, <1>1
<1>3. \A n \in 1..Len(more) : n \in 1..Len(tools) \/ n = Len(more)
  BY <1>1
<1>4. \A n \in 1..Len(tools) :
         tools[n].name \notin HiddenModelTools => tools[n].name \in Names(selected)
  <2>1. Len(selected) # limit
    BY <1>1 DEF Given_
  <2> QED BY <2>1 DEF ListedFrom
<1>5. Names(selected) \subseteq Names(next) /\ more[Len(more)].name \in Names(next)
  <2>1. more[Len(more)] \in Tools
    BY <1>1
  <2> QED BY <2>1, <1>1, NamesGrow
<1>6. ASSUME NEW i \in 1..Len(next)
      PROVE  FirstOfName(more, next[i]) /\ next[i].name \notin HiddenModelTools
  <2>1. CASE i \in 1..Len(selected)
    <3>1. PICK j \in 1..Len(tools) : selected[i] = tools[j] /\ IsFirst(tools, j)
      BY <2>1 DEF ListedFrom, FirstOfName
    <3>2. j \in 1..Len(more) /\ more[j] = tools[j]
      BY <1>1
    <3>3. \A k \in 1..(j - 1) : k \in 1..Len(tools) /\ more[k] = tools[k]
      BY <1>1
    <3>4. IsFirst(more, j)
      BY <3>1, <3>2, <3>3 DEF IsFirst
    <3>5. FirstOfName(more, selected[i])
      BY <3>1, <3>2, <3>4 DEF FirstOfName
    <3> QED BY <3>5, <2>1, <1>2 DEF ListedFrom
  <2>2. CASE i = Len(next)
    <3>1. ASSUME NEW k \in 1..(Len(more) - 1)
          PROVE  more[k].name # more[Len(more)].name
      <4>1. k \in 1..Len(tools) /\ more[k] = tools[k]
        BY <1>1
      <4> QED BY <4>1, <1>4
    <3>2. IsFirst(more, Len(more)) /\ Len(more) \in 1..Len(more)
      BY <3>1, <1>1 DEF IsFirst
    <3>3. FirstOfName(more, more[Len(more)])
      BY <3>2 DEF FirstOfName
    <3> QED BY <3>3, <2>2, <1>2
  <2> QED BY <2>1, <2>2, <1>2
<1>7. ASSUME NEW n \in 1..Len(more), more[n].name \notin HiddenModelTools
      PROVE  more[n].name \in Names(next)
  <2>1. CASE n = Len(more)
    BY <2>1, <1>5
  <2>2. CASE n \in 1..Len(tools)
    BY <2>2, <1>4, <1>5, <1>7
  <2> QED BY <2>1, <2>2, <1>3
<1> QED BY <1>6, <1>7 DEF ListedFrom

LEMMA ListedFromOneMore ==
    ASSUME Given_, NEW tools \in Seq(Tools), NEW selected, NEW tool \in Tools,
           ListedFrom(tools, selected)
    PROVE  ListedFrom(Append(tools, tool), PushVisible(selected, tool))
<1>0. Append(tools, tool) \in Seq(Tools)
  OBVIOUS
<1>1. PICK more \in Seq(Tools) : more = Append(tools, tool)
  BY <1>0, Zenon
<1>2. /\ Len(more) = Len(tools) + 1 /\ more[Len(more)] = tool
      /\ \A n \in 1..Len(tools) : more[n] = tools[n]
  BY <1>1
<1>3. WellFormed(selected)
  BY DEF ListedFrom
<1>4. CASE tool.name \in HiddenModelTools
  <2>1. ListedFrom(more, selected)
    BY <1>2, <1>4, ListedStays
  <2> QED BY <2>1, <1>1, <1>4 DEF PushVisible
<1>5. CASE tool.name \notin HiddenModelTools
  <2>1. PushVisible(selected, tool) = PushTool(selected, tool)
    BY <1>5 DEF PushVisible
  <2>2. CASE /\ PushTool(selected, tool) = selected
             /\ Len(selected) = limit \/ tool.name \in Names(selected)
    <3>1. ListedFrom(more, selected)
      BY <1>2, <2>2, ListedStays
    <3> QED BY <3>1, <2>1, <2>2, <1>1
  <2>3. CASE /\ PushTool(selected, tool) = Append(selected, tool)
             /\ Len(selected) < limit /\ tool.name \notin Names(selected)
    <3>1. WellFormed(Append(selected, tool))
      BY <1>3, <2>3, PushKeepsForm
    <3>2. ListedFrom(more, Append(selected, tool))
      BY <1>2, <1>5, <2>3, <3>1, ListedGrows
    <3> QED BY <3>2, <2>1, <2>3, <1>1
  <2> QED BY <2>2, <2>3, <1>3, PushKeepsForm
<1> QED BY <1>4, <1>5

LEMMA AllListedFrom ==
    ASSUME Given_
    PROVE  ListedFrom(toolCatalog, FullCatalog)
<1> DEFINE T == {tools \in Seq(Tools) : ListedFrom(tools, Listing!Fold(<<>>, tools))}
<1>1. <<>> \in T
  <2>1. ListedFrom(<<>>, Listing!Fold(<<>>, <<>>))
    BY ListedFromNone, Listing!FoldEmpty
  <2> QED BY <2>1
<1>2. ASSUME NEW tools \in Seq(Tools), NEW tool \in Tools, tools \in T
      PROVE  Append(tools, tool) \in T
  <2>1. Listing!Fold(<<>>, Append(tools, tool)) = PushVisible(Listing!Fold(<<>>, tools), tool)
    BY Listing!FoldAppend
  <2>2. ListedFrom(Append(tools, tool), PushVisible(Listing!Fold(<<>>, tools), tool))
    BY <1>2, ListedFromOneMore
  <2>3. Append(tools, tool) \in Seq(Tools)
    OBVIOUS
  <2> QED BY <2>1, <2>2, <2>3
<1> HIDE DEF T
<1>3. Seq(Tools) \subseteq T
  BY <1>1, <1>2, Listing!SequenceInduction
<1>4. ListedFrom(toolCatalog, Listing!Fold(<<>>, toolCatalog))
  BY <1>3 DEF T, Given_
<1>5. FullCatalog = Listing!Fold(<<>>, toolCatalog)
  BY ListAllFolds DEF FullCatalog, ListAll
<1> QED BY <1>4, <1>5

-----------------------------------------------------------------------------
AreJoined(E, a, b, c) ==
    /\ c \in Seq(E) /\ Len(c) = 34
    /\ \A n \in 1..30 : c[n] = a[n]
    /\ Range(a) = {c[n] : n \in 1..30}
    /\ Range(b) = {c[n] : n \in 31..34}

LEMMA Joined ==
    ASSUME NEW E, NEW a \in Seq(E), NEW b \in Seq(E), Len(a) = 30, Len(b) = 4,
           NEW c, c = a \o b
    PROVE  AreJoined(E, a, b, c)
<1>1. /\ c \in Seq(E) /\ Len(c) = Len(a) + Len(b)
      /\ \A i \in 1..Len(a) + Len(b) :
            c[i] = IF i <= Len(a) THEN a[i] ELSE b[i - Len(a)]
  BY ConcatProperties, Zenon
<1>2. Len(c) = Len(a) + Len(b)
  BY <1>1
<1>3. Len(c) = 34
  BY <1>2
<1>4. \A i \in 1..34 : c[i] = IF i <= 30 THEN a[i] ELSE b[i - 30]
  <2>1. 30 + 4 = 34
    OBVIOUS
  <2> QED BY <1>1, <2>1, Zenon
<1>5. ASSUME NEW n \in 1..30 PROVE c[n] = a[n]
  <2>1. n \in 1..34 /\ n <= 30
    OBVIOUS
  <2> QED BY <2>1, <1>4, Zenon
<1>6. ASSUME NEW n \in 31..34 PROVE n - 30 \in 1..4 /\ c[n] = b[n - 30]
  <2>1. n \in 1..34 /\ ~(n <= 30) /\ n - 30 \in 1..4
    OBVIOUS
  <2> QED BY <2>1, <1>4, Zenon
<1>7. ASSUME NEW m \in 1..4 PROVE m + 30 \in 31..34 /\ c[m + 30] = b[m]
  <2>1. m + 30 \in 31..34 /\ (m + 30) - 30 = m
    OBVIOUS
  <2> QED BY <2>1, <1>6, Zenon
<1>8. DOMAIN a = 1..30 /\ DOMAIN b = 1..4
  OBVIOUS
<1>9. Range(a) = {c[n] : n \in 1..30}
  <2>1. ASSUME NEW x \in Range(a) PROVE x \in {c[n] : n \in 1..30}
    <3>1. PICK n \in 1..30 : x = a[n]
      BY <1>8 DEF Range
    <3> QED BY <3>1, <1>5
  <2>2. ASSUME NEW n \in 1..30 PROVE c[n] \in Range(a)
    BY <1>5, <1>8 DEF Range
  <2> QED BY <2>1, <2>2
<1>10. Range(b) = {c[n] : n \in 31..34}
  <2>1. ASSUME NEW x \in Range(b) PROVE x \in {c[n] : n \in 31..34}
    <3>1. PICK m \in 1..4 : x = b[m]
      BY <1>8 DEF Range
    <3> QED BY <3>1, <1>7
  <2>2. ASSUME NEW n \in 31..34 PROVE c[n] \in Range(b)
    BY <1>6, <1>8 DEF Range
  <2> QED BY <2>1, <2>2
<1> QED BY <1>1, <1>3, <1>5, <1>9, <1>10 DEF AreJoined

\* The two lists of names have each name once, and no hidden one.
Listed == Range(CoreDirectToolNames) \cup Range(FallbackDiscoveryToolNames)

LEMMA OrderIs ==
    /\ CoreDirectToolNames \in Seq(Listed) /\ Order \in Seq(Listed)
    /\ Len(CoreDirectToolNames) = 30 /\ Len(Order) = 34
    /\ \A n \in 1..30 : Order[n] = CoreDirectToolNames[n]
    /\ CoreDirectToolNames[1] = ToolboxToolName
    /\ Range(CoreDirectToolNames) = {Order[n] : n \in 1..30}
    /\ Range(FallbackDiscoveryToolNames) = {Order[n] : n \in 31..34}
<1>1. /\ CoreDirectToolNames \in Seq(Range(CoreDirectToolNames))
      /\ Len(CoreDirectToolNames) = 30 /\ CoreDirectToolNames[1] = ToolboxToolName
  BY DEF CoreDirectToolNames, ToolboxToolName, Range
<1>2. /\ FallbackDiscoveryToolNames \in Seq(Range(FallbackDiscoveryToolNames))
      /\ Len(FallbackDiscoveryToolNames) = 4
  BY DEF FallbackDiscoveryToolNames, Range
<1>3. CoreDirectToolNames \in Seq(Listed) /\ FallbackDiscoveryToolNames \in Seq(Listed)
  BY <1>1, <1>2 DEF Listed
<1>4. Order = CoreDirectToolNames \o FallbackDiscoveryToolNames
  BY DEF Order
<1>5. /\ Order \in Seq(Listed) /\ Len(Order) = 34
      /\ \A n \in 1..30 : Order[n] = CoreDirectToolNames[n]
      /\ Range(CoreDirectToolNames) = {Order[n] : n \in 1..30}
      /\ Range(FallbackDiscoveryToolNames) = {Order[n] : n \in 31..34}
  <2>1. Len(CoreDirectToolNames) = 30 /\ Len(FallbackDiscoveryToolNames) = 4
    BY <1>1, <1>2
  <2>2. AreJoined(Listed, CoreDirectToolNames, FallbackDiscoveryToolNames, Order)
    BY <1>3, <1>4, <2>1, Joined
  <2> QED BY <2>2 DEF AreJoined
<1> QED BY <1>1, <1>3, <1>5

LEMMA OrderHidesNone == \A n \in 1..34 : Order[n] \notin HiddenModelTools
BY DEF Order, CoreDirectToolNames, FallbackDiscoveryToolNames, HiddenModelTools,
       ToolboxToolName

LEMMA OrderRepeatsNone == \A m, n \in 1..34 : Order[m] = Order[n] => m = n
BY DEF Order, CoreDirectToolNames, FallbackDiscoveryToolNames, ToolboxToolName

LEMMA PlaceIs == \A n \in 1..34 : Place(Order[n]) = n
<1>1. DOMAIN Order = 1..34
  BY OrderIs
<1>2. ASSUME NEW n \in 1..34 PROVE Place(Order[n]) = n
  <2>1. Place(Order[n]) \in 1..34 /\ Order[Place(Order[n])] = Order[n]
    BY <1>1, Zenon DEF Place
  <2> QED BY <2>1, OrderRepeatsNone
<1> QED BY <1>2

\* The properties, of any list.
AsListed(list) ==
    /\ Len(list) <= limit
    /\ \A i, j \in DOMAIN list : list[i].name = list[j].name => i = j
    /\ \A i \in DOMAIN list : FirstOfName(toolCatalog, list[i])

WithinReach(list) ==
    \A name \in Names(toolCatalog) \ (Names(list) \cup HiddenModelTools) :
        \/ HasToolbox /\ ToolboxToolName \in Names(list)
        \/ /\ ~HasToolbox
           /\ \/ Names(list) \cap Range(FallbackDiscoveryToolNames) # {}
              \/ Len(list) = limit
              \/ Names(toolCatalog) \cap Range(FallbackDiscoveryToolNames) = {}

InOrder(list) ==
    Names(toolCatalog) \cap Range(CoreDirectToolNames) # {} =>
        \A i, j \in DOMAIN list : i < j => Place(list[i].name) < Place(list[j].name)

Sound(list) ==
    /\ AsListed(list)
    /\ Names(list) \cap HiddenModelTools = {}
    /\ WithinReach(list)
    /\ InOrder(list)

\* The names that are asked for: the core ones, and without the toolbox also
\* those for discovery.
AskedNames == IF HasToolbox THEN CoreDirectToolNames ELSE Order

LEMMA AskedIs ==
    /\ AskedNames \in Seq(Listed) /\ Len(AskedNames) \in {30, 34}
    /\ \A n \in 1..Len(AskedNames) : n \in 1..34 /\ AskedNames[n] = Order[n]
    /\ ~HasToolbox => Len(AskedNames) = 34
    /\ AskedNames[1] = ToolboxToolName
<1>1. 1 \in 1..30 /\ 1..30 \subseteq 1..34
  OBVIOUS
<1>2. CASE HasToolbox
  <2>1. AskedNames = CoreDirectToolNames
    BY <1>2 DEF AskedNames
  <2> QED BY <2>1, <1>1, <1>2, OrderIs, Zenon
<1>3. CASE ~HasToolbox
  <2>1. AskedNames = Order
    BY <1>3 DEF AskedNames
  <2> QED BY <2>1, <1>1, OrderIs, Zenon
<1> QED BY <1>2, <1>3

LEMMA DirectIsSound ==
    ASSUME Given_, NEW list, list = DirectTools, list # <<>>
    PROVE  Sound(list)
<1>1. SelectedBy(AskedNames, list)
  BY AskedIs, AllSelectedBy DEF DirectTools, AskedNames, Order
<1>2. /\ list \in Seq(Tools) /\ DOMAIN list = 1..Len(list)
      /\ AsListed(list)
  BY <1>1 DEF SelectedBy, WellFormed, AsListed
<1>3. PICK place \in [1..Len(list) -> 1..Len(AskedNames)] :
         /\ \A i \in 1..Len(list) : list[i].name = AskedNames[place[i]]
         /\ \A i, j \in 1..Len(list) : i < j => place[i] < place[j]
  BY <1>1 DEF SelectedBy
<1>4. \A i \in DOMAIN list : place[i] \in 1..34 /\ list[i].name = Order[place[i]]
  BY <1>2, <1>3, AskedIs
<1>5. Names(list) \cap HiddenModelTools = {}
  <2>1. \A i \in DOMAIN list : list[i].name \notin HiddenModelTools
    BY <1>4, OrderHidesNone
  <2> QED BY <2>1 DEF Names
<1>6. InOrder(list)
  <2>1. \A i \in DOMAIN list : Place(list[i].name) = place[i]
    BY <1>4, PlaceIs
  <2> QED BY <2>1, <1>2, <1>3 DEF InOrder
<1>7. WithinReach(list)
  <2>1. CASE HasToolbox
    <3>1. ToolboxToolName \in Names(list)
      BY <2>1, <1>1, AskedIs DEF SelectedBy, HasToolbox
    <3> QED BY <2>1, <3>1 DEF WithinReach
  <2>2. CASE ~HasToolbox
    <3>1. ASSUME NEW name \in Names(toolCatalog) \cap Range(FallbackDiscoveryToolNames)
          PROVE  name \in Names(list) \/ Len(list) = limit
      <4>1. PICK n \in 31..34 : name = Order[n]
        BY OrderIs
      <4>2. n \in 1..Len(AskedNames) /\ AskedNames[n] = name
        <5>1. Len(AskedNames) = 34 /\ n \in 1..34
          BY <2>2, AskedIs
        <5> QED BY <4>1, <5>1, AskedIs
      <4> QED BY <4>2, <3>1, <1>1 DEF SelectedBy
    <3> QED BY <2>2, <3>1 DEF WithinReach
  <2> QED BY <2>1, <2>2
<1> QED BY <1>2, <1>5, <1>6, <1>7 DEF Sound

\* Where no name that is asked for is in the catalog, the catalog is shown.
LEMMA CatalogIsSound ==
    ASSUME Given_, NEW list, list = FullCatalog, DirectTools = <<>>
    PROVE  Sound(list)
<1>1. ListedFrom(toolCatalog, list)
  BY AllListedFrom
<1>2. /\ list \in Seq(Tools) /\ DOMAIN list = 1..Len(list)
      /\ AsListed(list)
  BY <1>1 DEF ListedFrom, WellFormed, AsListed
<1>3. Names(list) \cap HiddenModelTools = {}
  BY <1>1, <1>2 DEF ListedFrom, Names
<1>4. \A n \in 1..Len(AskedNames) : AskedNames[n] \notin Names(toolCatalog)
  <2>1. SelectedBy(AskedNames, <<>>)
    BY AskedIs, AllSelectedBy DEF DirectTools, AskedNames, Order
  <2>2. Len(<<>>) # limit /\ Names(<<>>) = {}
    BY DEF Given_, Names
  <2> QED BY <2>1, <2>2 DEF SelectedBy
<1>5. ~HasToolbox
  BY <1>4, AskedIs DEF HasToolbox
<1>6. \A n \in 1..34 : Order[n] \notin Names(toolCatalog)
  BY <1>4, <1>5, AskedIs
<1>7. /\ Names(toolCatalog) \cap Range(FallbackDiscoveryToolNames) = {}
      /\ Names(toolCatalog) \cap Range(CoreDirectToolNames) = {}
  <2>1. \A n \in 1..30 : n \in 1..34
    OBVIOUS
  <2>2. \A n \in 31..34 : n \in 1..34
    OBVIOUS
  <2>3. ASSUME NEW name \in Range(CoreDirectToolNames) \cup
                           Range(FallbackDiscoveryToolNames)
        PROVE  name \notin Names(toolCatalog)
    BY <1>6, <2>1, <2>2, OrderIs, Zenon
  <2> QED BY <2>3, Zenon
<1> QED BY <1>2, <1>3, <1>5, <1>7 DEF Sound, WithinReach, InOrder

\* Whatever the catalog and the limit, the model is shown a sound offer: the
\* invariant of the state before the selection is that nothing is offered.
THEOREM OfferSound == SelectionSpec => []OfferIsSound
<1> DEFINE IInv == Given_ /\ (offered = <<>> \/ Sound(offered))
<1>1. SelectionInit => IInv
  BY LimitsAssumption, CatalogsAssumption DEF SelectionInit, Given_
<1>2. IInv /\ [SelectionNext]_selectionVars => IInv'
  <2> SUFFICES ASSUME IInv, [SelectionNext]_selectionVars PROVE IInv'
    OBVIOUS
  <2>1. CASE Select
    <3>1. PICK list : list = SelectModelTools
      OBVIOUS
    <3>2. Sound(list)
      BY <3>1, DirectIsSound, CatalogIsSound DEF SelectModelTools
    <3>3. offered' = list /\ toolCatalog' = toolCatalog /\ limit' = limit
      BY <2>1, <3>1 DEF Select
    <3> HIDE DEF Sound
    <3>4. Sound(offered)'
      BY <3>2, <3>3 DEF Sound, AsListed, WithinReach, InOrder, HasToolbox
    <3> QED BY <3>3, <3>4 DEF Given_
  <2>2. CASE UNCHANGED selectionVars
    BY <2>2 DEF selectionVars, Given_, Sound, AsListed, WithinReach, InOrder, HasToolbox
  <2> QED BY <2>1, <2>2 DEF SelectionNext
<1>3. IInv => OfferIsSound
  <2>1. ASSUME Given_, offered = <<>> PROVE OfferIsSound
    BY <2>1 DEF Given_, OfferIsSound, OfferedAsListed, HiddenStayHidden,
                NothingOutOfReach, OrderIsOurs, Names
  <2>2. ASSUME Given_, Sound(offered) PROVE OfferIsSound
    BY <2>2 DEF Sound, AsListed, WithinReach, InOrder, FirstOfName, IsFirst,
                Given_, OfferIsSound, OfferedAsListed, HiddenStayHidden,
                NothingOutOfReach, OrderIsOurs
  <2> QED BY <2>1, <2>2
<1> QED BY <1>1, <1>2, <1>3, PTL DEF SelectionSpec

-----------------------------------------------------------------------------
(* RunSettings *)



\* The first of the n values that is there, if any.
IsFirstGiven(v, values, n, default) ==
    \/ v = default /\ \A i \in 1..n : ~Given(values[i])
    \/ \E i \in 1..n : /\ v = values[i] /\ Given(v)
                       /\ \A j \in 1..(i - 1) : ~Given(values[j])

LEMMA FirstOrIs ==
    ASSUME NEW n \in Nat, NEW values, DOMAIN values = 1..n, NEW default
    PROVE  IsFirstGiven(FirstOr(values, default), values, n, default)
<1> DEFINE given == {i \in DOMAIN values : Given(values[i])}
<1>1. CASE given = {}
  BY <1>1 DEF FirstOr, IsFirstGiven
<1>2. CASE given # {}
  <2>1. given \in SUBSET Nat /\ given \subseteq 1..n
    OBVIOUS
  <2>2. Min(given) \in given /\ \A i \in given : Min(given) <= i
    BY <2>1, <1>2, MinIs
  <2>3. FirstOr(values, default) = values[Min(given)]
    BY <1>2 DEF FirstOr
  <2>4. PICK m \in given : m = Min(given)
    BY <2>2
  <2>6. m \in 1..n /\ Given(values[m])
    BY <2>4
  <2>5. ASSUME NEW j \in 1..(m - 1) PROVE ~Given(values[j])
    <3>1. j \in 1..n /\ ~(m <= j)
      BY <2>6
    <3> QED BY <3>1, <2>2, <2>4
  <2> HIDE DEF given
  <2>7. FirstOr(values, default) = values[m]
    BY <2>3, <2>4
  <2> QED BY <2>5, <2>6, <2>7, Zenon DEF IsFirstGiven
<1> QED BY <1>1, <1>2

LEMMA FirstOfOneIs ==
    ASSUME NEW a, NEW default
    PROVE  FirstOr(<<a>>, default) = IF Given(a) THEN a ELSE default
<1>1. PICK values : values = <<a>>
  OBVIOUS
<1>2. DOMAIN values = 1..1 /\ values[1] = a
  BY <1>1
<1>3. IsFirstGiven(FirstOr(values, default), values, 1, default)
  BY <1>2, FirstOrIs
<1> QED BY <1>1, <1>2, <1>3 DEF IsFirstGiven

LEMMA FirstOfTwoIs ==
    ASSUME NEW a, NEW b, NEW default
    PROVE  FirstOr(<<a, b>>, default) = IF Given(a) THEN a ELSE IF Given(b) THEN b ELSE default
<1>1. PICK values : values = <<a, b>>
  OBVIOUS
<1>2. DOMAIN values = 1..2 /\ values[1] = a /\ values[2] = b
  BY <1>1
<1>3. \A i \in 1..2 : i = 1 \/ (i = 2 /\ 1 \in 1..(i - 1))
  OBVIOUS
<1>4. IsFirstGiven(FirstOr(values, default), values, 2, default)
  BY <1>2, FirstOrIs
<1> QED BY <1>1, <1>2, <1>3, <1>4 DEF IsFirstGiven

-----------------------------------------------------------------------------
(* Memory *)

\* A key of the control plane is asked for only where there is no other.
LEMMA ApiKeyIs ==
    ASSUME NEW fromControl
    PROVE  \/ /\ Given(ApiKey(Absent))
              /\ ApiKey(fromControl) = ApiKey(Absent)
           \/ ~Given(ApiKey(Absent))
<1>1. PICK with : with = <<environment.embeddingKey, environment.openaiKey,
                           runConfig.key, fromControl>>
  OBVIOUS
<1>2. PICK without : without = <<environment.embeddingKey, environment.openaiKey,
                                 runConfig.key, Absent>>
  OBVIOUS
<1>3. /\ DOMAIN with = 1..4 /\ DOMAIN without = 1..4
      /\ \A i \in 1..3 : with[i] = without[i]
      /\ without[4] = Absent
  BY <1>1, <1>2
<1>4. ApiKey(fromControl) = FirstOr(with, Absent) /\ ApiKey(Absent) = FirstOr(without, Absent)
  BY <1>1, <1>2, Zenon DEF ApiKey, FirstNonempty
<1>5. ~Given(Absent)
  BY DEF Given
<1>7. /\ IsFirstGiven(FirstOr(with, Absent), with, 4, Absent)
      /\ IsFirstGiven(FirstOr(without, Absent), without, 4, Absent)
  BY <1>3, FirstOrIs
<1>6. ASSUME Given(FirstOr(without, Absent))
      PROVE  FirstOr(with, Absent) = FirstOr(without, Absent)
  <2>1. PICK i \in 1..4 : /\ FirstOr(without, Absent) = without[i] /\ Given(without[i])
                          /\ \A j \in 1..(i - 1) : ~Given(without[j])
    BY <1>5, <1>6, <1>7 DEF IsFirstGiven
  <2>2. i \in 1..3
    BY <2>1, <1>3, <1>5
  <2>6. Given(with[i])
    BY <2>1, <2>2, <1>3
  <2>3. PICK k \in 1..4 : /\ FirstOr(with, Absent) = with[k] /\ Given(with[k])
                          /\ \A j \in 1..(k - 1) : ~Given(with[j])
    BY <2>6, <1>7 DEF IsFirstGiven
  <2>4. ~(k < i)
    BY <2>1, <2>2, <2>3, <1>3
  <2>5. ~(i < k)
    BY <2>1, <2>2, <2>3, <1>3
  <2> QED BY <2>1, <2>2, <2>3, <2>4, <2>5, <1>3
<1> QED BY <1>4, <1>6

\* All backends that the settings lead to, with or without the control plane's
\* key, are of one embedding, where anything else selects one.
LEMMA OneEmbedding ==
    ASSUME Explicit, NEW j, NEW k, Got(ResolveEmbedding(j)), Got(ResolveEmbedding(k))
    PROVE  Embedding(ResolveEmbedding(j)) = Embedding(ResolveEmbedding(k))
<1>0. \A why \in {"not run", "unsupported", "no key"} : ~Got(NoBackend(why))
  BY Zenon DEF Got
<1>1. CASE Given(ApiKey(Absent))
  <2>1. ApiKey(j) = ApiKey(Absent) /\ ApiKey(k) = ApiKey(Absent)
    BY <1>1, ApiKeyIs
  <2> QED BY <2>1, Zenon DEF ResolveEmbedding
<1>2. CASE ~Given(ApiKey(Absent))
  <2>1. \A from : OpenAiConfigured(ApiKey(from))
    BY <1>2, Zenon DEF Explicit, OpenAiConfigured
  <2>2. CASE Provider = "hash"
    <3>1. ResolveEmbedding(j) = Hash /\ ResolveEmbedding(k) = Hash
      BY <2>2, Zenon DEF ResolveEmbedding
    <3> QED BY <3>1, Zenon
  <2>3. CASE Provider # "hash"
    <3> DEFINE OpenAi(key) ==
          [provider |-> "openai", model |-> FirstOr(<<Model>>, "default model"),
           baseUrl |-> BaseUrl, dimensions |-> Dimensions, key |-> key]
    <3>1. \A key : Embedding(OpenAi(key)) =
                     [provider |-> "openai", model |-> FirstOr(<<Model>>, "default model"),
                      baseUrl |-> BaseUrl, dimensions |-> Dimensions]
      BY DEF Embedding
    <3>2. ASSUME NEW from, Got(ResolveEmbedding(from))
          PROVE  ResolveEmbedding(from) = OpenAi(ApiKey(from))
      <4>1. ~(Provider = "hash" \/ ~OpenAiConfigured(ApiKey(from)))
        BY <2>1, <2>3
      <4>2. \/ ResolveEmbedding(from) = NoBackend("unsupported")
            \/ ResolveEmbedding(from) = NoBackend("no key")
            \/ ResolveEmbedding(from) = OpenAi(ApiKey(from))
        BY <4>1, Zenon DEF ResolveEmbedding
      <4> QED BY <4>2, <3>2, <1>0
    <3> QED BY <3>1, <3>2, Zenon
  <2> QED BY <2>2, <2>3
<1> QED BY <1>1, <1>2

\* What is in the store comes from a backend that these settings lead to.
MemoryIsOfSettings ==
    \A e \in memory : \E key \in {Absent, controlKey} :
        Got(ResolveEmbedding(key)) /\ e = Embedding(ResolveEmbedding(key))


LEMMA MemoryKept == SettingsSpec => []MemoryIsOfSettings
<1>1. SettingsInit => MemoryIsOfSettings
  BY DEF SettingsInit, EmbeddingInit, MemoryIsOfSettings
<1>2. ASSUME MemoryIsOfSettings, [SettingsNext]_settingsVars PROVE MemoryIsOfSettings'
  <2>0. /\ environment' = environment /\ runConfig' = runConfig
        /\ controlKey' = controlKey
    BY <1>2 DEF SettingsNext, Run, settings, settingsVars
  <2>1. \A key : ResolveEmbedding(key)' = ResolveEmbedding(key)
    BY <2>0, Zenon DEF ResolveEmbedding, OpenAiConfigured, Provider, Model, BaseUrl,
       Dimensions, ApiKey
  <2>2. ASSUME NEW e \in memory'
        PROVE  \E key \in {Absent, controlKey} :
                   Got(ResolveEmbedding(key)) /\ e = Embedding(ResolveEmbedding(key))
    <3>1. CASE e \in memory
      BY <3>1, <1>2 DEF MemoryIsOfSettings
    <3>2. CASE e \notin memory
      <4>1. PICK answered \in BOOLEAN : Run(answered)
        BY <3>2, <1>2 DEF SettingsNext, settingsVars
      <4> DEFINE key == IF answered THEN controlKey ELSE Absent
      <4>2. key \in {Absent, controlKey}
        OBVIOUS
      <4> HIDE DEF key
      <4>3. backend' = ResolveEmbedding(key) /\ Got(backend') /\ e = Embedding(backend')
        BY <4>1, <3>2 DEF Run, key
      <4> QED BY <4>2, <4>3
    <3> QED BY <3>1, <3>2
  <2> QED BY <2>0, <2>1, <2>2, Zenon DEF MemoryIsOfSettings, Got, Embedding
<1> QED BY <1>1, <1>2, PTL DEF SettingsSpec

\* However often api-keys fails, a space whose settings select an embedding by
\* anything but the control plane's key has vectors of that one embedding only
\* (engine_support.rs:502-558, main.rs:507).
THEOREM MemoryOfOneEmbedding == SettingsSpec => []MemoryIsOfOneEmbedding
<1>1. ASSUME MemoryIsOfSettings PROVE MemoryIsOfOneEmbedding
  <2>1. ASSUME Explicit, NEW e \in memory, NEW f \in memory PROVE e = f
    <3>1. PICK j : Got(ResolveEmbedding(j)) /\ e = Embedding(ResolveEmbedding(j))
      BY <1>1 DEF MemoryIsOfSettings
    <3>2. PICK k : Got(ResolveEmbedding(k)) /\ f = Embedding(ResolveEmbedding(k))
      BY <1>1 DEF MemoryIsOfSettings
    <3> QED BY <2>1, <3>1, <3>2, OneEmbedding
  <2> QED BY <2>1 DEF MemoryIsOfOneEmbedding
<1> QED BY <1>1, MemoryKept, PTL

-----------------------------------------------------------------------------
(* Numbers *)

NumbersAreSent ==
    /\ budget \in [maxGraphSteps : JsonNumbers \cup {Absent},
                   maxIterations : JsonNumbers \cup {Absent},
                   maxToolRounds : JsonNumbers \cup {Absent}]
    /\ service \in [runs : EnvNumbers \cup {Absent, Blank, Text},
                    heartbeat : EnvNumbers \cup {Absent, Blank, Text}]

LEMMA NumberIsGiven == ASSUME NEW v \in Int PROVE Given(v) /\ v # Text
BY NoNumbersAssumption DEF Given

LEMMA U32FieldIs ==
    ASSUME NEW v \in JsonNumbers \cup {Absent}
    PROVE  \/ v \in 0..MaxU32 /\ U32Field(v) = v
           \/ v \notin 0..MaxU32 /\ U32Field(v) = Absent
BY NoNumbersAssumption, NumbersAssumption DEF U32Field

\* A limit is the number that was asked for, cut to the cap, or the default.
LEMMA LimitIs ==
    ASSUME NEW own \in JsonNumbers \cup {Absent},
           budget.maxIterations \in JsonNumbers \cup {Absent},
           NEW cap \in Nat, cap >= 1, cap <= MaxU32, NEW default \in 1..cap
    PROVE  LimitAsAsked(Limit(own, cap, default), own, cap, default)
<1> DEFINE result == Limit(own, cap, default)
           a == U32Field(own)
           b == U32Field(budget.maxIterations)
           asked == FirstOr(<<a, b>>, 0)
<1>1. /\ (a \in 0..MaxU32 /\ a = own) \/ (a = Absent /\ own \notin 0..MaxU32)
      /\ b \in 0..MaxU32 \/ b = Absent
  BY U32FieldIs
<1>2. asked = IF Given(a) THEN a ELSE IF Given(b) THEN b ELSE 0
  BY FirstOfTwoIs
<1>3. ~Given(Absent) /\ U32Field(Absent) = Absent /\ MaxU32 \in Nat
  BY NumbersAssumption DEF Given, U32Field
<1>4. Limit(own, cap, default) = IF asked = 0 THEN default ELSE AtMost(asked, cap)
  BY DEF Limit
<1>5. \A v \in 0..MaxU32 : Given(v)
  BY <1>3, NumberIsGiven
<1>6. /\ (own \in JsonNumbers \cap (0..MaxU32) /\ a = own)
         \/ (own \notin 0..MaxU32 /\ a = Absent)
      /\ (budget.maxIterations \in JsonNumbers \cap (0..MaxU32) /\ b = budget.maxIterations)
         \/ (budget.maxIterations \notin 0..MaxU32 /\ b = Absent)
  BY <1>3, U32FieldIs, NoNumbersAssumption
<1> HIDE DEF a, b, asked
<1> DEFINE given == IF own \in JsonNumbers \cap (0..MaxU32) THEN own ELSE budget.maxIterations
<1>7. /\ given \in JsonNumbers \cap (0..MaxU32) => asked = given
      /\ given \notin JsonNumbers \cap (0..MaxU32) => asked = 0
  BY <1>2, <1>3, <1>5, <1>6
<1>8. result = IF asked = 0 THEN default ELSE AtMost(asked, cap)
  BY <1>4
<1>9. LimitAsAsked(result, own, cap, default) <=>
         /\ result \in 1..cap
         /\ given \in JsonNumbers \cap (1..cap) => result = given
         /\ given \in JsonNumbers \cap ((cap + 1)..MaxU32) => result = cap
         /\ given \notin JsonNumbers \cap (0..MaxU32) \/ given = 0 => result = default
  BY DEF LimitAsAsked
<1> HIDE DEF result, given
<1>10. result \in 1..cap /\ (asked \in 1..cap => result = asked)
       /\ (asked \in (cap + 1)..MaxU32 => result = cap) /\ (asked = 0 => result = default)
  <2>1. asked \in 0..MaxU32
    BY <1>7, <1>3
  <2> QED BY <2>1, <1>3, <1>8 DEF AtMost
<1>11. LimitAsAsked(result, own, cap, default)
  BY <1>3, <1>7, <1>9, <1>10
<1> QED BY <1>11 DEF result

LEMMA PositiveIs ==
    ASSUME NEW raw \in EnvNumbers \cup {Absent, Blank, Text}, NEW default \in Nat, default >= 1
    PROVE  ServiceAsAsked(ParsePositive(raw, default), raw, default)
<1>1. raw \in EnvNumbers => Given(raw) /\ raw # Text
  BY NumbersAssumption, NumberIsGiven
<1>2. raw \in EnvNumbers \/ ~Given(raw) \/ raw = Text
  BY DEF Given
<1>3. CASE Given(raw) /\ raw # Text /\ raw >= 1
  BY <1>2, <1>3 DEF ParsePositive, ServiceAsAsked
<1>4. CASE ~(Given(raw) /\ raw # Text /\ raw >= 1)
  BY <1>1, <1>4 DEF ParsePositive, ServiceAsAsked
<1> QED BY <1>3, <1>4

\* Whatever numbers run-config and the environment hold, the engine's limits
\* are within their caps, one that is asked for within its cap is kept, one out
\* of range counts as none, and the service has a slot and paces its heartbeats,
\* as it was asked to where that is a positive number
\* (engine_support.rs:290-303, control_rpc.rs:806-813, main.rs:1000-1028).
THEOREM LimitsAsAsked == SettingsSpec => []LimitsAreAsAsked
<1>1. SettingsInit => NumbersAreSent
  BY DEF SettingsInit, NumbersInit, NumbersAreSent
<1>2. NumbersAreSent /\ [SettingsNext]_settingsVars => NumbersAreSent'
  BY DEF NumbersAreSent, SettingsNext, Run, settings, settingsVars
<1>3. ASSUME NumbersAreSent PROVE LimitsAreAsAsked
  <2>1. /\ budget.maxGraphSteps \in JsonNumbers \cup {Absent}
        /\ budget.maxIterations \in JsonNumbers \cup {Absent}
        /\ budget.maxToolRounds \in JsonNumbers \cup {Absent}
        /\ service.runs \in EnvNumbers \cup {Absent, Blank, Text}
        /\ service.heartbeat \in EnvNumbers \cup {Absent, Blank, Text}
    BY <1>3 DEF NumbersAreSent
  <2>2. LimitAsAsked(MaxGraphSteps, budget.maxGraphSteps, GraphStepCap, DefaultGraphSteps)
    <3>1. GraphStepCap \in Nat /\ GraphStepCap >= 1 /\ GraphStepCap <= MaxU32
      BY NumbersAssumption DEF GraphStepCap
    <3> QED BY <3>1, <2>1, EngineDefaults, LimitIs DEF MaxGraphSteps
  <2>3. LimitAsAsked(MaxToolRounds, budget.maxToolRounds, ToolRoundCap, DefaultToolRounds)
    <3>1. ToolRoundCap \in Nat /\ ToolRoundCap >= 1 /\ ToolRoundCap <= MaxU32
      BY NumbersAssumption DEF GraphStepCap, ToolRoundCap
    <3> QED BY <3>1, <2>1, EngineDefaults, LimitIs DEF MaxToolRounds
  <2>4. /\ ServiceAsAsked(MaxConcurrentRuns, service.runs, DefaultMaxConcurrentRuns)
        /\ ServiceAsAsked(HeartbeatInterval, service.heartbeat, DefaultHeartbeatIntervalSecs)
    BY <2>1, PositiveIs DEF MaxConcurrentRuns, HeartbeatInterval,
       DefaultMaxConcurrentRuns, DefaultHeartbeatIntervalSecs
  <2> QED BY <2>2, <2>3, <2>4 DEF LimitsAreAsAsked
<1> QED BY <1>1, <1>2, <1>3, PTL DEF SettingsSpec

-----------------------------------------------------------------------------
(* MemoryNames *)



-----------------------------------------------------------------------------
(* Directories *)

\* A name that stays where it is put.
IsName(name) == name \notin {<<>>, <<".">>, <<".", ".">>} /\ "/" \notin Range(name)

LEMMA OneCharacter ==
    ASSUME NEW ch, ch # ".", ch # "/" PROVE IsName(<<ch>>)
<1>1. PICK name : name = <<ch>>
  OBVIOUS
<1>2. DOMAIN name = {1} /\ name[1] = ch /\ Len(name) = 1
  BY <1>1
<1>3. "/" \notin Range(name)
  BY <1>2 DEF Range
<1>4. name # <<>> /\ name # <<".">> /\ name # <<".", ".">>
  BY <1>2
<1> QED BY <1>1, <1>3, <1>4 DEF IsName

LEMMA SlugIsName == ASSUME NEW value PROVE IsName(SafeStorageSlug(value))
<1> DEFINE slug == [i \in DOMAIN value |-> IF SafeCharacter(value[i]) THEN value[i] ELSE "_"]
<1>1. CASE slug \in {<<>>, <<".">>, <<".", ".">>}
  <2>1. SafeStorageSlug(value) = <<"_">>
    BY <1>1 DEF SafeStorageSlug
  <2>2. IsName(<<"_">>)
    BY OneCharacter
  <2> QED BY <2>1, <2>2
<1>2. CASE slug \notin {<<>>, <<".">>, <<".", ".">>}
  <2>1. SafeStorageSlug(value) = slug
    BY <1>2, Zenon DEF SafeStorageSlug
  <2>2. \A i \in DOMAIN value : slug[i] # "/"
    BY CharactersAssumption DEF SafeCharacter
  <2>3. "/" \notin Range(slug)
    BY <2>2 DEF Range
  <2> QED BY <1>2, <2>1, <2>3 DEF IsName
<1> QED BY <1>1, <1>2

LEMMA SlugOfPlain ==
    ASSUME NEW id \in Seq(Characters), Plain(id) PROVE SafeStorageSlug(id) = id
<1>1. \A i \in DOMAIN id : (IF SafeCharacter(id[i]) THEN id[i] ELSE "_") = id[i]
  BY Zenon DEF Plain
<1>2. id = [i \in DOMAIN id |-> id[i]]
  OBVIOUS
<1>3. [i \in DOMAIN id |-> IF SafeCharacter(id[i]) THEN id[i] ELSE "_"] = id
  BY <1>1, <1>2, Zenon
<1> QED BY <1>3, Zenon DEF Plain, SafeStorageSlug

LEMMA PlainIsNotBlank == ASSUME NEW id \in Seq(Characters), Plain(id) PROVE ~IsBlank(id)
<1>1. id # <<>> /\ \A i \in DOMAIN id : id[i] # " "
  BY CharactersAssumption DEF Plain, SafeCharacter
<1>2. PICK E : E = Characters
  OBVIOUS
<1>3. Len(id) \in Nat /\ Len(id) # 0 /\ DOMAIN id = 1..Len(id)
  <2>1. id \in Seq(E)
    BY <1>2, Zenon
  <2>2. id # <<>>
    BY <1>1
  <2>3. Len(id) \in Nat \ {0}
    BY <2>1, <2>2, EmptySeq, Zenon
  <2> QED BY <2>1, <2>3
<1>4. 1 \in DOMAIN id
  BY <1>3
<1> QED BY <1>1, <1>4 DEF IsBlank

\* The path of a store of its own is made of one or of two names.
LEMMA PathIs ==
    ASSUME NEW space, NEW installation
    PROVE  /\ installation = None \/ IsBlank(installation) =>
                  SafeRunStorePath(space, installation) = <<<<"spaces">>, SafeStorageSlug(space)>>
           /\ ~(installation = None \/ IsBlank(installation)) =>
                  SafeRunStorePath(space, installation) =
                      <<<<"spaces">>, SafeStorageSlug(space),
                        <<"installations">>, SafeStorageSlug(installation)>>
<1>1. ASSUME NEW a, NEW b, NEW c, NEW d PROVE <<a, b>> \o <<c, d>> = <<a, b, c, d>>
  <2>1. PICK E : E = {a, b, c, d}
    OBVIOUS
  <2>2. <<a, b>> \in Seq(E) /\ <<c, d>> \in Seq(E)
    BY <2>1
  <2>3. PICK l, r : l = <<a, b>> /\ r = <<c, d>>
    OBVIOUS
  <2>4. Len(l) = 2 /\ Len(r) = 2 /\ l[1] = a /\ l[2] = b /\ r[1] = c /\ r[2] = d
    BY <2>3
  <2>5. PICK both : both = l \o r
    OBVIOUS
  <2>6. /\ both \in Seq(E) /\ Len(both) = 4
        /\ both[1] = a /\ both[2] = b /\ both[3] = c /\ both[4] = d
    BY <2>2, <2>3, <2>4, <2>5, ConcatProperties
  <2>7. PICK all : all = <<a, b, c, d>>
    OBVIOUS
  <2>8. /\ all \in Seq(E) /\ Len(all) = 4
        /\ all[1] = a /\ all[2] = b /\ all[3] = c /\ all[4] = d
    BY <2>7, <2>1
  <2>9. both = all
    <3>1. \A i \in 1..4 : both[i] = all[i]
      BY <2>6, <2>8
    <3> QED BY <3>1, <2>6, <2>8, SeqEqual
  <2> QED BY <2>3, <2>5, <2>7, <2>9
<1> QED BY <1>1, Zenon DEF SafeRunStorePath, SafeSpacePath, SafeInstallationPath

\* Every store is where the ids of its run say.
StoresAreOfRuns ==
    \A s \in stores :
        /\ s = [space |-> s.space, installation |-> s.installation, path |-> s.path]
        /\ s.space \in Ids /\ s.installation \in Ids \cup {None}
        /\ s.path = SafeRunStorePath(s.space, s.installation)

LEMMA PathsStayInside ==
    ASSUME NEW space, NEW installation, NEW i \in DOMAIN SafeRunStorePath(space, installation)
    PROVE  IsName(SafeRunStorePath(space, installation)[i])
<1> DEFINE path == SafeRunStorePath(space, installation)
<1>1. IsName(<<"spaces">>) /\ IsName(<<"installations">>)
  BY OneCharacter
<1>2. PICK a : a = SafeStorageSlug(space) /\ IsName(a)
  BY SlugIsName
<1>3. PICK b : b = SafeStorageSlug(installation) /\ IsName(b)
  BY SlugIsName
<1>4. \/ path = <<<<"spaces">>, a>>
      \/ path = <<<<"spaces">>, a, <<"installations">>, b>>
  BY <1>2, <1>3, PathIs
<1> HIDE DEF path
<1>5. i \in DOMAIN path
  BY DEF path
<1>6. IsName(path[i])
  <2>1. PICK c, d : c = <<"spaces">> /\ d = <<"installations">>
    OBVIOUS
  <2> QED BY <1>1, <1>2, <1>3, <1>4, <1>5, <2>1
<1> QED BY <1>6 DEF path

LEMMA PathsAreApart ==
    ASSUME NEW space \in Ids, NEW installation \in Ids \cup {None},
           NEW space2 \in Ids, NEW installation2 \in Ids \cup {None},
           Plain(space), installation = None \/ Plain(installation),
           Plain(space2), installation2 = None \/ Plain(installation2),
           SafeRunStorePath(space, installation) = SafeRunStorePath(space2, installation2)
    PROVE  space = space2 /\ installation = installation2
<1>1. SafeStorageSlug(space) = space /\ SafeStorageSlug(space2) = space2
  BY SlugOfPlain, CharactersAssumption
<1>2. ASSUME NEW i \in {installation, installation2}, i # None
      PROVE  SafeStorageSlug(i) = i /\ ~IsBlank(i)
  BY <1>2, SlugOfPlain, PlainIsNotBlank, CharactersAssumption
<1>3. ASSUME NEW i \in {installation, installation2}, NEW s
      PROVE  \/ i = None /\ \/ SafeRunStorePath(s, i) = <<<<"spaces">>, SafeStorageSlug(s)>>
                            \/ IsBlank(i)
             \/ i # None /\ SafeRunStorePath(s, i) =
                   <<<<"spaces">>, SafeStorageSlug(s), <<"installations">>, i>>
  BY <1>2, PathIs
<1> QED BY <1>1, <1>2, <1>3, PathIs

-----------------------------------------------------------------------------
(* Titles *)

LEMMA BytesFold == ASSUME NEW text PROVE Bytes(text) = Counting!Fold(0, text)
BY Zenon DEF Bytes, Counting!Fold, FoldLeft, Counting!FoldLeft, MapThenFoldSet,
             Counting!MapThenFoldSet, Max, Counting!Max

LEMMA BytesOfOneMore ==
    ASSUME NEW text \in Seq(Characters), NEW ch \in Characters
    PROVE  Bytes(Append(text, ch)) = Bytes(text) + Width[ch]
<1>1. Counting!Fold(0, Append(text, ch)) = AddWidth(Counting!Fold(0, text), ch)
  BY Counting!FoldAppend, Zenon
<1> QED BY <1>1, BytesFold, Zenon DEF AddWidth

LEMMA BytesIsNat == ASSUME NEW text \in Seq(Characters) PROVE Bytes(text) \in Nat
<1> DEFINE T == {t \in Seq(Characters) : Bytes(t) \in Nat}
<1>1. <<>> \in T
  <2>1. Bytes(<<>>) = 0
    BY BytesFold, Counting!FoldEmpty, Zenon
  <2>2. <<>> \in Seq(Characters)
    BY EmptySeq, Zenon
  <2> QED BY <2>1, <2>2
<1>2. ASSUME NEW t \in Seq(Characters), NEW ch \in Characters, t \in T
      PROVE  Append(t, ch) \in T
  <2>1. Width[ch] \in Nat
    BY CharactersAssumption
  <2>2. Append(t, ch) \in Seq(Characters)
    BY AppendProperties, Zenon
  <2>3. Bytes(t) + Width[ch] \in Nat
    BY <1>2, <2>1
  <2> QED BY <2>2, <2>3, BytesOfOneMore, Zenon
<1> HIDE DEF T
<1>3. Seq(Characters) \subseteq T
  BY <1>1, <1>2, Counting!SequenceInduction, Zenon
<1> QED BY <1>3 DEF T

\* The first n characters of a text, and one more.
LEMMA PrefixIs ==
    ASSUME NEW E, NEW text \in Seq(E), NEW n \in 0..Len(text)
    PROVE  /\ SubSeq(text, 1, n) \in Seq(E)
           /\ Len(SubSeq(text, 1, n)) = n
           /\ \A i \in 1..n : SubSeq(text, 1, n)[i] = text[i]
           /\ n < Len(text) =>
                  SubSeq(text, 1, n + 1) = Append(SubSeq(text, 1, n), text[n + 1])
           /\ SubSeq(text, 1, Len(text)) = text
<1>1. ASSUME NEW m \in 0..Len(text)
      PROVE  /\ SubSeq(text, 1, m) \in Seq(E) /\ Len(SubSeq(text, 1, m)) = m
             /\ \A i \in 1..m : SubSeq(text, 1, m)[i] = text[i]
  <2>1. \A i \in 1..m : text[i] \in E
    OBVIOUS
  <2>2. m \in Int /\ 1 \in Int /\ m - 1 + 1 = m /\ \A i \in 1..m : 1 + i - 1 = i
    OBVIOUS
  <2> QED BY <2>1, <2>2, SubSeqProperties
<1>2. ASSUME n < Len(text)
      PROVE  SubSeq(text, 1, n + 1) = Append(SubSeq(text, 1, n), text[n + 1])
  <2>1. n + 1 \in 0..Len(text) /\ text[n + 1] \in E /\ n \in Nat
    BY <1>2
  <2>2. PICK short \in Seq(E) : short = SubSeq(text, 1, n)
    BY <1>1
  <2>3. PICK long \in Seq(E) : long = SubSeq(text, 1, n + 1)
    BY <2>1, <1>1
  <2>4. PICK more \in Seq(E) : more = Append(short, text[n + 1])
    BY <2>1, AppendProperties, Zenon
  <2>5. /\ Len(short) = n /\ \A i \in 1..n : short[i] = text[i]
        /\ Len(long) = n + 1 /\ \A i \in 1..n+1 : long[i] = text[i]
    BY <1>1, <2>1, <2>2, <2>3
  <2>6. /\ Len(more) = n + 1 /\ more[n + 1] = text[n + 1]
        /\ \A i \in 1..n : more[i] = short[i]
    BY <2>1, <2>2, <2>4, <2>5
  <2>7. \A i \in 1..n+1 : more[i] = long[i]
    BY <2>1, <2>5, <2>6
  <2>8. more = long
    BY <2>5, <2>6, <2>7, SeqEqual
  <2> QED BY <2>2, <2>3, <2>4, <2>8
<1>3. SubSeq(text, 1, Len(text)) = text
  <2>1. Len(text) \in 0..Len(text)
    OBVIOUS
  <2>2. PICK all \in Seq(E) : all = SubSeq(text, 1, Len(text))
    BY <2>1, <1>1
  <2>3. Len(all) = Len(text) /\ \A i \in 1..Len(text) : all[i] = text[i]
    BY <2>1, <2>2, <1>1
  <2> QED BY <2>2, <2>3, SeqEqual
<1> QED BY <1>1, <1>2, <1>3

LEMMA TrimIs == ASSUME NEW text \in Seq(Characters) PROVE Trim(text) \in Seq(Characters)
<1> DEFINE kept == {i \in DOMAIN text : text[i] # " "}
<1>1. CASE kept = {}
  <2>1. Trim(text) = <<>>
    BY <1>1, Zenon DEF Trim
  <2> QED BY <2>1, EmptySeq, Zenon
<1>2. CASE kept # {}
  <2>1. PICK E : E = Characters
    OBVIOUS
  <2>2. text \in Seq(E)
    BY <2>1, Zenon
  <2>3. /\ Len(text) \in Nat /\ DOMAIN text = 1..Len(text)
        /\ \A i \in 1..Len(text) : text[i] \in E
    BY <2>2
  <2>4. kept \in SUBSET Nat /\ kept \in SUBSET (0..Len(text)) /\ kept \subseteq 1..Len(text)
    <3>1. kept \subseteq 1..Len(text)
      BY <2>3
    <3>2. 1..Len(text) \subseteq Nat /\ 1..Len(text) \subseteq 0..Len(text)
      BY <2>3
    <3> HIDE DEF kept
    <3> QED BY <3>1, <3>2
  <2>5. Min(kept) \in kept /\ Max(kept) \in kept
    BY <2>3, <2>4, <1>2, MinIs, MaxIs
  <2>6. PICK m \in 1..Len(text), n \in 1..Len(text) : m = Min(kept) /\ n = Max(kept)
    BY <2>3, <2>5
  <2>7. Trim(text) = SubSeq(text, m, n)
    BY <2>6, <1>2, Zenon DEF Trim
  <2>8. \A i \in m..n : text[i] \in E
    BY <2>3
  <2>9. SubSeq(text, m, n) \in Seq(E)
    BY <2>3, <2>8, SubSeqProperties
  <2> QED BY <2>1, <2>7, <2>9, Zenon
<1> QED BY <1>1, <1>2

\* A title keeps its text if that fits, and otherwise the longest prefix that
\* leaves room for the ellipsis.
Fits(title, text) ==
    LET kept == IF IsCut(title) THEN Front(title) ELSE title
    IN /\ IsPrefix(kept, text)
       /\ IF IsCut(title)
              THEN /\ Bytes(kept) + 3 <= TargetLen
                   /\ Bytes(kept) + 3 + Width[text[Len(kept) + 1]] > TargetLen
              ELSE kept = text /\ Bytes(kept) <= TargetLen

LEMMA WholeFits ==
    ASSUME NEW text \in Seq(Characters), Bytes(text) <= TargetLen
    PROVE  Fits(text, text)
<1>1. ~IsCut(text)
  <2>1. ASSUME text # <<>> PROVE text[Len(text)] \in Characters
    <3>1. Len(text) \in Nat \ {0}
      BY <2>1, EmptySeq, Zenon
    <3>2. PICK E : E = Characters
      OBVIOUS
    <3>3. text \in Seq(E)
      BY <3>2, Zenon
    <3>4. text[Len(text)] \in E
      BY <3>1, <3>3
    <3> QED BY <3>2, <3>4
  <2> QED BY <2>1, CharactersAssumption, Zenon DEF IsCut, Last
<1>2. IsPrefix(text, text)
  <2>1. Len(text) \in Nat
    BY LenProperties, Zenon
  <2> QED BY <2>1 DEF IsPrefix
<1> QED BY <1>1, <1>2, Zenon DEF Fits

LEMMA CutFits ==
    ASSUME NEW text \in Seq(Characters), Bytes(text) > TargetLen,
           NEW title, title = Append(SubSeq(text, 1, SafeCut(text)), Ellipsis)
    PROVE  Fits(title, text)
<1> DEFINE B(n) == Bytes(SubSeq(text, 1, n))
           cuts == {n \in 0..(Len(text) - 1) : B(n) <= PrefixBudget}
<1>1. PrefixBudget \in Nat /\ PrefixBudget + 3 = TargetLen
  BY TargetLenAssumption DEF PrefixBudget
<1>2. PICK E : E = Characters
  OBVIOUS
<1>3. /\ text \in Seq(E) /\ Len(text) \in Nat
      /\ \A i \in 1..Len(text) : text[i] \in E
  <2>1. text \in Seq(E)
    BY <1>2, Zenon
  <2> QED BY <2>1
<1>4. \A n \in 0..Len(text) : B(n) \in Nat
  BY <1>2, <1>3, PrefixIs, BytesIsNat
<1>5. B(0) = 0 /\ B(Len(text)) > TargetLen
  <2>1. Bytes(<<>>) = 0
    BY BytesFold, Counting!FoldEmpty, Zenon
  <2>2. SubSeq(text, 1, 0) = <<>>
    BY SubSeqEmpty
  <2>3. SubSeq(text, 1, Len(text)) = text
    <3>1. Len(text) \in 0..Len(text)
      BY <1>3
    <3> QED BY <3>1, <1>3, PrefixIs
  <2> QED BY <2>1, <2>2, <2>3
<1>6. ASSUME NEW n \in 0..Len(text), n < Len(text)
      PROVE  B(n + 1) = B(n) + Width[text[n + 1]]
  <2>1. text[n + 1] \in Characters
    BY <1>2, <1>3, <1>6
  <2>2. /\ SubSeq(text, 1, n) \in Seq(Characters)
        /\ SubSeq(text, 1, n + 1) = Append(SubSeq(text, 1, n), text[n + 1])
    BY <1>2, <1>3, <1>6, PrefixIs
  <2> QED BY <2>1, <2>2, BytesOfOneMore
<1> HIDE DEF B
<1>7. Len(text) >= 1
  BY <1>1, <1>3, <1>5
<1>8. cuts \in SUBSET (0..(Len(text) - 1)) /\ 0 \in cuts
  BY <1>1, <1>3, <1>5, <1>7
<1>9. Len(text) - 1 \in Nat
  BY <1>3, <1>7
<1>10. Max(cuts) \in cuts /\ \A i \in cuts : i <= Max(cuts)
  <2> HIDE DEF cuts
  <2> QED BY <1>8, <1>9, MaxIs
<1>11. PICK n \in cuts : n = SafeCut(text) /\ \A i \in cuts : i <= n
  BY <1>10 DEF SafeCut, B
<1>12. n \in 0..Len(text) /\ n < Len(text) /\ n + 1 \in 0..Len(text) /\ n \in Nat
  BY <1>3, <1>11
<1>13. B(n) + 3 <= TargetLen
  BY <1>1, <1>4, <1>11, <1>12
<1>14. B(n + 1) > PrefixBudget
  <2>1. CASE n + 1 = Len(text)
    BY <2>1, <1>1, <1>5, <1>4, <1>12
  <2>2. CASE n + 1 # Len(text)
    <3>1. n + 1 \in 0..(Len(text) - 1) /\ ~(n + 1 <= n)
      BY <2>2, <1>12, <1>3
    <3>2. n + 1 \notin cuts
      BY <3>1, <1>11
    <3> QED BY <3>1, <3>2, <1>1, <1>4, <1>12
  <2> QED BY <2>1, <2>2
<1>15. B(n) + 3 + Width[text[n + 1]] > TargetLen
  <2>1. Width[text[n + 1]] \in Nat
    <3>1. n + 1 \in 1..Len(text)
      BY <1>12, <1>3
    <3>2. text[n + 1] \in Characters
      BY <3>1, <1>2, <1>3
    <3> QED BY <3>2, CharactersAssumption
  <2> QED BY <2>1, <1>1, <1>4, <1>6, <1>12, <1>14
<1> HIDE DEF cuts
<1>16. PICK prefix \in Seq(E) : prefix = SubSeq(text, 1, n)
  BY <1>3, <1>12, PrefixIs
<1>17. Len(prefix) = n /\ SubSeq(prefix, 1, n) = prefix
  <2>1. Len(prefix) = n
    BY <1>3, <1>12, <1>16, PrefixIs
  <2>2. Len(prefix) \in 0..Len(prefix)
    BY <2>1, <1>12
  <2> QED BY <2>1, <2>2, PrefixIs
<1>18. title = Append(prefix, Ellipsis)
  BY <1>11, <1>16
<1>19. IsCut(title) /\ Front(title) = prefix
  <2>1. PICK F : F = E \cup {Ellipsis}
    OBVIOUS
  <2>2. prefix \in Seq(F) /\ Ellipsis \in F
    BY <2>1, <1>16
  <2>3. /\ title \in Seq(F) /\ Len(title) = n + 1 /\ title[n + 1] = Ellipsis
        /\ \A i \in 1..n : title[i] = prefix[i]
    <3>1. PICK e \in F : e = Ellipsis
      BY <2>2
    <3>2. PICK more \in Seq(F) : more = Append(prefix, e)
      BY <2>2, AppendProperties, Zenon
    <3>3. Len(more) = n + 1 /\ more[n + 1] = e /\ \A i \in 1..n : more[i] = prefix[i]
      BY <2>2, <3>2, <1>12, <1>17
    <3> QED BY <3>1, <3>2, <3>3, <1>18
  <2>4. title # <<>> /\ Last(title) = Ellipsis
    <3>1. Len(<<>>) = 0 /\ n + 1 # 0
      BY <1>12
    <3> QED BY <3>1, <2>3, Zenon DEF Last
  <2>5. PICK front : front = Front(title)
    OBVIOUS
  <2>6. front = SubSeq(title, 1, n)
    BY <2>5, <2>3, <1>12 DEF Front
  <2>7. n \in 0..Len(title)
    BY <2>3, <1>12
  <2>8. /\ front \in Seq(F) /\ Len(front) = n
        /\ \A i \in 1..n : front[i] = title[i]
    BY <2>3, <2>6, <2>7, PrefixIs
  <2>9. front = prefix
    BY <2>2, <2>3, <2>8, <1>17, SeqEqual
  <2> QED BY <2>4, <2>5, <2>9 DEF IsCut
<1>20. IsPrefix(prefix, text)
  BY <1>12, <1>16, <1>17 DEF IsPrefix
<1>21. Bytes(prefix) = B(n)
  BY <1>16 DEF B
<1> QED BY <1>13, <1>15, <1>17, <1>19, <1>20, <1>21 DEF Fits

LEMMA TitleFits ==
    ASSUME NEW request \in Texts PROVE Fits(TruncateTitle(request), Trim(request))
<1>1. request \in Seq(Characters)
  BY CharactersAssumption
<1>2. Trim(request) \in Seq(Characters)
  BY <1>1, TrimIs
<1>3. Bytes(Trim(request)) \in Nat /\ TargetLen \in Nat
  BY <1>2, BytesIsNat, TargetLenAssumption
<1>4. CASE Bytes(Trim(request)) <= TargetLen
  <2>1. TruncateTitle(request) = Trim(request)
    BY <1>4, Zenon DEF TruncateTitle
  <2> QED BY <2>1, <1>2, <1>4, WholeFits
<1>5. CASE ~(Bytes(Trim(request)) <= TargetLen)
  <2>1. TruncateTitle(request) =
          Append(SubSeq(Trim(request), 1, SafeCut(Trim(request))), Ellipsis)
    BY <1>5, Zenon DEF TruncateTitle
  <2>2. Bytes(Trim(request)) > TargetLen
    BY <1>3, <1>5
  <2> QED BY <2>1, <2>2, <1>2, CutFits
<1> QED BY <1>4, <1>5

TitlesAreOfRequests ==
    \A t \in titles : t.request \in Texts /\ t.title = TruncateTitle(t.request)

\* Whatever ids the control plane sends and whatever text a session begins with:
\* every store is inside the data directory, plain ids never share one, and a
\* title is the request or its longest prefix that leaves room for the ellipsis
\* (engine_support.rs:451-492, 581-598).
THEOREM SoundNames == NamesSpec => []NamesAreSound
<1> DEFINE Inv == StoresAreOfRuns /\ TitlesAreOfRequests
<1>1. NamesInit => Inv
  BY DEF NamesInit, StoresAreOfRuns, TitlesAreOfRequests
<1>2. ASSUME Inv, [NamesNext]_nameVars PROVE Inv'
  <2>1. CASE UNCHANGED nameVars
    BY <2>1, <1>2 DEF nameVars, StoresAreOfRuns, TitlesAreOfRequests
  <2>2. ASSUME NEW space \in Ids, NEW installation \in Ids \cup {None},
               Open(space, installation)
        PROVE  Inv'
    BY <2>2, <1>2 DEF Open, StoresAreOfRuns, TitlesAreOfRequests
  <2>3. ASSUME NEW request \in Texts, Distill(request) PROVE Inv'
    BY <2>3, <1>2 DEF Distill, StoresAreOfRuns, TitlesAreOfRequests
  <2> QED BY <1>2, <2>1, <2>2, <2>3 DEF NamesNext
<1>3. ASSUME Inv PROVE NamesAreSound
  <2>1. StoresStayInside
    BY <1>3, PathsStayInside DEF StoresAreOfRuns, StoresStayInside, IsName
  <2>2. StoresAreIsolated
    <3>1. ASSUME NEW s \in stores, NEW t \in stores, s.path = t.path,
                 Plain(s.space), s.installation = None \/ Plain(s.installation),
                 Plain(t.space), t.installation = None \/ Plain(t.installation)
          PROVE  s = t
      <4>1. s.space = t.space /\ s.installation = t.installation
        BY <1>3, <3>1, PathsAreApart DEF StoresAreOfRuns
      <4> QED BY <4>1, <1>3, <3>1 DEF StoresAreOfRuns
    <3> QED BY <3>1, Zenon DEF StoresAreIsolated
  <2>3. TitlesFit
    BY <1>3, TitleFits, Zenon DEF TitlesAreOfRequests, TitlesFit, Fits
  <2> QED BY <2>1, <2>2, <2>3 DEF NamesAreSound
<1> QED BY <1>1, <1>2, <1>3, PTL DEF NamesSpec
=============================================================================
