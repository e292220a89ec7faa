---------------------------- MODULE SkillCatalog ----------------------------
(***************************************************************************)
(* The skill catalog of a run (src/skills.rs): built once from what the    *)
(* control plane sent, then read by the five local skill tools, in         *)
(* whatever locale the model asks for.                                     *)
(*                                                                         *)
(* Abstracted: of a skill's text there is who wrote it (`text`: the        *)
(* language of the local copy, or "control"); of its execution contract,   *)
(* the MCP servers and templates it needs and the tools it prefers.  The   *)
(* local copies in the two languages have the same ids and contracts       *)
(* (src/managed_skills.rs).  Arguments are compared trimmed; a missing one *)
(* is like one that matches nothing.                                       *)
(***************************************************************************)
EXTENDS Naturals, Sequences, SequencesExt, Iterators

CONSTANTS
    LocalSkills,   \* the local managed skills: [id, needs, prefers], in order
    SkillLists,    \* what control may send as `skills`,
    ManagedLists,  \* as `managedSkills`
    CustomLists,   \* and as `customSkills`
    HintLists,     \* locale hints, the context's own first, then by strength
    Supplies,      \* sets of servers, templates and tools a run may have
    Refs           \* ids and names the model asks for

Sent == UNION {ToSet(list) : list \in SkillLists \cup ManagedLists \cup CustomLists}

ASSUME SentAssumption ==
    /\ \A list \in SkillLists \cup ManagedLists \cup CustomLists : list \in Seq(Sent)
    /\ \A s \in Sent :
          /\ s = [source |-> s.source, id |-> s.id, name |-> s.name, text |-> "control",
                  needs |-> s.needs, prefers |-> s.prefers,
                  availability |-> s.availability, missing |-> s.missing]
          /\ s.source \in {"managed", "custom"}

\* Control's lists hold what their names say, and each skill once.
ASSUME ListsAssumption ==
    /\ \A list \in ManagedLists : \A s \in ToSet(list) : s.source = "managed"
    /\ \A list \in CustomLists : \A s \in ToSet(list) : s.source = "custom"
    /\ \A list \in SkillLists \cup ManagedLists : \A i, j \in DOMAIN list :
          list[i].source = list[j].source /\ list[i].id = list[j].id => i = j

ASSUME LocalSkillsAssumption ==
    /\ LocalSkills \in Seq(ToSet(LocalSkills))
    /\ \A i, j \in DOMAIN LocalSkills : LocalSkills[i].id = LocalSkills[j].id => i = j

ASSUME HintListsAssumption == \A hints \in HintLists : hints \in Seq(ToSet(hints))

VARIABLES
    context,   \* SkillRuntimeContextResponse, and the run's tools
    catalog,   \* SkillCatalogResponse, before it is built without skills
    offer,     \* what skill_catalog or skill_context last listed
    answer     \* the last tool call and its reply, <<>> for None

vars == <<context, catalog, offer, answer>>

Locales == {"ja", "ja-JP", "en", "fr"}
NoLocale == "none"
NoHint == "none"

\* normalized_locale: NoLocale for a language that is not known.
Normalized(locale) ==
    CASE locale \in {"ja", "ja-JP"} -> "ja"
      [] locale = "en" -> "en"
      [] OTHER -> NoLocale

Contexts ==
    [skills : SkillLists, managed : ManagedLists, custom : CustomLists,
     hints : HintLists, japanese : BOOLEAN, supply : Supplies]

Call(tool, locale, ref, hint, reply) ==
    [tool |-> tool, locale |-> locale, ref |-> ref, hint |-> hint, reply |-> reply]
NoCall == Call("none", NoLocale, "none", NoHint, <<>>)

IsManaged(skill) == skill.source = "managed"
IsCustom(skill) == skill.source = "custom"
Key(skill) == <<skill.source, skill.id>>

Outcomes == {"available", "warning", "unavailable"}

TypeOK ==
    /\ context \in Contexts
    /\ catalog.locale \in {"ja", "en", NoLocale}
    /\ catalog.origin \in {"control", "fallback_local", "none"}
    /\ \A i \in DOMAIN catalog.skills : catalog.skills[i].availability \in Outcomes
    /\ \A i \in DOMAIN answer.reply : answer.reply[i].availability \in Outcomes
    /\ answer.locale \in Locales \cup {NoLocale}

-----------------------------------------------------------------------------
(* Building the catalog *)

\* The context's own locale, then resolve_skill_locale: the first hint that is a
\* known language, else what the conversation looks like.
ResolvedLocale(hints, japanese) ==
    LET known == FirstAt(hints, {i \in DOMAIN hints : Normalized(hints[i]) # NoLocale})
    IN  IF known # <<>> THEN Normalized(Head(known))
        ELSE IF japanese THEN "ja" ELSE "en"

\* localized_managed_skills: any language but "ja" is English, and "ja-JP" is
\* not "ja" here.
LocalManaged(locale) ==
    [i \in DOMAIN LocalSkills |->
        [source |-> "managed", id |-> LocalSkills[i].id, name |-> "local",
         text |-> IF locale = "ja" THEN "ja" ELSE "en",
         needs |-> LocalSkills[i].needs, prefers |-> LocalSkills[i].prefers,
         availability |-> "available", missing |-> {}]]

\* merge_unique_skills
MergeSkill(merged, skill) ==
    IF \E i \in DOMAIN merged : Key(merged[i]) = Key(skill) THEN merged
    ELSE Append(merged, skill)

Merge(target, extra) == FoldLeft(MergeSkill, target, extra)

\* evaluate_skill_availability
Evaluate(skill, supply) ==
    [skill EXCEPT
        !.availability = IF ~(skill.needs \subseteq supply) THEN "unavailable"
                         ELSE IF ~(skill.prefers \subseteq supply) THEN "warning"
                         ELSE "available",
        !.missing = (skill.needs \cup skill.prefers) \ supply]

HasManaged(skills) == \E i \in DOMAIN skills : IsManaged(skills[i])

Origin(c) ==
    IF HasManaged(c.skills) \/ c.managed # <<>>
    THEN "control" ELSE "fallback_local"

\* Slip: `skills` is only merged, never looked at for managed skills.
BaseWithoutSkills(c, locale) ==
    Merge(IF c.managed # <<>> THEN c.managed ELSE LocalManaged(locale), c.custom)

\* The managed skills the catalog starts with, by where they come from: control's
\* `skills`, control's `managedSkills`, the local copy.
Base(c, locale) ==
    IF HasManaged(c.skills) THEN c.skills
    ELSE IF c.managed # <<>> THEN Merge(c.managed, c.custom)
    ELSE Merge(LocalManaged(locale), c.custom)

\* The three merges of build_skill_catalog.
Merged(c, locale) == Merge(Merge(Base(c, locale), c.skills), c.custom)

Build ==
    /\ catalog.origin = "none"
    /\ LET locale == ResolvedLocale(context.hints, context.japanese)
           merged == Merged(context, locale)
       IN  catalog' = [locale |-> locale, origin |-> Origin(context),
                       skills |-> [i \in DOMAIN merged |->
                                       Evaluate(merged[i], context.supply)]]
    /\ UNCHANGED <<context, offer, answer>>

-----------------------------------------------------------------------------
(* The local skill tools *)

\* The custom skills of a list, in its order.
AddCustom(customs, skill) == IF IsCustom(skill) THEN Append(customs, skill) ELSE customs

Customs(skills) == FoldLeft(AddCustom, <<>>, skills)

\* The local copy of a skill, as available as the catalog's.
Relocated(local, skills) ==
    LET existing == FirstAt(skills, {i \in DOMAIN skills : Key(skills[i]) = Key(local)})
    IN  IF existing = <<>> THEN local
        ELSE [local EXCEPT !.availability = Head(existing).availability,
                           !.missing = Head(existing).missing]

\* localized_catalog_for_locale, its skills.
LocalizedFrom(from, locale) ==
    IF locale = from.locale \/ from.origin = "control" THEN from.skills
    ELSE [i \in DOMAIN LocalSkills |-> Relocated(LocalManaged(locale)[i], from.skills)]
         \o Customs(from.skills)

\* Slip: the local copies as they are.
LocalizedAfresh(locale) ==
    IF locale = catalog.locale \/ catalog.origin = "control" THEN catalog.skills
    ELSE LocalManaged(locale) \o Customs(catalog.skills)

Localized(locale) == LocalizedFrom(catalog, locale)

\* describe_skill: a managed skill by its id, a custom one by its id or name,
\* and without a hint the managed one first.
Describe(skills, ref, hint) ==
    LET managed == FirstAt(skills, {i \in DOMAIN skills :
                       IsManaged(skills[i]) /\ skills[i].id = ref})
        custom == FirstAt(skills, {i \in DOMAIN skills :
                      IsCustom(skills[i]) /\ ref \in {skills[i].id, skills[i].name}})
    IN  CASE hint = "managed" -> managed
          [] hint = "custom" -> custom
          [] OTHER -> IF managed # <<>> THEN managed ELSE custom

\* The tools' locale argument, by default the catalog's locale.
Asked(locale) == IF locale = NoLocale THEN catalog.locale ELSE locale

Ready == catalog.origin # "none"

SkillList ==
    /\ Ready
    /\ answer' = Call("skill_list", NoLocale, "none", NoHint,
                      Customs(catalog.skills))
    /\ UNCHANGED <<context, catalog, offer>>

SkillGet(ref) ==
    /\ Ready
    /\ answer' = Call("skill_get", NoLocale, ref, NoHint,
                      FirstAt(catalog.skills, {i \in DOMAIN catalog.skills :
                          IsCustom(catalog.skills[i]) /\ catalog.skills[i].id = ref}))
    /\ UNCHANGED <<context, catalog, offer>>

\* skill_catalog and skill_context list the same entries.
SkillCatalogTool(locale) ==
    /\ Ready
    /\ answer' = Call("skill_catalog", locale, "none", NoHint, Localized(Asked(locale)))
    /\ offer' = answer'
    /\ UNCHANGED <<context, catalog>>

\* Slip: the catalog's own language, whatever was asked for.
SkillDescribeInCatalog(ref, hint, locale) ==
    /\ Ready
    /\ answer' = Call("skill_describe", locale, ref, hint,
                      Describe(catalog.skills, ref, hint))
    /\ UNCHANGED <<context, catalog, offer>>

SkillDescribe(ref, hint, locale) ==
    /\ Ready
    /\ answer' = Call("skill_describe", locale, ref, hint,
                      Describe(Localized(Asked(locale)), ref, hint))
    /\ UNCHANGED <<context, catalog, offer>>

Init ==
    /\ context \in Contexts
    /\ catalog = [locale |-> NoLocale, origin |-> "none", skills |-> <<>>]
    /\ offer = NoCall
    /\ answer = NoCall

Next ==
    \/ Build
    \/ SkillList
    \/ \E ref \in Refs : SkillGet(ref)
    \/ \E locale \in Locales \cup {NoLocale} :
          \/ SkillCatalogTool(locale)
          \/ \E ref \in Refs, hint \in {"managed", "custom", NoHint} :
                SkillDescribe(ref, hint, locale)

Spec == Init /\ [][Next]_vars

-----------------------------------------------------------------------------
(* Properties *)

\* What skill_catalog offers in a locale, skill_describe finds in that locale,
\* and it is the same entry: two tools reading the catalog along different paths
\* agree (skills.rs:122-154, 310-349, 389-413).  The exception is the code's: a
\* custom skill is also found by its name, so one whose name is another's id may
\* answer for it; without a hint, so may a managed skill with that id.
DescribesWhatItOffers ==
    answer.tool = "skill_describe" /\ answer.locale = offer.locale =>
        \A e \in ToSet(offer.reply) :
            answer.ref = e.id /\ answer.hint \in {e.source, NoHint} =>
                /\ answer.reply # <<>>
                /\ \/ Head(answer.reply) = e
                   \/ IsCustom(e) /\ Head(answer.reply).name = e.id
                   \/ IsCustom(e) /\ answer.hint = NoHint
                       /\ IsManaged(Head(answer.reply))

\* No custom skill control sends, in either list, is lost on the way to any of
\* the tools, in any locale, wherever the managed skills come from, and none is
\* made up (skills.rs:47-59, 106-121, 336-341).
CustomSkillsAreKept ==
    LET sent == {s.id : s \in {e \in ToSet(context.skills \o context.custom) : IsCustom(e)}}
    IN  /\ answer.tool \in {"skill_list", "skill_catalog"} =>
              {s.id : s \in {e \in ToSet(answer.reply) : IsCustom(e)}} = sent
        /\ answer.tool = "skill_get" => (answer.reply # <<>> <=> answer.ref \in sent)

\* The managed skills listed are, in any locale, all those of one list and no
\* others: of control's `skills` if it holds a managed one, or else of its
\* `managedSkills`, or else of the local copy.  The lists are not joined: a skill
\* of `managedSkills` is not offered when `skills` holds another managed one
\* (skills.rs:42-59, 317-334).
ManagedSkillsAreKept ==
    LET ids(list) == {s.id : s \in {e \in ToSet(list) : IsManaged(e)}}
    IN  answer.tool = "skill_catalog" =>
            ids(answer.reply) =
                IF HasManaged(context.skills) THEN ids(context.skills)
                ELSE IF context.managed # <<>> THEN ids(context.managed)
                ELSE {s.id : s \in ToSet(LocalSkills)}

\* A skill is never said to be available, or more available than it is, when what
\* it needs is missing, not even through the copy in another language, which is
\* not evaluated again (skills.rs:61-76, 230-287, 322-334).
AvailabilityIsReal ==
    \A e \in ToSet(answer.reply) :
        /\ e.availability = "unavailable" <=> ~(e.needs \subseteq context.supply)
        /\ e.availability = "available" => e.prefers \subseteq context.supply
        /\ e.missing = (e.needs \cup e.prefers) \ context.supply

\* The managed skills of an answer are all control's or all the local copy, the
\* latter only when control sent none in either list: "Fallback-only managed
\* skill catalog used when control RPC does not provide managed skills"
\* (managed_skills.rs:9-10; skills.rs:43-57, 317-319).
ManagedFromOneSource ==
    LET sentByControl ==
            {s \in ToSet(context.skills \o context.managed) : IsManaged(s)} # {}
    IN  \A e \in ToSet(answer.reply) :
            IsManaged(e) => (e.text = "control" <=> sentByControl)

\* Of lists without repetitions comes a catalog without repetitions, in every
\* locale: a skill control sends in two lists is offered once (skills.rs:86-98).
OfferedOnce ==
    \A i, j \in DOMAIN offer.reply :
        Key(offer.reply[i]) = Key(offer.reply[j]) => i = j

\* The catalog is every custom skill control sent, with the managed skills of
\* exactly one list: none of those lost, none made up or mixed with another
\* list's, none twice (skills.rs:43-98).
CatalogIsWhatWasSent ==
    /\ TypeOK
    /\ CustomSkillsAreKept
    /\ ManagedSkillsAreKept
    /\ ManagedFromOneSource
    /\ OfferedOnce
=============================================================================
