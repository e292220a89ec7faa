---------------------------- MODULE MemoryNames ----------------------------
(***************************************************************************)
(* What an executor calls things in the memory of its spaces               *)
(* (src/engine_support.rs): the directory of a run's store, made of ids    *)
(* that the control plane chooses, and the title of a distilled session,   *)
(* cut to a number of bytes.                                               *)
(*                                                                         *)
(* A name is a sequence of characters, each a letter of Letters or one of  *)
(* a few that the code treats on its own; Width is the number of bytes of  *)
(* a character.                                                            *)
(***************************************************************************)
EXTENDS Naturals, SequencesExt, FiniteSetsExt

CONSTANTS
    Ids,            \* the ids the control plane may send
    Texts,          \* the requests a session may begin with
    Letters,        \* of the characters, those that are alphanumeric ASCII
    Width,          \* the bytes of a character, in UTF-8
    TargetLen       \* of a title, in bytes: 64 in the code

Characters == DOMAIN Width
Ellipsis == "..."   \* of 3 bytes

ASSUME TargetLenAssumption == TargetLen \in Nat /\ TargetLen >= 3

\* What tells letters from the characters with a meaning, and the ellipsis
\* from all characters, is that each is one.
ASSUME CharactersAssumption ==
    /\ Letters \cap {"/", " "} = {} /\ Ellipsis \notin Characters
    /\ \A ch \in Characters : Width[ch] \in Nat
    /\ \A value \in Ids \cup Texts : value \in Seq(Characters)

VARIABLES
    stores,         \* the runs so far, and the directory of each
    titles          \* the requests distilled so far, and the title of each

nameVars == <<stores, titles>>

None == <<"none">>      \* a run without an installation

-----------------------------------------------------------------------------
(* Directories *)

SafeCharacter(ch) == ch \in Letters \cup {"-", "_", "."}

SafeStorageSlug(value) ==
    LET slug == [i \in DOMAIN value |-> IF SafeCharacter(value[i]) THEN value[i] ELSE "_"]
    IN IF slug \in {<<>>, <<".">>, <<".", ".">>} THEN <<"_">> ELSE slug

IsBlank(value) == \A i \in DOMAIN value : value[i] = " "

SafeSpacePath(space) == <<<<"spaces">>, SafeStorageSlug(space)>>

SafeInstallationPath(space, installation) ==
    SafeSpacePath(space) \o <<<<"installations">>, SafeStorageSlug(installation)>>

\* The components below the data directory.
SafeRunStorePath(space, installation) ==
    IF installation = None \/ IsBlank(installation)
        THEN SafeSpacePath(space)
        ELSE SafeInstallationPath(space, installation)

-----------------------------------------------------------------------------
(* Titles *)

AddWidth(bytes, ch) == bytes + Width[ch]
Bytes(text) == FoldLeft(AddWidth, 0, text)

Trim(text) ==
    LET kept == {i \in DOMAIN text : text[i] # " "}
    IN IF kept = {} THEN <<>> ELSE SubSeq(text, Min(kept), Max(kept))

PrefixBudget == TargetLen - 3   \* bytes; 3 are for the ellipsis

\* Slip: the cut is after the last character that begins within the budget.
SafeCutAfter(text) ==
    Max({n \in DOMAIN text : Bytes(SubSeq(text, 1, n - 1)) <= PrefixBudget})

\* The characters before the last one that begins within the budget.
SafeCut(text) ==
    Max({n \in 0..(Len(text) - 1) : Bytes(SubSeq(text, 1, n)) <= PrefixBudget})

TruncateTitle(source) ==
    LET trimmed == Trim(source)
    IN IF Bytes(trimmed) <= TargetLen THEN trimmed
       ELSE Append(SubSeq(trimmed, 1, SafeCut(trimmed)), Ellipsis)

-----------------------------------------------------------------------------
NamesInit == stores = {} /\ titles = {}

\* A run opens its store.
Open(space, installation) ==
    /\ stores' = stores \cup {[space |-> space, installation |-> installation,
                               path |-> SafeRunStorePath(space, installation)]}
    /\ UNCHANGED titles

\* A session is distilled.
Distill(request) ==
    /\ titles' = titles \cup {[request |-> request, title |-> TruncateTitle(request)]}
    /\ UNCHANGED stores

\* Bound: what two runs and one session do.
NamesNext ==
    \/ /\ Cardinality(stores) < 2 /\ titles = {}
       /\ \E space \in Ids, installation \in Ids \cup {None} : Open(space, installation)
    \/ /\ stores = {} /\ titles = {}
       /\ \E request \in Texts : Distill(request)

NamesSpec == NamesInit /\ [][NamesNext]_nameVars

-----------------------------------------------------------------------------
(* Properties *)

\* Whatever the ids, a store is below spaces/ in the data directory: no part of
\* its path is empty, leads up, or has a separator in it
\* (engine_support.rs:451-466).
StoresStayInside ==
    \A s \in stores : \A i \in DOMAIN s.path :
        /\ s.path[i] \notin {<<>>, <<".">>, <<".", ".">>}
        /\ "/" \notin Range(s.path[i])

Plain(id) ==
    id \notin {<<>>, <<".">>, <<".", ".">>} /\ \A i \in DOMAIN id : SafeCharacter(id[i])

\* Runs of different spaces or installations never share a store
\* (src/README.md:102-105), for ids that are plain; ids that differ in other
\* characters only, like a/b and a_b, do share one.
StoresAreIsolated ==
    \A s, t \in stores :
        (/\ s.path = t.path
         /\ \A r \in {s, t} : Plain(r.space)
                              /\ (r.installation = None \/ Plain(r.installation)))
            => s = t

IsCut(title) == title # <<>> /\ Last(title) = Ellipsis

\* A title has at most TargetLen bytes, keeps whole characters, and is the
\* request, or begins like it and has room for no further character
\* (engine_support.rs:581-598).
TitlesFit ==
    \A t \in titles :
        LET text == Trim(t.request)
            kept == IF IsCut(t.title) THEN Front(t.title) ELSE t.title
        IN /\ IsPrefix(kept, text)
           /\ IF IsCut(t.title)
                  THEN /\ Bytes(kept) + 3 <= TargetLen
                       /\ Bytes(kept) + 3 + Width[text[Len(kept) + 1]] > TargetLen
                  ELSE kept = text /\ Bytes(kept) <= TargetLen

\* No id or text, however odd, makes the names of stores and sessions go wrong
\* (engine_support.rs:451-466, 581-598).
NamesAreSound == StoresStayInside /\ StoresAreIsolated /\ TitlesFit
=============================================================================
