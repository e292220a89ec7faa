--------------------------- MODULE MCSpaceMemory ---------------------------
(***************************************************************************)
(* What a run needs for the memory of its space, on small instances:       *)
(* RunSettings and MemoryNames.  They share no state, and neither do the   *)
(* settings of the embedding and the numbers among the settings, so a      *)
(* behaviour has one of the three for its subject, with the others at rest.*)
(*                                                                         *)
(* RunSettings gets all combinations of what each source may say, and      *)
(* every number in every place; MemoryNames gets short names over the      *)
(* characters that the code tells apart.                                   *)
(***************************************************************************)
EXTENDS RunSettings, MemoryNames

VARIABLE subject    \* "embedding", "numbers" or "names"

AllEnvironments ==
    [provider : {Absent, Blank, "hash", "openai", "unsupported"},
     model : {Absent, "env model"}, baseUrl : {Absent, Blank, "env url"},
     dimensions : {Absent, "env dimensions"},
     embeddingKey : {Absent, Blank, "env embedding key"},
     openaiKey : {Absent, "env openai key"}]

AllRunConfigs ==
    [provider : {Absent, "hash", "openai", "unsupported"},
     model : {Absent, "run model"}, baseUrl : {Absent, "run url"},
     dimensions : {Absent, "run dimensions"}, key : {Absent, Blank, "run key"}]

\* Around both caps, around 0, and around the end of 32 bits, which is drawn
\* at 1000.
SomeNumbers == {-1, 0, 1, 15, 16, 17, 127, 128, 129, 1000, 1001, 1005}
SomeEnvNumbers == {-1, 0, 1, 64}

\* One of one byte, one of two and one of four.
SomeWidths == [ch \in {"a", " ", ".", "_", "/", "e2", "e4"} |->
                   CASE ch = "e2" -> 2 [] ch = "e4" -> 4 [] OTHER -> 1]

SomeIds ==
    BoundedSeq({"a", "/", "."}, 2) \cup {<<"_">>, <<" ">>, <<"a", "_">>, <<".", ".", "/">>}

SomeTexts == BoundedSeq({"a", "e2", "e4", " "}, 6)

NothingConfigured ==
    /\ environment = [provider |-> Absent, model |-> Absent, baseUrl |-> Absent,
                      dimensions |-> Absent, embeddingKey |-> Absent,
                      openaiKey |-> Absent]
    /\ runConfig = [provider |-> Absent, model |-> Absent, baseUrl |-> Absent,
                    dimensions |-> Absent, key |-> Absent]
    /\ controlKey = Absent /\ backend = NoBackend("not run") /\ memory = {}

NoNumbers ==
    /\ budget = [maxGraphSteps |-> Absent, maxIterations |-> Absent,
                 maxToolRounds |-> Absent]
    /\ service = [runs |-> Absent, heartbeat |-> Absent]

MCInit ==
    /\ NamesInit
    /\ \/ subject = "embedding" /\ EmbeddingInit /\ NoNumbers
       \/ subject = "numbers" /\ NothingConfigured /\ NumbersInit
       \/ subject = "names" /\ NothingConfigured /\ NoNumbers

MCNext ==
    \/ subject = "embedding" /\ SettingsNext /\ UNCHANGED <<subject, nameVars>>
    \/ subject = "names" /\ NamesNext /\ UNCHANGED <<subject, settingsVars>>

MCSpec == MCInit /\ [][MCNext]_<<settingsVars, nameVars, subject>>
=============================================================================
