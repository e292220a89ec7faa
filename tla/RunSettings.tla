---------------------------- MODULE RunSettings ----------------------------
(***************************************************************************)
(* The settings of the service and of its runs (src/engine_support.rs,     *)
(* src/main.rs): where they come from, which of them wins, and what the    *)
(* embedding backend they select does to the memory of a space, which      *)
(* outlives the runs (src/README.md:109-124).                              *)
(*                                                                         *)
(* A setting is Absent, Blank (only spaces), or a value; values are drawn  *)
(* by where they come from.  The environment's lists of names for one      *)
(* setting (engine_support.rs:349-374) are one entry, but for the API key, *)
(* whose list ends with OPENAI_API_KEY.                                    *)
(***************************************************************************)
EXTENDS Integers, Iterators

CONSTANTS
    Environments,   \* the embedding settings that the environment may name
    RunConfigs,     \* those that the control plane may send with run-config
    JsonNumbers,    \* the numbers it may send, some not of 32 bits
    EnvNumbers,     \* those the environment may name, of no more than 64 bits
    MaxU32,         \* the largest number of 32 bits
    DefaultGraphSteps, DefaultToolRounds,   \* of the engine
    Absent, Blank, Text     \* no value; only spaces; text that is no number

GraphStepCap == 128
ToolRoundCap == 16
DefaultMaxConcurrentRuns == 5
DefaultHeartbeatIntervalSecs == 15

ASSUME EngineDefaults ==
    /\ DefaultGraphSteps \in 1..GraphStepCap
    /\ DefaultToolRounds \in 1..ToolRoundCap

\* 32 bits are enough for the cap; serde_json's numbers are integers here.
ASSUME NumbersAssumption ==
    /\ MaxU32 \in Nat /\ MaxU32 >= GraphStepCap
    /\ JsonNumbers \subseteq Int /\ EnvNumbers \subseteq Int

ASSUME NoNumbersAssumption == {Absent, Blank, Text} \cap Int = {}

VARIABLES
    environment, runConfig,     \* the embedding settings
    controlKey,     \* the OpenAI key that api-keys answers with; or Absent
    budget,         \* the numbers of run-config
    service,        \* what the environment says of capacity and heartbeat
    backend,        \* that the last run got; or why it got none
    memory          \* the embeddings that made the vectors in the space's store

settingsVars == <<environment, runConfig, controlKey, budget, service, backend, memory>>
settings == <<environment, runConfig, controlKey, budget, service>>

NoBackend(why) == [none |-> why]
Got(b) == b \notin {NoBackend(why) : why \in {"not run", "unsupported", "no key"}}

EmbeddingInit ==
    /\ environment \in Environments /\ runConfig \in RunConfigs
    /\ controlKey \in {Absent, "control key"}
    /\ backend = NoBackend("not run") /\ memory = {}

NumbersInit ==
    /\ budget \in [maxGraphSteps : JsonNumbers \cup {Absent},
                   maxIterations : JsonNumbers \cup {Absent},
                   maxToolRounds : JsonNumbers \cup {Absent}]
    /\ service \in [runs : EnvNumbers \cup {Absent, Blank, Text},
                    heartbeat : EnvNumbers \cup {Absent, Blank, Text}]

SettingsInit == EmbeddingInit /\ NumbersInit

-----------------------------------------------------------------------------
(* Which setting wins *)

Given(v) == v \notin {Absent, Blank}

FirstOr(values, default) ==
    LET given == {i \in DOMAIN values : Given(values[i])}
    IN IF given = {} THEN default ELSE values[Min(given)]
FirstNonempty(values) == FirstOr(values, Absent)

\* hash, local and rust-hash are one provider, openai and openai-compatible
\* another, in any case.
Provider == FirstNonempty(<<environment.provider, runConfig.provider>>)
Model == FirstNonempty(<<environment.model, runConfig.model>>)
BaseUrl == FirstNonempty(<<environment.baseUrl, runConfig.baseUrl>>)
Dimensions == FirstNonempty(<<environment.dimensions, runConfig.dimensions>>)
ApiKey(fromControl) ==
    FirstNonempty(<<environment.embeddingKey, environment.openaiKey,
                    runConfig.key, fromControl>>)

\* Slip: only a key turns the backend on.
OpenAiConfiguredByKey(key) == Given(key)

OpenAiConfigured(key) ==
    \E v \in {Provider, Model, BaseUrl, key, Dimensions} : Given(v)

Hash == [provider |-> "hash", model |-> Absent, baseUrl |-> Absent,
         dimensions |-> Absent, key |-> Absent]

\* resolve_embedding_backend_config, and build_embedder on what it returns.
ResolveEmbedding(fromControl) ==
    LET key == ApiKey(fromControl) IN
    IF Provider = "hash" \/ ~OpenAiConfigured(key) THEN Hash
    ELSE IF Provider \notin {Absent, "openai"} THEN NoBackend("unsupported")
    ELSE IF ~Given(key) THEN NoBackend("no key")
    ELSE [provider |-> "openai", model |-> FirstOr(<<Model>>, "default model"),
          baseUrl |-> BaseUrl, dimensions |-> Dimensions, key |-> key]

\* What tells one space of vectors from another.
Embedding(b) == [provider |-> b.provider, model |-> b.model,
                 baseUrl |-> b.baseUrl, dimensions |-> b.dimensions]

\* One more run of the space: api-keys is answered or fails, and counts as
\* without keys then; a run that gets its embedder fills the store with it.
Run(answered) ==
    /\ backend' = ResolveEmbedding(IF answered THEN controlKey ELSE Absent)
    /\ memory' = IF Got(backend') THEN memory \cup {Embedding(backend')} ELSE memory
    /\ UNCHANGED settings

SettingsNext == \E answered \in BOOLEAN : Run(answered)

SettingsSpec == SettingsInit /\ [][SettingsNext]_settingsVars

-----------------------------------------------------------------------------
(* Numbers *)

\* Slip: a conversion that wraps around.
U32FieldWrapped(v) == IF v = Absent THEN Absent ELSE v % (MaxU32 + 1)

\* A number that is negative, or too large, is like none.
U32Field(v) == IF v # Absent /\ v \in 0..MaxU32 THEN v ELSE Absent

AtMost(v, cap) == IF v <= cap THEN v ELSE cap

\* 0 is a number that is there, and stands for the default.
Limit(own, cap, default) ==
    LET asked == FirstOr(<<U32Field(own), U32Field(budget.maxIterations)>>, 0)
    IN IF asked = 0 THEN default ELSE AtMost(asked, cap)

MaxGraphSteps == Limit(budget.maxGraphSteps, GraphStepCap, DefaultGraphSteps)
MaxToolRounds == Limit(budget.maxToolRounds, ToolRoundCap, DefaultToolRounds)

ParsePositive(raw, default) ==
    IF Given(raw) /\ raw # Text /\ raw >= 1 THEN raw ELSE default

MaxConcurrentRuns == ParsePositive(service.runs, DefaultMaxConcurrentRuns)
HeartbeatInterval == ParsePositive(service.heartbeat, DefaultHeartbeatIntervalSecs)

-----------------------------------------------------------------------------
(* Properties *)

\* Something other than the key of the control plane turns the backend on.
Explicit ==
    \/ Given(Provider) \/ Given(Model) \/ Given(BaseUrl) \/ Given(Dimensions)
    \/ Given(ApiKey(Absent))

\* The vectors of a space's memory can be compared: as long as its settings
\* stay, all were made by one embedding, whether or not api-keys answers, whose
\* failure goes unnoticed (main.rs:507).  This holds where anything but the
\* control plane's own key selects the backend: then a missing key fails the
\* run.  Where only that key does, a run without it falls back to the hash
\* embedder (engine_support.rs:380-385) and mixes both in one store.
MemoryIsOfOneEmbedding ==
    Explicit => \A e, f \in memory : e = f

\* A limit of the engine: within its cap what was asked for, by its own name or
\* for all limits; above it the cap; a number of more than 32 bits, or a negative
\* one, is no request, and neither is 0 where nothing else is asked for.
LimitAsAsked(limit, own, cap, default) ==
    LET none(v) == v \notin JsonNumbers \cap (0..MaxU32)
        asked == IF none(own) THEN budget.maxIterations ELSE own
    IN  /\ limit \in 1..cap
        /\ asked \in JsonNumbers \cap (1..cap) => limit = asked
        /\ asked \in JsonNumbers \cap ((cap + 1)..MaxU32) => limit = cap
        /\ none(asked) \/ asked = 0 => limit = default

\* A number of the service: what was asked for, if that is positive.
ServiceAsAsked(number, asked, default) ==
    /\ number >= 1
    /\ IF asked \in EnvNumbers /\ asked >= 1 THEN number = asked ELSE number = default

\* The engine's limits are at least 1 and at most the caps for all numbers that
\* JSON has, and are the ones asked for where those are in range
\* (engine_support.rs:290-303, control_rpc.rs:806-813).  Whatever the environment
\* says, the service has a slot, as RunAdmission assumes of it, and its
\* heartbeats have a pause, and both are the ones asked for if positive
\* (main.rs:1000-1028).
LimitsAreAsAsked ==
    /\ LimitAsAsked(MaxGraphSteps, budget.maxGraphSteps, GraphStepCap, DefaultGraphSteps)
    /\ LimitAsAsked(MaxToolRounds, budget.maxToolRounds, ToolRoundCap, DefaultToolRounds)
    /\ ServiceAsAsked(MaxConcurrentRuns, service.runs, DefaultMaxConcurrentRuns)
    /\ ServiceAsAsked(HeartbeatInterval, service.heartbeat, DefaultHeartbeatIntervalSecs)

\* As documented (src/README.md:117-119): for the API key, the environment's
\* OPENAI_API_KEY is the last resort, after the key of the control plane.
EnvironmentKeyIsLast ==
    (Got(backend) /\ environment.embeddingKey = Absent
     /\ backend.key = environment.openaiKey /\ backend.key # Absent)
        => controlKey = Absent
=============================================================================
