# takos-agent: verification project

TLA+ models of takos-agent, model-checked with TLC and proved with TLAPS.

takos-agent is a container service that executes agent runs for a control
plane. A host sends `POST /start` with a run; the service admits it if a slot is
free, answers 202, and executes it in a spawned task. Everything the task needs
and everything it reports goes through RPCs to the control plane, whose replies
may be lost. The turn itself is executed by the library takos-agent-engine,
which is not part of the repository.

## Inventory

| Component | Source | State | Operations |
|---|---|---|---|
| Run admission, HTTP surface | `src/main.rs` 95-337 | `active_runs`, the requests in flight | `start`, `health`, `try_register_run`, `finish_run`, `RunSlotGuard` |
| Run lifecycle | `src/main.rs` 410-800 | the run's task, the heartbeat task, their cancellation token | `execute_run`, `heartbeat_loop`, `handle_success`, `handle_failure`, the net in `start` |
| Tool bridge | `src/tool_bridge.rs` | execution records, call sequence, token | `execute`, `take_tool_executions` |
| Execution with its tools | `src/main.rs` 478-656 | the token that lifecycle and tools share | `execute_run` |
| Lease handover | `src/main.rs`, `src/control_rpc.rs` | leases, tokens and reports of one run over several executors | `/start` again, `heartbeat`, `update_run_status` |
| Model runner | `src/model.rs` | usage tracker, keys | `run`, `openai_response` |
| Control RPC client | `src/control_rpc.rs` | event sequence, nonce counter | one method per RPC, `post_json`, `is_lease_lost` |
| Internal RPC | `src/internal_rpc.rs` | none | signing and verification |
| Skills | `src/skills.rs`, `src/managed_skills.rs` | none | catalog merge, local skill tools |
| Tool selection | `src/main.rs` 880-979 | none | `select_model_tools` |
| Engine support | `src/engine_support.rs` | none but the usage tracker | configuration, embedding back end, store paths, titles, distiller |
| Prompts | `src/prompts.rs`, `src/prompt_assets.rs` | none | static text |
| Contract package | `packages/agent-contract` | none | types |

How they interact. `start` registers the run and spawns its task; the task owns
the slot through `RunSlotGuard`. `execute_run` builds a control RPC client, loads
its context, spawns `heartbeat_loop` and calls the engine, which calls back the
model runner and the tool bridge. The heartbeat and the tool bridge share one
cancellation token with the turn: a lost lease cancels the token, the tool
bridge drops the call in flight, the engine gives up the turn. Then the outcome
is reported. If the execution returns an error, the net around it reports once
more with a client of its own. Task, heartbeat and tool calls send their RPCs at
the same time through clones of one client, which share its counters. Outside the
process, the scheduler may hand the run to another executor while this one is
still at work; what then keeps the two apart is the lease that heartbeats name and
the token that all requests carry.

What is hard. Requests interleave with each other and with tasks that end.
A handler may be dropped at an await, a task may panic, the process may be
killed. A report has an outcome its sender cannot see: refused, applied with the
reply lost, or applied later. The heartbeat runs beside the run and must not
outlive it. A `/start` that meets the execution before it looks accepted.
`PROJECT.json` lists these hazards with the line where each bites.

What makes each component correct. Admission: every slot belongs to a live run
and comes back after it; no run is executed twice at a time; the capacity holds
for the tasks and not only for the registry; answers are true. Lifecycle: a run
on record as completed has its answer; a thread never shows an answer and an
apology; an acknowledged report is the last one; an execution that ends was
reported or has tried to; no lease is renewed for a dead run; a lost lease ends
the run. Tool bridge: each event pair and each record is that of one call, only
permitted tools run, a cancelled call is neither sent nor waited for. Both
together: a stored answer has its calls' records, and after the clean-up nothing
of a call moves. Handover: no lease is renewed for an execution of another, no
displaced execution decides the run, a granted lease is served. Model runner: a
key is replaced only for authentication failures, usage counts once. Client:
numbers are unique and in an order that can be trusted, and only a lost lease
cancels. Internal RPC: what is accepted is what was signed. Skills: the tools
agree with each other in every locale, every custom skill and all managed skills
of exactly one list are there, and none is called available when it is not. Tool selection: a sendable list that leaves nothing out of reach.
Engine support: one embedding per memory, limits within their caps, stores
inside and apart, titles that fit.

## Modules

| Module | What it is |
|---|---|
| `RunSlots` | abstract: a bounded set of executing runs |
| `RunAdmission` | `start`, `health`, the middleware, the registry, the slot guard, the spawned tasks |
| `RunContract` | abstract: what one execution promises about the run's outcome |
| `RunLifecycle` | one execution, its heartbeat, the token, what the control plane keeps |
| `ToolBridge` | the tool calls of one turn, their cancellation, events and records |
| `RunTurn` | composition of `RunLifecycle` and `ToolBridge`: an execution with its tool calls |
| `LeaseHandover` | one run, several executors and leases |
| `ModelRunner` | the model calls of one turn: keys, failover, usage, the message to the user |
| `ControlRpc` | the concurrent requests of a run, their numbers, what failures are taken for |
| `InternalRpc` | signing and verifying a request |
| `SkillCatalog` | the skill catalog of a run and the five local skill tools |
| `ToolSelection` | which tools the model is shown |
| `RunSettings` | embedding settings and memory, limits, numbers of the service |
| `MemoryNames` | store paths and session titles |
| `MCRunAdmission`, `MCRunLifecycle`, `MCToolBridge`, `MCRunTurn`, `MCLeaseHandover`, `MCModelRunner` | instances of the module of that name |
| `MCControlRpc` | instance of `ControlRpc` and `InternalRpc` |
| `MCModelOffer` | instance of `SkillCatalog` and `ToolSelection` |
| `MCSpaceMemory` | instance of `RunSettings` and `MemoryNames` |
| `Iterators` | `find` of Rust's iterators |
| `RunAdmissionProofs`, `RunLifecycleProofs`, `ToolBridgeProofs`, `RunTurnProofs`, `ModelRunnerProofs` | theorems about the module of that name |
| `ControlPlaneProofs` | theorems about `ControlRpc`, `InternalRpc` and `LeaseHandover` |
| `RunSetupProofs` | theorems about `SkillCatalog`, `ToolSelection`, `RunSettings` and `MemoryNames` |
| `FoldFacts` | induction over a list for `FoldLeft`, with any step: the lemmas that the two modules with loops use |

`MCControlRpc`, `MCModelOffer` and `MCSpaceMemory` each hold two components that share no state. A
variable `subject` picks one of them for a behaviour and leaves the other at
rest, so that the state spaces add up instead of multiplying; each property speaks
of its own component's variables and is true of the other's behaviours because
these leave them at rest.

Definitions whose comment begins with "Slip" are variants of the definition that
follows them, with the kind of bug a change could introduce. They are not part
of the specification; each property is known to fail when its slip replaces the
original.

### RunAdmission and the code

A handler is one request in flight: `idle`, `receiving` (body still arriving,
the only await of `start`), `admitted` (between lines 284 and 311), `counting`
(between the two locks of `health`), `replied`. `TimeoutLayer` or the peer can
drop a handler only while it is receiving. `TryRegisterRun` is one step, because
the code holds the lock; `Spawn` is another. A task is `working` (inside
`execute_run` or the net) or `unwinding` (over, by return, error or panic, with
`_slot` not yet dropped). `ReleaseSlot` is `RunSlotGuard::drop`. `Restart` empties
everything, as the registry lives in memory. 401, 503 (not configured), 400 and
413 are one outcome, `RejectStart`: they have the same effect, none.

### RunLifecycle and the code

`pc` follows the run's task through `execute_run`; `stage` counts the steps of
its setup, of which those with `?` may fail. `hb` is the heartbeat task. A status
report ends in one of four ways: acknowledged, refused, applied with its
reply lost, or still on its way when the 30 s timeout fires, to be applied
later or never. Messages likewise; events are sent with `.ok()` and may or may
not arrive. `configured` stands for whether `ControlRpcClient::new` succeeds: it
depends on the payload and the environment only, so the net's client succeeds
exactly when the run's did. The turn belongs to the engine: it makes up to
`MaxModelCalls` counted model calls and returns any `LoopStatus` or an error,
`Cancelled` only with a cancelled token. `Panic` may unwind the task anywhere but
at the await of the heartbeat's handle, which cannot panic; its effects are those
of `AbortOnDrop` and of the token's drop guard, which exist from
`SpawnHeartbeat` on. An abort takes effect in a step of its own,
`ReapHeartbeat`. Progress, thinking and started events are left out.

### ToolBridge and the code

A call is a future of `execute`, and a step takes it from one await to the next;
`step` names the await. `announcing` covers the RPCs before the work
(`tool_call`, "thinking"), `waiting` is the `select!` on the token and
tool-execute, `reporting` the RPC of the `tool_result` of a call with a result,
`cancelling`, `failing` and `refusing` that of the other ends, `concluding` the
last "thinking". One place is no await: `selecting` is between the two branches
of the first poll of the `select!`, where a token cancelled just then comes too
late. The engine may have any number of calls in flight, as `execute` takes
`&self`. `TurnEnds` is `run_turn_with_options` returning: whatever it still has in
flight is dropped where it is. `RemoteExecutes` is the control plane's side, which
executes a request it has got even if its caller is gone. What kind of call it
is follows from the tool's name: memory and skill tools are local, and another
is sent or refused as `IsToolAllowed` says of the name and of
`TAKOS_AGENT_TOOL_ALLOWLIST`. The variable is the process's, so it is chosen once
for a behaviour, and it is taken apart as in `resolve_tool_allowlist`: a sequence
of entries with or without spaces around them, blank ones dropped, and an empty
rest like no variable at all. `OnlyPermittedToolsRun` says what the code's
comments (tool_bridge.rs:93-98) promise of the variable as it is written, not as
the code takes it apart. `verdict` says what a
call came to; what the engine is told and what the record says both derive
from it. `NothingRecordedLate` leans on the absence of tasks of a call's own: all
its work is in the future that the turn drops.

### ModelRunner and the code

A call of `run` waits from sending a request to its reply; what the provider does
with the request, what it answers and whether the answer arrives are one choice
(`Answered`). Failover looks for words in an error's text, and an error's text may
quote the body of a reply, so a text is the set of those words that it contains
(`Marks`). Keys are compared trimmed, as `collect_openai_api_keys` and
`sanitize_api_keys` both trim. Usage counts responses that report usage, not
tokens. The error of a request that was not sent or not answered is `reqwest`'s,
which names the URL in most cases; the URL is the operator's
(`TAKOS_AGENT_MODEL_ENDPOINT`) and may itself contain what failover looks for, so
`endpoint` is the set of those words in it. A provider that answers with an error
status is taken not to have served the request. `Drop` is the engine giving up the turn with a request outstanding.
`UserMessage` is what `handle_failure` makes of the error.

### RunTurn and the code

`RunTurn` has the variables of `RunLifecycle` and `ToolBridge`, with `token`
common to both, as `execute_run` clones one token for its heartbeat, its turn
and its tools. Steps of one side leave the other's variables alone. Four steps
move both: `TurnReturns` (the future of the turn goes, with the calls in it),
`HeartbeatLearnsLoss` (to the bridge a cancellation), `CleanUpTools` (whose
`take_tool_executions` follows the RPC) and `Panic` (which unwinds the turn's
future before anything else). When the process is killed the calls stay where
they are; the control plane goes on executing what it was sent.

### LeaseHandover and the code

The executions are drawn with the places that matter to a handover; the details
are `RunLifecycle`'s. A container knows a run by its id alone, so `Duplicate`
changes nothing, whatever lease the `/start` names (main.rs:286-295). `Beat`
names the lease of its execution, `Report` names none, and both carry the token
of the execution's own `/start`, unless the environment overrides it. Scheduler
and control plane are external: `Grant`, `Renews`, `Takes` are what the code, its
comments and `README.md` count on. `/start` requests, heartbeats and reports
arrive late, again, or never; a container may restart and forget the run.

### ControlRpc and the code

Each caller has at most one request of its own: the task and each tool call await
what they send, and the heartbeat loop does too. A request goes through
`numbering` (only `run-event` draws a sequence number), `signing` (where a nonce
is drawn if a key is configured) and `waiting`; between any two of these others
may draw. It arrives in any order or never; its caller may be told of a failure
all the same. `after` notes the events that were known to have arrived when a
number was drawn. Of an answer there is the status, the `error` field and
whether the text quotes a lost lease. `NetTakesOver` is the net's client with new
counters; the calls of the run's client are gone by then, their requests perhaps
not.

### InternalRpc and the code

A request is signed as it is given, may be rewritten in one field by that of
another signed request, and is verified against a policy at a time of the
receiver's clock. Digests and MACs are the tuples they are computed from.
Methods, queries and capabilities come in every spelling that is normalized.
`verify_internal_rpc` is compiled for the tests only and has no caller in the
service (internal_rpc.rs:50-58, 124): it is the repository's own account of how the
control plane, whose code is not here, reads what `sign_internal_rpc` writes. What
is shown of it, and of the clock skew, is shown of that account.

### SkillCatalog and the code

`Build` is `build_skill_catalog` on what the control plane sent; an RPC that fails
is the context whose lists are all empty. After that the catalog does not change
and each tool call reads it, localized anew for the locale it is asked in.
`offer` keeps the last listing, so that a later `skill_describe` can be compared
with it. Skills have the fields that decide something: source, id, name,
contract, availability, and in place of the texts their author and language. The
model shows two habits of the code that no document speaks of: a locale argument is not
normalized, so "ja-JP" gets the English copies although the same value as a
hint means Japanese; and once `skills` has one managed skill, `managedSkills` is
ignored, whatever else it names. `ManagedSkillsAreKept` states the second:
managed skills are never joined from two lists, but those of the list that counts
are all there.

### ToolSelection, RunSettings, MemoryNames and the code

`ToolSelection` is `select_model_tools` over a catalog and a limit, with the
code's own lists of names. `RunSettings` resolves each setting in the code's
order of sources; `Run` is one more run of a space, whose embedder writes to the
space's store, and `memory` is what wrote to it so far. Numbers of the run
configuration are cut to 32 bits as `u32_field` does; the caps are the code's.
`MemoryNames` has characters with a width in bytes instead of letters, which is
what `truncate_title` has to respect, and the characters that `safe_storage_slug`
tells apart.

## Runs

| Run | Instance | Shows |
|---|---|---|
| `admission` | 3 runs, 2 slots, 2 handlers | slots are live runs, answers are true, refinement of `RunSlots`, capacity comes back |
| `health_contract` | 1 run, 1 handler, defaults | `GET /health` without `runs`, contrary to `packages/agent-contract/src/index.ts` |
| `lifecycle` | 1 execution, 2 model calls | outcome, thread and heartbeat of an execution, refinement of `RunContract`, only the turn may hang |
| `tools` | 3 calls of any kind under one allowlist, 2 under 24 others | records, ids, events, lateness; nothing is sent after the cancellation; what is sent is what the operator permits, and nothing he permits is refused |
| `turn` | 1 execution, 1 model call, 1 tool call | answers carry records, quiet after the clean-up, reports follow calls, a lost lease ends calls and run |
| `handover` | 2 containers, 2 leases | renewals mean service, only the holder decides, a granted lease is served |
| `model_calls` | 3 calls, 2 keys, 2 endpoints, every kind of reply | usage is that of the outputs, keys in turn, nothing paid twice but in two cases, every call ends |
| `model_offer` | 48 contexts in 4 ways to find the locale with every question; catalogs of up to 4 tools with 4 limits | the skill tools agree, list what was sent of the lists that count, and mix or misstate nothing; the tool list is sound |
| `control_rpc` | 3 callers, 3 requests and one of the net; 80 signed requests, 8 receivers, clocks off by up to 3 | numbers can be trusted, only a lost lease cancels; the two sides of the envelope agree |
| `rpc_structured_error` | 1 heartbeat | a 409 that names another error cancels the run if it quotes a lost lease |
| `space_memory` | all settings of all sources; 12 numbers in each place; 2 runs with any ids of 17; requests of up to 6 characters | one embedding per memory, limits, store paths, titles |
| `settings_key_order` | all settings | the environment's `OPENAI_API_KEY` comes before the control plane's key |

Of `admission`, `lifecycle` and `tools` the invariant `IInv` is checked too: it is
the strengthening that the proofs use, with the type invariant and the lesser
properties as its parts (`OneTaskPerRun` and `TasksWithinCapacity`;
`AcknowledgedStands` and `EventsFollowReport`; `EventsPairUp`).
`NumbersCanBeTrusted`, `KeysAreTried`, `CatalogIsWhatWasSent`, `OfferIsSound`,
`NamesAreSound` and `LimitsAreAsAsked` are conjunctions too, of what a user of
the component counts on as a whole.

Bounds. Two handlers let two requests for one run race, and three runs are one
more than the slots, so that capacity is refused; a run can end and be started
again. `HandlersPerRun` is 8 as in the code, and two handlers never reach the
limit of 16 requests that it gives: all the limit does is let a request wait, which
in the model is a handler that stays idle. In the lifecycle, executions of different runs share nothing but
the slot, so one is enough; three values of `usage` tell the turn's usage from the
net's zero and from a premature reading. Calls of a turn share the counter, the
records and the token, each used by one call at a time: two calls show every
interference between them and three every order of two of them around a third.
Under the allowlist that names one remote tool each of them may be of every kind.
Under the others the constraint `TwoCallsOfMany` leaves the third call out: lists of
up to two entries out of nothing, `*`, a remote and a local name, with and without
spaces, which decide in every combination about a tool on the list, one off it and
local ones. What is permitted does not depend on the other calls.
The composition needs one call to meet every place of the execution; what calls do
to each other is the tool run's. Two leases are the successor and the one before
it, and two containers let it go elsewhere or back. The client has three callers,
one of each kind, and one request for each, so that any two can be between draw
and arrival while a third is anywhere. The model runner has two keys, the
control plane's and the container's, as in the code, and two endpoints, one whose
URL contains "401" and one without; a third call shows usage after a success and a
failure. For the skill catalog two managed ids of
which control may have one, one that only control has, and two custom skills, one
with the name and the other with the id of another skill, are the least in
which every branch of the merges and of `describe_skill` differs from the others.
Tool catalogs of four hold a core tool, one for discovery, a hidden one and another,
or doubles. Numbers lie at, above and below both caps, 0 and the end of
32 bits, drawn at 1000 as nothing depends on its value. A title has 8 bytes instead
of 64: cuts between and within characters of 1, 2 and 4 bytes all occur.

Deadlock is checked where the system never stops (`admission`, `model_offer`).
Executions, turns, model calls and handovers come to an end, and a client's bound
is used up: there `CHECK_DEADLOCK FALSE` is set. No run uses symmetry: those
with interchangeable values have a temporal property, for which TLC's symmetry is
unsound.

Fairness. `RunAdmission`: a handler whose request has arrived and a task that
unwinds are ready futures, which the runtime polls; whether a run ends is not
assumed but a hypothesis of `CapacityComesBack`. `RunLifecycle`: RPCs
return within `CONTROL_RPC_HTTP_TIMEOUT`, hence weak fairness of the run's
task and of the heartbeat; of the engine, that it gives up a turn once its token
is cancelled, and nothing about turns that are not. `RunTurn` assumes less of the
engine: only a cancelled turn in which no call is in flight is given up. That
calls end is left to the tool bridge, whose futures are polled (`CallStep`) while
nothing is assumed of the answers to tool-execute: so it is the token, and not
the HTTP timeout, that ends a call. Strong fairness of `HeartbeatLearnsLoss` says
that heartbeats may fail for other reasons many times, but not for ever.
`LeaseHandover` has the same for an execution's steps, its heartbeats and its
learning of the loss; an execution's end is strongly fair, since its report may be
refused now and then but not always; and the scheduler goes on sending the
`/start` of a lease that is not renewed until a container registers it.
`ModelRunner`: a request is answered or times out after `MODEL_HTTP_TIMEOUT`; a
provider's answer is not assumed. The other modules have no liveness property
and assume no fairness.

## Proofs

All safety properties that a passing run checks are theorems, for all values of
the constants; only liveness is not. What is assumed are the ASSUMEs of the
modules, which TLC evaluates on each instance:

- finite sets of runs and handlers, a positive capacity, natural bounds, distinct
  callers, integer timestamps and numbers, and the engine's own defaults within
  the caps; of the sets of calls, containers, keys and requests nothing;
- `ToolBridge`, and `RunTurn` for it: memory tools are no skill tools
  (`ToolsAssumption`, `RunToolsAssumption`); of the allowlist nothing;
- `ModelRunner`: the endpoint's URL has no blanks, so of the marks only those
  without one can be in it (`EndpointsAssumption`);
- `SkillCatalog`: what control sends is skills (`SentAssumption`), `managedSkills`
  holds managed and `customSkills` custom ones, and `skills` and `managedSkills`
  have each skill once (`ListsAssumption`). The code does not check this, it
  names the lists so, and `merge_unique_skills` does not look for doubles in the
  list it starts from. The local skills have distinct ids (`LocalSkillsAssumption`),
  as in `src/managed_skills.rs`;
- `ToolSelection`: a limit of at least 1, which `max_tool_definitions` sees to; of
  catalogs only that they are sequences of tools, with doubles or without;
- `RunSettings`: 32 bits hold the cap, and text is no number;
- `MemoryNames`: letters are not the slash or the blank, and the ellipsis is told
  from the characters of the text.

`RunAdmission!IInv`. `SlotsAreLiveRuns` and `OneTaskPerRun` are not inductive
alone: two handlers admitted for one run would spawn two tasks, so
`OneAdmissionPerRun` says that there are none; and `RegistryWithinCapacity` carries
the bound that `TasksWithinCapacity` follows from, as live runs are in the registry.
The refinement of `RunSlots` follows.

`RunLifecycle!IInv` adds to the properties what is known at each place of
the code: how far reporting has got (`ReportsByPlace`), that there is at most one
report by each reporter and that the record and the late requests are among
them (`ReportsOnRecord`), where the heartbeat may be (`HeartbeatByPlace`), how the
turn has ended (`EndingByPlace`) and what that means for the thread
(`ThreadMatchesEnding`). `AnswerBeforeCompleted`, `AnswerXorExplanation`,
`AcknowledgedStands` and the refinement of `RunContract` follow from these.

`ToolBridge!IInv` adds to the properties what is known of a call at each place of
its future: its events and verdict (`CallByStep`), that numbers given out are
below the next one (`Numbering`), that a request is that of a call past its select
(`RequestsByStep`), whether the call has its entry (`EntriesByStep`), and that
nothing is in flight after the turn (`TurnIsOver`). `NothingSentAfterCancel` is
temporal: a barred call, one with the token cancelled and neither requested nor
inside its first poll, stays barred.

`OnlyPermittedToolsRun` rests on `AllowedIsPermitted`: taking the variable apart
and looking the name up gives what the operator's text says of that name.

`RunTurnProofs`. A step of the composition is a step or a stutter of the tool
bridge, which is how the composition is written (`TurnIsABridge`, a lemma only),
so the bridge's invariant may be used. `Coupled` then ties the place of the execution to the state of the turn: before the turn's end
the bridge is running, from the clean-up on its records are taken and no call is in
flight. With it, and with the bridge's own invariant, answers carry their records
and nothing moves after the clean-up.

`ControlPlaneProofs` has three parts. `ControlRpc`: a number drawn is larger than
all that were sent, acknowledged or drawn before. The strengthening `RpcInv`
follows a number between its draw and the request's way (`PendingAreNew`,
`KnownAreBelow`); the net begins with new counters, but as another client with
nothing sent (`SentFits`, `AckedFits`). `InternalRpc`: a request rewritten in its
signature is unchanged otherwise; one rewritten elsewhere has the old signature,
so that accepting it means equality of everything that is signed.
`LeaseHandover`: `ExecutionsWereServed` says that whatever is at work was begun
under the lease it names and carries that lease's token or the override;
heartbeats and reports on their way inherit this (`BeatsAreOfServed`,
`ReportsKeepToken`). `RenewedMeansServed` and `OnlyHolderDecides` follow.

`ModelRunnerProofs`: a request is repeated only after an error that reads like a
failure of authentication, which an output never does; of a served request that
leaves a body that was not decoded and, as an invariant on the requests made, an
error that names the endpoint. Usage and outputs are counted in one step.
The order of keys rests on `SanitizeListsOnce`: whatever the key's sources name,
the list has no blank and no key twice.

`FoldFacts`. The code's loops over lists are folds, `FoldLeft(Op, base, list)`,
whose definition in the community modules ends in a recursive function over sets
of indices. The library's induction theorems take an operator, which the provers
cannot instantiate; so induction is stated here for sets: a set that has the
empty list and, with a list, every longer one by an element, has all lists
(`SequenceInduction`, from the well-foundedness of `<` on the naturals). That the
recursive function exists is proved the same way (`FoldExists`), and with it
`FoldEmpty` and `FoldAppend`, the two equations of a loop. A module INSTANCEs
`FoldFacts` once for each loop that it proves something of.

`RunSetupProofs` does so for five loops, each with what holds after any number of
its steps:

- `SkillCatalog`. `MergedFrom` says of a merge what it keeps and where what it
  adds comes from, `NoRepeats` that no key is there twice; a chain of up to four
  merges gives the catalog. `ManagedStay` says when a merge adds no managed skill,
  which gives that all come from the list the catalog starts with
  (`SentManagedIds`). What the tools read is then a function of catalog and
  arguments (`LocalizedFrom`, `Describe`), so one lemma on the localized list
  serves every tool and every locale. The invariant remembers that catalog, offer
  and answer are those functions of the context; the three properties follow from
  it. `OfferedIsDescribed` needs that the first entry found by id is the
  one listed, hence `OfferedOnce`.
- `ToolSelection`. `SelectedBy` says of the first n names what is selected, in
  increasing places of the list of names, which gives the order; what is not
  selected is absent from the catalog, or the limit is reached. The first name,
  the toolbox, is selected if it is there, as the limit is at least 1. `ListedFrom` is
  the same for the loop over the catalog itself.
- `RunSettings`. A key of the control plane is used only where no other is
  (`ApiKeyIs`); so, if anything else selects the back end, all back ends that a run
  may get are of one embedding (`OneEmbedding`), and the invariant is that the store
  holds vectors of such back ends only (`MemoryIsOfSettings`).
- `MemoryNames`. A slug is a name that stays where it is put, whatever it was made
  of (`SlugIsName`), and a plain id is its own slug (`SlugOfPlain`). Bytes add up
  (`BytesOfOneMore`), so that the greatest cut within the budget is followed by a
  character that does not fit (`CutFits`).

Model-checked only. Liveness under fairness (`CapacityComesBack`,
`OnlyTheTurnMayHang`, `LostLeaseEndsCallsAndRun`, `CallsEnd`, `GrantIsServed`) is
beyond the prover. The three properties that the code violates are refuted by their
runs.

## What the checks found

- `GET /health` carries no `runs` by default, whereas the contract package
  declares the field as mandatory (`health_contract`).
- A 409 whose structured `error` names something else cancels the run if its text
  quotes a lost lease, although the comment keeps that search for control planes
  without the field (`rpc_structured_error`).
- The environment's `OPENAI_API_KEY` wins over the key of the control plane, which
  the README of the agent lists before it (`settings_key_order`).

The properties also name conditions that the code needs and no document states.
`MemoryIsOfOneEmbedding` holds only if something other than the control plane's
key selects the back end: with that key alone, a run whose `api-keys` RPC fails
falls back to the hash embedder and mixes both in one store. `StoresAreIsolated`
needs ids of safe characters: `a/b` and `a_b` share a store. `OnlyHolderDecides`
needs that the environment does not override the token. `NothingOutOfReach` needs
a toolbox in the catalog, or discovery tools that fit into the limit beside the core
tools. `ServedCallsStand` says when a call that was served, and will be billed,
is sent again with the next key: when a body that cannot be decoded quotes a
failure of authentication, and when the reply is lost and the endpoint's URL
contains "401" or "invalid_api_key", as with the port 4010. And a
`maxGraphSteps` of 0 means the default although `maxIterations` is given.

## Not modelled

- Prompts and prompt assets, which are static text; build files and scripts.
- Payloads of the set-up RPCs and of model requests, contents of messages,
  sanitising of failure texts: no property depends on them. The cryptography of
  signatures and the JSON and base64 of the actor header.
- The distiller's graph and the hash embedder's arithmetic in
  `src/engine_support.rs`: pure data for the engine, whose use of it is not here.
- The engine (takos-agent-engine) and the control plane: only what this code
  passes to them and takes from them.
- A panic leaves no report of its own; that the control plane notices the missing
  heartbeat is not this code's promise. `GET /health` reads its two counts at
  two moments, and no document says that they belong together.

## What is left

The order of the net's events after the run's is not defined by the code: the net's
client counts from 1 again (main.rs:321), and `NumbersCanBeTrusted` speaks of the
numbers of one client; a property across the two would have to come from the
readers of the events. Of the four modules
of `RunSetupProofs` only the properties of the runs are stated; that the catalog
is the same for every order of lists with equal contents, say, is not claimed.
