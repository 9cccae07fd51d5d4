# A TLA+ model of forge-guardrails

forge-guardrails is a Rust library and a proxy that stand between a program and a
language model. They check the tool calls a model proposes, send the model back
with a nudge when the calls are malformed or out of order, and give up after a
bounded number of attempts. This directory holds models of the parts of it that
keep state, the TLC configurations that check them, and proofs for TLAPS.
Source paths below are relative to the crate, where the library is `src/`.

- [The system](#the-system)
- [The modules](#the-modules)
- [The runs](#the-runs)
- [Disagreements between the code and its documents](#disagreements-between-the-code-and-its-documents)
- [The proofs](#the-proofs)
- [What is left out](#what-is-left-out)
- [Plan](#plan)

## The system

### Components that keep state and decide

| component | state | operations | what is hard | what makes it correct |
|---|---|---|---|---|
| **Slot worker** `core/slot_worker.rs` | a priority queue, the priority and the cancel sender of the running task, a `Notify` | `submit`, `run`, `cancel_current` | any number of callers and one worker interleave at every `await`; two mutexes are nested; callers drop futures and receivers | no wake-up and no task is lost; priority order, first come first served among equals; only outranked tasks are signalled; each kept receiver gets a result |
| **Workflow and step enforcement** `core/workflow.rs`, `core/steps.rs`, `guardrails/step_enforcer.rs` | the tracker of executed tools and their arguments, two counters | `record`, `check`, `check_prerequisites`, `is_satisfied` | a batch is checked once and executed call by call | no call before its prerequisites, no terminal call before the required steps |
| **Runner and inference loop** `core/runner.rs`, `core/runner/execution.rs`, `core/inference.rs`, `guardrails/error_tracker.rs` | the iteration budget and four counters, the batch in progress, the cancellation | `run`, `run_inference`, `execute_tool_batch` | six counters with different resets; two nested loops on one budget; tools of a batch that fail one by one | the workflow's contract; at most `max_iterations` requests; every run ends |
| **Proxy requests** `bin/forge-guardrails-proxy/routes/handlers.rs`, `response.rs`, `proxy/handler.rs`, `proxy/handler/nudge.rs` | `request_mutex` and the guard on it; per request an `ErrorTracker` and a `StepEnforcer` | the route, the guarded loop, the response stream | clients that hang up at any point, errors of the upstream, a guard that travels from the future into a stream | one request at a time, the guard always comes back, bounded attempts, every request settles |
| **Backend lifecycle** `server/lifecycle.rs`, `server/manager.rs` | the child process, the configuration it runs | `start`, `stop`, `drop` | processes that die, a port others use, a deadline; two cells under two locks | no orphan process; reuse only of the right, living process; calls return |
| **Guardrails facade** `guardrails/guardrails.rs` | the validator's retries, two counters of the enforcer, the executed tools | `check`, `record` | three counters with different resets, a caller that owns the loop | refusals come to an end; a model can always move on until they do |
| **Prior tool results** `proxy/handler/prior_tool_results.rs`, `proxy/proxy/message_parse.rs`, `id.rs` | a counter of the process, statuses rebuilt for each request | convert a history, name calls, record completed steps | ids are missing, repeated and renamed; texts are compressed before they are judged | completed steps are those the results tell |
| **Tool output state** `tool_output/state/*.rs`, `tool_output.rs` | per session: outputs sent, a memo of what was made of them | look up, de-duplicate, store, evict | concurrent requests and three locks in a row; byte budgets beside two queues and a map | a history sent again stays what it was; references resolve; totals are exact |
| **Tool output filters** `tool_output/` | none | cap, fold, table, two dictionaries, one filter per family of commands | overlaps, character boundaries, greedy choices with stale counts | what is written reads back; errors survive |
| **Transcript and context manager** `core/inference.rs`, `core/runner/execution.rs`, `context/*.rs` | the messages of a run, the thresholds that fired | append, compact in three phases, warn | compaction drops results and keeps calls | calls and results stay paired, recent steps stay |
| **Request contract** `proxy/handler/request_contract.rs` | none | validate, normalize, strip | several normalizations in a row | an accepted contract can be completed |
| **Tool policy** `tool_policy.rs` | the suggestions made in a request | evaluate a batch | the first of three objections wins | a suggestion is made before its command passes |
| **Schema compression** `schema_compression.rs` | none | minify a description | code between fences | words and code stay |
| **Log and capture sinks** `proxy/handler/classifier_log.rs` and two more | a static slot, a bounded queue, a writer thread | open, emit, flush, shut down | drops at the limit, emitters that hold an old sink, events after shutdown | each event is written once or counted as dropped |
| **Clients** `clients/` | the mode a client has learned, the accumulators of a stream | send, retry, fall back, assemble, convert | cuts, retries, four formats with four notions of an end and of an id | served once; finished answers are handed on whole; calls and results pair |
| **Scorers** `guardrails/scoring.rs`, `guardrails/onnx_scorer/` | permits, sessions, a cache | score a batch | a task on the blocking pool outlives its caller | permits bound tasks, verdicts are those of the batch |
| **Proxy binary** `bin/forge-guardrails-proxy/`, `server/budget.rs`, `server/setup.rs` | the backend it started, the context it found | parse, start, halve, resolve, prepare, serve, stop | each step may fail with the backend running; foreign servers on the port | no backend is left; the context is what a slot has |
| **Dataset tools** `bin/forge-dataset/`, `notebook/generatetd/` | files that are appended to, the state a review resumes from | capture, review, assemble, split, parse logs | kills between appends, conflicts, repeated ids | each capture is decided once; groups stay on one side of a split |

### Components without a module

Prompts and nudge texts, tool specifications, response formatting, secret redaction,
the numbers of the ONNX models, sampling tables, hardware detection, argument
lists of backends, downloads, the library's own listener, the evaluation binary,
scripts and packaging. Each is a row of `PROJECT.json` with the reason.

### How they interact

A program calls `WorkflowRunner::run`, directly or as the task of a slot worker.
The runner calls the inference loop, which calls a client; a valid batch comes
back, is put to the step enforcer and the scorers, and is executed. The proxy
uses the same inference loop and the same enforcer without executing anything:
the tools run in its client, and what they returned is read from the history of
the next request, after it was compressed against state that all requests share.
A program that owns its loop uses the facade instead. The proxy binary owns the
backend through a `ServerManager`, and the sinks.
The slot worker, the proxy's mutex, the server manager, the tool output state, the
sinks, the scorers and a client's learned mode are the places where
more than one actor touches the same state; the runner, the guarded loop and the facade are
the places where long sequences of legal answers exercise counters; the dataset
tools are where a process is killed and resumed.

## The modules

```
SlotService  <--implements--  SlotWorker  <--  MCSlotWorker, SlotWorkerProofs
Workflow  <--  WorkflowContract  <--implements--  Runner  <--  MCRunner, RunnerProofs
Workflow  <--------------------------------------/
GuardedProxy     <--  GuardedProxyProofs
ServerLifecycle  <--  ServerLifecycleProofs
PriorResults  <--  ToolOutput  <--  ProxySession  <--  MCProxySession, ProxySessionProofs
Workflow  <--  Guardrails
Judges: Guardrails, RequestContract, ToolPolicy, Scoring, DatasetReview, FamilyFilters,
    TextFilters  <--  JudgesProofs
Transports: Conversation, LogSinks, StreamAssembly, WireMessages, ClientRequests, ProxyStartup
    <--  TransportsProofs
MCComponents: Judges, Transports, LzwDictionary, RepairDictionary, SchemaMinify,
    DatasetCapture, DatasetRows, LogDataset  <--  ComponentsProofs
```

### SlotWorker, SlotService

One action is the code between two awaits, since only there may another future
run. `submitPc[t]` says at which await the call `submit(t)` stands and `pc` where
`run` stands.

| code | action |
|---|---|
| `submit` 86-88, compare under `current_priority` | `SubmitCompare` |
| 89-93, lock `current_cancel` as well and send | `SubmitSignal` |
| 106-114, insert by priority | `SubmitEnqueue` |
| 116, `notify_one` | `SubmitNotify` |
| the future of `submit` dropped at an await, the receiver dropped | `AbandonSubmit`, `DropReceiver` |
| `cancel_current` | `CancelCurrent` |
| `run`: look, wait, pop, skip a task whose receiver is closed | `WorkerCheck`, `WorkerPark`, `WorkerPop`, `WorkerScreen` |
| `run`: publish sender, then priority, then subscribe | `WorkerSetCancel`, `WorkerSetPriority`, `WorkerSubscribe` |
| the runner's loop, as far as it looks at the cancellation | `RunHead`, `RunStep` |
| `run`: clear both, deliver | `WorkerClearCancel`, `WorkerClearPriority`, `WorkerDeliver` |

Locks held over an await are not variables: they follow from where their owner
stands (`PriorityLocked`, `CancelLocked`). `permit` is the stored permit of
`Notify`. A `watch` channel without receivers refuses to store a value, which
`Send` models. `clock`, `arrivedAt` and `signals` are history.

`SlotService` is what callers are promised, with no lock, queue or wake-up: a set
of waiting tasks, the one in service, and results. `SlotWorker` implements it with
`waiting <- ToSet(queue)` and `serving <- task`.

### Workflow, WorkflowContract, Runner

`Workflow` holds the definition and the pure questions about a batch. A call is a
tool and the value of the one argument its prerequisites match on.
`WorkflowContract` is the promise to the workflow's author, with no model, retry
or nudge in it. `Runner` is `run` with `run_inference` and `execute_tool_batch`
inlined, because all three draw on one iteration budget. The validator, the
scorers and the tools are nondeterministic; a nudge is what it costs.

| code | actions |
|---|---|
| head of the loop, `inference.rs` 233 | `RunHead`, `AttemptLimit` |
| attempts of `run_inference` | `RequestFails`, `ResponseInvalid`, `ResponseValid`, `OutOfAttempts` |
| checks in their order: mixed batch, premature terminal, prerequisites, scorers | `NudgeMixed`, `NudgePremature`, `NudgePrerequisite`, `ScorerObjects`, `BeginBatch` |
| `execute_tool_batch` | `ToolSucceeds`, `ToolUnresolved`, `ToolFails`, `EndBatch` |

The contract is implemented with `answer <- terminal` once the run has completed.

### GuardedProxy

One variable per field of a request's future: `pc`, `form` (what it asked for),
`retries`, `premature`, and the shared `holder` and `waiters` of `request_mutex`.
`Reject` and `Receive` are the route, `Acquire` the mutex, which is fair; `Refuse`,
`Forward` and `Guard` are the handler before its loop; `UpstreamFails`, `Invalid`
and `Valid` are an attempt; `PrematureNudge`, `Objection` and `Accept` the checks;
`StreamEnds` and `Disconnect` the end. Closing a request drops its guard, and a
stream that is returned takes the guard along, as `response.rs` does.

### ServerLifecycle

`start` is a sequence of steps because the processes and the port change between
them: compare the configuration, poll the child, stop, check the port, spawn,
store, and then alternate between looking at the child and asking the port until
it answers or the deadline has passed. `Terminate` and `Forget` are the two
halves of `stop`, one for each lock; they occur in `start`, after a failed wait,
in `stop` and in `drop`. `procs` is the history of all processes, so that a
process nobody stores is still seen.

### PriorResults, ToolOutput, ProxySession

A history is the calls and results of a client, flattened; ids are numbers, and a
raw id may be missing or repeated. `PriorResults` is what the conversion makes of
it: `NameCall` and `NameResult` give ids, drawing on `counter`, and `RecordedTools`
reads the completed steps off the compressed results by the last status of the raw
id or by the prefix of the text. What a result tells is defined by the documents
(`TellsDone`); the code reads it after conversion and compression, so it may be looked up
under another id (`SpeaksForItself` says when it is not) or stand behind a reference or a
dictionary (`PrefixHidden`). `ToolOutput` is the state of compression as
records, `Deduplicated` and `Memoized` with their evictions. `ProxySession` puts
both under clients that repeat their histories: `Receive` converts a request,
`Lookup`, `Deduplicate` and `Store` are the three critical sections of
`compress_tool_output` for each result, `Forward` sends. Two requests interleave
between them; `Restart` loses ids and states, and nothing of the client.

### The components of MCComponents

These share no state with the others, so each is a module with one variable, a
record, and `MCComponents` is all of them in one specification: a behavior picks its `focus`
at the start and stays with it (`Focus`), and `state` stands for the variable of the
component in focus. `Judges` (components that decide, among them the filters and the cap that decide what of an
output is shown) and `Transports` (components that carry what was decided) are the two groups
that theorems are about: each has the constants, the assumptions, the instances and the
properties of its components, and a specification of its own (`JudgesSpec`,
`TransportsSpec`), of which `MCComponents` is the composition with the rest, on the instance
that its cfg completes. Each property below is stated in the component's module, and named again in the group or in
`MCComponents`.

| module | code | actions | property |
|---|---|---|---|
| `LzwDictionary`, `RepairDictionary` | `tool_output/lzw.rs`, `repair.rs` | `Pop` takes the best entry off the heap with its stale count; `AddRule` replaces a sequence of tokens, among them earlier rules | the dictionary reads back to the text |
| `TextFilters` | `tool_output/safety.rs`, `postcall.rs` | `Cap` by bytes on character boundaries with or without an error window, `Fold`, `Tabulate` | windows lie apart, within the limit, with the error the plain cut loses; folded lines and tables read back |
| `FamilyFilters` | `tool_output/families`, `filters` | `Filter` an output by its command, as classes of lines | an output that tells of a failure or a change still does, `Lost` apart |
| `RequestContract` | `proxy/handler/request_contract.rs`, `tool_specs.rs` | `Decide`: refuse, pass through or guard | a guarded contract can be completed with the tools on offer; the extension stays home |
| `ToolPolicy` | `tool_policy.rs` | `ObjectSearch`, `ObjectWrite`, `ObjectCommand`, `Pass`, in the order of the code | told before passed, and what was told is what is remembered |
| `SchemaMinify` | `schema_compression.rs` | `Minify` | words and code stay, and a second pass changes nothing if no fence is indented |
| `Conversation` | `core/inference.rs`, `core/runner/execution.rs`, `context/` | `Send` with its compaction, `Reject`, `Accept` | no result without its call, recent steps stay |
| `LogSinks` | `proxy/handler/*log*.rs`, `training_capture.rs` | `Look`, `Send`, `Write`, `End`, `Shutdown` | each event is written once, dropped and counted, queued or held |
| `StreamAssembly` | `clients/*/streaming.rs`, `anthropic/transport.rs` | `Text`, `Call`, `Args`, `Finish`, `Done`, `Cut`, `Fail` | a finished answer arrives with its calls, an unfinished one does not (anyllm apart) |
| `WireMessages` | `clients/openai_compat.rs`, `anthropic/convert.rs`, `llamafile/helpers.rs` | `Say`, `Send` in one of four forms | ids pair, roles alternate, and each text, call and result is sent once, two named losses apart |
| `ClientRequests` | `clients/retry.rs`, `llamafile/`, `ollama/request.rs` | `Begin`, `Answer` | no send is served twice (llamafile apart) |
| `DatasetCapture`, `DatasetReview` | `bin/forge-dataset/capture.rs`, `review.rs`, `review/` | `Turn`, `PostFails`; `Start`, `Read`, `Review`, `Write`, `Alternative`, `Crash` | ids and rows are paired; a capture is decided once over any kills and resumptions |
| `DatasetRows`, `LogDataset` | `bin/forge-dataset/assemble.rs`, `split.rs`; `notebook/generatetd/` | `Read`, `Assemble`, `Split`; `Parse`, `Read`, `Build`, `Synthesize`, `WriteSplits` | one row per model input, real before synthetic, groups on one side |
| `Scoring` | `guardrails/scoring.rs`, `onnx_scorer/` | `Begin`, `Acquire`, `LookUp`, `Lock`, `Finish`, `Report`, `Drop` | tasks within permits, one per session, the verdict of the batch |
| `Guardrails` | `guardrails/guardrails.rs` | `CheckInvalid`, `CheckPremature`, `CheckPrerequisites`, `CheckObjected`, `CheckApproved`, `Record` | refusals end by `Budget`, and until then some call moves on |
| `ProxyStartup` | `bin/forge-guardrails-proxy/`, `server/budget.rs`, `setup.rs` | `Refuse`, `Configure`, `Begin`, `Start`, `Halve`, `Resolve`, `Prepare`, `Fail`, `ServeEnds`, `Stop`, `Killed` | no backend is left; the context served is the backend's |

The places where a property says "apart" are places where the code does not keep it:
they are told under [What is left out](#what-is-left-out).

## The runs

| run | instance | distinct states | question |
|---|---|---|---|
| `slot_worker` | three tasks of priorities 2, 1, 1; one iteration | 900,199 | does it implement the priority service; is a wake-up, a task, a signal ever misplaced; does every kept receiver get a result? |
| `runner` | 5 iterations, 1 retry, 1 tool error, 3 premature, 2 violations; batches of one or two of five calls | 143,865 | contract, budget, termination |
| `proxy` | two requests of three forms, serialized, 1 retry, 3 premature | 153,090 | guard, attempts, settling |
| `server_lifecycle` | two configurations, two files, three processes | 12,112 | orphans, reuse, returning |
| `proxy_session` | two tools, two sessions, three configurations, four calls and results, two requests at a time, room for every record, five bytes kept | 1,966,312 | are histories, references and books right under concurrent requests and restarts? |
| `proxy_session_steps` | the same with one request at a time and ids that are reused, missing or generated | 1,655,997 | which tools count as completed? |
| `components` | nineteen components, each on the instance that `MCComponents` and its cfg give it | 1,327,655 | fifteen properties, one or more for each component |

The other five runs are the counterexamples of the next section.

What the bounds reach:

- *slot_worker*: three tasks are the fewest with which one is running, one waits
  and one arrives; two of equal priority show the order of arrival, and each of
  them may outrank the third just before the other takes its place. One iteration suffices, since each further one repeats the same
  look at the flag.
- *runner*: with five iterations every limit but `MaxPremature` is passed within
  a run, and that one too, since four premature batches take four iterations.
  Batches of two calls hold every pair the checks tell apart: mixed, a call with
  its own prerequisite, two terminal calls, the same tool with another argument.
- *proxy*: two requests are what the mutex is about: one holds, one waits and
  may leave. `MaxPremature` is the constant of the code.
- *server_lifecycle*: three processes let a start replace one that replaced
  another, with a failure in between.

- *proxy_session*: four items hold two calls and their results, which a duplicate and an
  eviction by bytes need; an output of five bytes passes the limit of an entry of the memo,
  two of three pass its budget. No record is evicted (`Roomy`), and the clients' ids 8 and 9
  lie beyond those the proxy generates (`OwnIds`): without the one or the other the
  properties fail, which [Known limits](#known-limits-the-properties-make-room-for) and the run
  `proxy_session_reused_id` tell. Two requests of one client, of
  the two clients of one session or of two sessions cross at each critical section.
- *proxy_session_steps*: a client uses the ids 0 and 9 and none, each as often as it likes; 0 is
  also the first that the proxy generates, so a client sends back an id that stands for
  another call. What a request counts depends on its own history and on the shared state it
  meets, and not on who else is on the way: two requests one after the other, with the records
  of the first, show a text that was shortened earlier and one that is shortened now.
- *components*: texts of eight and nine symbols let two candidates overlap and let a rule
  hold another; caps of four, five and ten bytes cut inside a character, give an empty
  window and a full one; five lines hold a fence with blanks in and after it; three turns
  and three thresholds drive a transcript through each phase of compaction; one
  place in the queue and two sinks let an emitter hold a closed one; three calls in
  pieces, cut anywhere; two starts of a review with two jobs at a time, killed anywhere;
  one permit and one session for two callers that contend for it, with a cache of two entries
  for more texts than that (several permits and sessions are left to
  `ScoringsAreBounded`); limits of 2, 1 and 2 for the facade's three
  counters; slots of 1, 2 and 4 with an odd context, so that a half is rounded.

`MaxSpawns`, `MaxItems`, `MaxRequests`, and the `Max` constants of the component
modules that name texts, lines, messages, turns, events and starts are bounds of the instance and not of the code. The histories
`Runner!requests` and `GuardedProxy!upstream` saturate one beyond the bound that
is asserted of them; `clock` is bounded by the number of tasks.

Deadlock is not reported in these runs: a worker with nothing to do, a run that
returned, requests that are closed and a manager that was dropped all stop.

### Fairness

- `SlotWorker!FairSpec`: the worker, and each `submit` that has begun, are polled.
  Nobody has to call, drop or cancel. Tools and model calls of a task end.
- `Runner!FairSpec`: the run goes on; client, scorers and tools answer. Which
  answer they give is free, so `RunEnds` holds against any model.
- `GuardedProxy!FairSpec`: weak fairness for each request's own steps, among them
  the end of its stream, so a client reads its stream or hangs up. `PatientSpec`
  adds that a batch which may be accepted again and again is accepted at some
  point (strong fairness of `Accept`): a policy or a scorer does not object for
  ever. The code bounds everything else, and the `proxy_runaway` run shows that it does not
  bound this.
- `ServerLifecycle!FairSpec`: a call goes on, and its deadline comes. Nothing is
  assumed of processes and of the port.

## Disagreements between the code and its documents

Each is a run that TLC answers with a counterexample; `PROJECT.json` quotes the
lines.

- `slot_lock_order`: `submit` takes `current_priority` and then `current_cancel`,
  `run` takes them the other way round. A submission that outranks the task the worker is
  publishing or clearing can leave both waiting for ever. This is why
  what is checked to hold
  is `ResolvesUnlessLocked`: only a submission that stays between the two locks keeps a receiver
  waiting.
- `slot_lost_cancel`: the cancel sender of a task is published before the task has
  a receiver, and a cancellation sent in between is discarded.
- `proxy_runaway`: a valid batch resets the retries to which objections are
  charged, so a batch that is objected to every time keeps the loop going; the
  user guide promises a bound on the attempts of a request.
- `proxy_session_reused_id`: a call whose id is repeated in a history is given a new id
  on every request; the de-duplication, which knows results by their id, then takes
  an earlier request's result for that of another call, and rewrites it. The
  documentation promises that a result that is sent again keeps its content.
- `compaction_unanswered`: an answer that is refused is kept with its calls and
  answered by nudges; the first phase of compaction drops the nudges and keeps the
  calls, although compacted transcripts "must stay provider-valid".

## The proofs

All theorems are about `Spec`, without fairness, for every value of the constants
that the named assumptions allow. The assumptions state types and what
constructors and command lines reject: `PriorityAssumption`,
`IterationAssumption`, `NoneAssumption`, `OperatorAssumption`,
`WorkflowAssumption` (what `Workflow::new` accepts), `RunnerAssumption`,
`ProxyAssumption`, `LifecycleAssumption`; `PriorResultsAssumption`,
`ToolOutputAssumption` and `ProxySessionAssumption` (limits are numbers, the output limit of
the memo is within its budget, a dictionary is made of a text that is not empty);
`FacadeAssumption`, `ScoringAssumption`, `ReviewAssumption`, `FilterAssumption`,
`CapAssumption` (the limits of a cap are above zero: `safety.rs` takes zero for no limit),
`StartupAssumption`, `AssemblyAssumption` and `CompactionAssumption` for the components. TLC
evaluates each of them.

**SlotWorkerProofs.** `IInv` is the conjunction of `TypeInv`; `LockInv`, that at
most one `submit` stands between the two locks and that the priority it compared
with is still published; `SlotInv`, what the two cells hold at each place of
`run`; `SignalsOutranked`; `CauseInv`, that a raised flag has a recorded signal;
`QueueOrder`, that the queue is sorted by priority and then by arrival; and
`Placement`, where a task may be. None of the checked invariants is inductive by
itself: that a signal hits the task it was meant for needs the lock, the lock
needs the cells, and the step that takes the head of the queue refines
`SlotService!Begin` only if the queue is sorted. `TypeCorrect`, `SignalsAreJustified`,
`CurrentAgrees`, `NothingLost` and `WorkerWakesUp` state the invariants;
`Refinement` states `Spec => ImplementsService`.

**RunnerProofs.** `IInv` is `TypeOK`; `VerdictInv`, that a counter is over its limit
only in a run that ended by it; `BudgetInv`, that requests are the iterations and
the attempts in progress; `BatchInv`, that the rest of a batch is still cleared; and
`TerminalInv`, what the terminal result says of the executed calls. The argument
for the contract is that prerequisites and required steps are monotone in the
executed calls, so what was true of the whole batch before its first call is true
of each call when it is made. `RequestsWithinBudget` and `Refinement` follow.

**GuardedProxyProofs.** `GuardHeld` is inductive with the types. The bound on the
attempts is not: it needs an account. `Cost` of an unscreened request is what its
premature batches have used, `MaxRetries + 1` attempts for each, and the retries of
the inference in progress; `Accounted` says that `upstream` never exceeds it, and
`InBudget` that counters stay below their limits while the request is open.

**ServerLifecycleProofs.** `IInv` is `TypeOK`, `NoOrphan` and `Progress`, which says
what each place of `start` knows: before the spawn nothing is stored and nothing
lives, during the wait the stored process is the one of the request, and a stored
configuration is that of the stored process except between the halves of `stop`.
`StartsDeliver` is an action property derived from it.

**ProxySessionProofs.** The books of the memo are inductive only with the types of all that
is entered in them, from the history to the message a request is at. `Parsed` is what a
conversion has after some items (`ConvertedIs`: the recursive function of `Converted` is defined
and keeps it, by a least counterexample, since induction theorems are out of reach);
`GeneratedIsNew` is the pigeonhole argument that an id is always left. `RequestInv` says of a
request that it is at a result, with an output that has a length once the filters gave one.
`SessionsOf` is the order of the sessions, for which `SessionKept` shows that the session in use is
never the one that goes. `Book` is the account of one session, with the running sums of
the entries in their order as witness; removal, addition and eviction each shift the sums
(`ForgottenKeeps`, `AddedKeeps`, `EvictedKeeps`). `TypesHold` and `BooksBalance` follow.

`StepsAreTold` is about every history, whatever ids it has. What pairs calls and results is their
order under one raw id, and so the conversion's queues are counted: `Balanced` says that no prefix
of a history has more results of an id than calls, `Pairs` that the results with an id so far have
taken as many calls off its queue (`CountIs` and `CountsApart` are the arithmetic of these counts),
and `Called` that what is left in the queue are the messages of the calls that wait, in their
order. `NameCallPairs` and `NameResultPairs` are the two steps of a conversion, and `ConvertedPairs`
that it gives each result the id of the call it answers, as ranks in the client's history
define it. `TellInv` carries that (`Tells`) from the history to the messages of a request at each
of its steps. A status that is found under a raw id is the result's own when the result speaks
for itself (`OwnStatusIs`); a result that has its own status, or has none and still its text, is judged as
the documents say, and what is left are the two losses that the property names.

That a history and its references stay what they were holds under two conditions, which are
hypotheses of the two theorems and not assumptions on every instance. `OwnIds`: a client uses an id
for one call, and none that the proxy generates. `Roomy`: no record of the de-duplication is
evicted.

- `PrefixIsStable` and `ReferencesAreTrue`, under both. `Made` says what becomes of a result of a
  history: the form its filters leave it in, or a reference to the first result of the same tool
  with the same text (`FirstOf`). It depends on the history up to the result and on the
  configuration, and not on the shared state. `StableInv` says that the shared state agrees:
  records differ and are of results of the history, every entry of the memo holds what is
  `Made` of its result, which is known to the records, and what a request has passed is what is
  `Made` of it and is known to the records. That no record is lost is a pigeonhole: there are at
  most three forms of each result (`RecordsFit`). What is `Made` of a result stays when the
  history goes on (`SameInLonger`). So two requests under one configuration agree on every
  common result, and a reference is to a first result, which is before it and is itself none.

**JudgesProofs**, about `JudgesSpec`.

- `RefusalsEnd`: `FacadeCounts` is an account again. `Spent` is what the counters admit of refusals
  in a row: a step that is skipped may have been preceded by every retry, which it forgives,
  so `Budget` is a product and `Covered` its arithmetic. That a run which is not over can go on
  (`SomethingIsLeft`) takes from a plan that leads to the end the first call that has not run.
- `CommandsAreTold`: what was told is what is remembered, and each objection names its own rule.
- `ContractsAreSound`: no invariant is needed beyond the outcome's form; the work is
  `AcceptedCompletes`, that validation accepts only what an order of the required steps and a
  terminal tool complete.
- `ScoringsAreBounded`: `PoolInv` ties tasks to the permits, sessions and callers they hold,
  `CacheInv` keeps the cache injective and within its capacity, `VerdictInv` says which verdicts
  a caller has heard and which of them its nudge is for.
- `ReviewsResume`: `ReviewResumes` compares the files, which is more than a step looks at: a
  process decides by its memory. `ReviewInv` therefore says that the memory is what a replay of
  the rows and rejects in their order gives (`Replay`, extended one row at a time by
  `ReplayOneMore`), that the jobs of the batch and the appends that are left fit that memory,
  that each capture below the place the process reached is decided in the files, and that the
  positives and the rows of a group are counted as the files have them. A kill loses the
  memory and the appends that are left, and a start replays the files, so that a resumed process
  stands where the invariant puts it. The replay is a fold, and is bounded by a least
  counterexample.
- `FailuresStayVisible`: a case for each command. Either a failure is among the lines that its
  filter shows, or the filter shows some of them and counts the others (`ReportTells`), or it
  shows the output as it is; what is left over is `Lost`, by name. How many are shown does not
  matter, since what is not shown is counted.
- `CapsKeep`: texts are cut by bytes and compared by characters. `Scale` gives the bytes before
  each offset; it grows with the offset by one or two, so that a stretch has the difference of
  its ends (`Sums`: the recursive functions of the folds are defined and add, by a least
  counterexample). A head ends and a tail begins where the scale says (`HeadFits`, `TailFits`), so
  that the head of a limit never meets the tail of the rest of it (`HeadBeforeTail`). `FirstCut`
  finds the first signal that neither of them keeps whole, and `WindowedKeeps` places the
  window that begins there between the head and the tail of the smaller shares.

**TransportsProofs**, about `TransportsSpec`.

- `StartupsAreSound`: `BackendInv` is what each phase knows of the backend's life, `ContextInv`
  what is asked for and found from phase to phase; a share of a context is rounded, so
  half of what the slots report is half of the whole only within a slot (`HalfOfReported`).
- `SendsAreServedOnce`: `SendRight` says in which places a send may have been served.
- `EventsAreAccounted`: `OnceInv`, that an event is in one place, `EmittedInv`, that those
  places hold all that was emitted, and `EndedInv`, that nothing is left with a writer
  that ended.
- `StreamsDeliver`: `AssemblyInv`, that the accumulators hold the calls the server made with
  as much of their arguments as it sent.
- `ConversationsKeep`: that a result is sent with its call is not kept by dropping kinds of
  messages alone, since the window may begin between the two. `Answered` therefore says of a
  transcript that everything from a call to its answer is of one step, and `CutCompacts` that a
  window, which begins with a recent step, then has both or neither. `Compacts` is what a phase may
  do (a shorter transcript with the same header, steps and ids, the window unchanged at its
  end, `Answered` kept); it holds of shortening, of each dropping phase and of the sliding
  window (`ThinTail` puts the window at the end by a least counterexample), and of one phase
  after another (`CompactsTwice`, for which the recent steps must stay recent in what the first
  phase left: `WindowStays`). `TalkInv` adds that ids stay within the counter, so that the
  fresh ids of a rejected answer exist (`FreshIdsAre`).

**ComponentsProofs.** `JudgesHold` and `TransportsHold`: the twelve properties are invariants of
`MCComponents`, since a behavior keeps its focus and is one of its group, or satisfies
them vacuously.

Only model-checked:

- the liveness properties `ResolvesUnlessLocked`, `RunEnds`, `RequestSettles` and `CallsReturn`,
  which need fairness and `ENABLED` and are out of the prover's reach, and the violations;
- `TransformsReadBack`, which says of each transform of a text that it can be undone or
  repeated, by induction over the text: least counterexamples over places, which give the sums
  of `CapsKeep` and the replay of `ReviewsResume`, would be needed for every fold in them, and were
  not found;
- `WirePairs` and `DatasetsSound`, whose ids and keys are made with `ToString` and selected with
  `SelectSeq`, of which the provers know nothing.

No module declares a recursive operator.

## What is left out

### Abstracted

- *Slot worker*: panics of a tool, which unwind `run`, and a second `run` on one
  worker, which no caller of the repository starts.
- *Runner*: streaming chunks and events to observers. A tool's error is hard or a
  resolution error; its text is not modelled. Its messages are in `Conversation`, which
  in turn leaves the counters to `Runner`.
- *Workflow*: what `Workflow::new` rejects is assumed away; arguments other than
  the one prerequisites match on.
- *Proxy*: headers, shapes of responses, telemetry. Whether a request has
  pending required steps is part of its form in `GuardedProxy` and computed from its
  history in `ProxySession`; the two are not composed.
  The library server (`proxy/server.rs`) has the same handlers behind another
  listener and is not an instance of its own. `Disconnect` closes a request at once, as
  a server does that drops the handler's future (no handler is spawned on its own);
  `docs/USER_GUIDE.md`:131 says that inference in flight goes on. That would be the same request
  open for longer, which changes none of the properties.
- *Lifecycle*: the ollama branch, which has no process; `last_context`; errors of
  the operating system while polling; poisoned locks; process ids and their reuse;
  two starts at a time, since the repository uses a manager from one thread.
  `ProxyStartup` takes a start as one step.
- *Tool output*: a text is a length, a class of lines or a few symbols, and never
  characters; the filters for `glob`, `read` and for git beyond `status` are left out.
- *Clients*: the bytes of events and the buffering of lines, waiting between attempts, the
  embedded runtime, the cells of reported usage.
- *Scorers*: the score; it is fixed for each text and otherwise any score.
- *Dataset tools*: prompts, quality checks, schemas, HTTP. A line is appended whole or
  not at all.

### Known limits the properties make room for

Each is behaviour of the code that a property excludes by name, or that lies just outside it.

- `FamilyFilters!Lost`: a cargo build whose only errors have no code is summed up by its
  warnings; a JSON build message hides plain errors; a `FAIL` of `go test` behind a tab is
  not seen beside a package that is `ok`; an npm installation whose errors are half of its
  output keeps its summary only; new files of `git status` in long form are not counted.
- `ClientRequests`: llamafile sends again after any error of a request, so that one
  send may be served twice; in automatic mode two senders may each probe. `ServedOnce` takes a
  status that is retried (408, 429, 5xx) for one that was not served, which no client can know of
  a 408 or a 504.
- `StreamAssembly`: a stream of anyllm that ends without its end marker is still
  an answer; ollama keeps the last list of calls it is sent and not those before it; a call whose
  arguments are cut has no arguments.
- `SchemaMinify`: minifying is not idempotent when a fence is indented
  (`docs/COMPRESSION.md`:368 says it is).
- `TextFilters`: a table shows a missing field and a null alike (`docs/COMPRESSION.md`:227
  calls it lossless).
- `PriorResults`: a result that told of a failure by its prefix counts as done once its text
  stands behind a reference or a dictionary (`PrefixHidden` in `StepsTold`): two calls of a
  tool that fail with the same text are enough, since the second result becomes a reference. The
  user guide (`docs/USER_GUIDE.md`:121) and the schema (`docs/SCHEMA.md`:245) judge a result by the
  content the client sends. A call that is renamed (its id is missing, repeated, or one the conversion
  generated) loses the explicit status of its result, since the status is kept under the raw id and
  looked up under the new one; and of two results of one raw id the last one's status is read
  for both (`SpeaksForItself`).
- `WireMessages!Lost`: in prompt mode llamafile is sent an assistant's calls without the text
  beside them, among it the reasoning that `fold_and_serialize` put there (`helpers.rs` 158-180);
  of several system messages Anthropic is sent the last (`convert.rs` 38-40).
- `ToolOutput`: with more results in a session than it has room for records (128 by default), the
  record of a first result goes. If the memo does not hold that result either (it is longer than
  16 KiB, or the 512 KiB of the session went to others), then it is compared anew when it is sent
  again, and becomes a reference to a later call that had the same output, although
  "A tool result re-sent in a later request under the same tool call id keeps its content"
  (`docs/COMPRESSION.md`:139). TLC finds this with room for one record, six items and two requests.
- `Guardrails`: `record` takes names without arguments, so that a prerequisite that
  matches an argument is never met through the facade; with a scorer that objects
  each time and retries above zero, no refusal is ever fatal.
- `ProxyStartup!Killed`: a signal before the server listens leaves the backend
  running, in a process group of its own.
- `SlotWorker`: a submission that compares priorities after the worker took a task and
  before it published it signals nobody and waits behind it (`docs/USER_GUIDE.md`:768
  promises preemption); `SlotService` allows it.
- `ServerLifecycle`: the model file is not part of the configuration that decides on
  reuse. `setup_backend` passes the path as the label as well, so its callers are not
  affected.
- `DatasetReview`: a torn last line makes `--resume` refuse the file; a kill between a capture's own row
  and its corrected positive loses the latter, since the capture counts as decided; alternatives that were rejected
  are reviewed again.

`PROJECT.json` lists the hazards of the code one by one with the properties that
cover them, and a note for each that no property covers.

## Plan

Built first: the slot worker and its service; workflow, contract and
runner; the proxy; the lifecycle; the proxy's session; the judges and the transports;
each with its proofs. Built besides: what makes prompts smaller and what makes data, in
`MCComponents`. What would follow:

1. Proofs of `WirePairs` and `DatasetsSound`, with ids and keys as pairs instead of strings,
   and of `TransformsReadBack`, one fold after another.
2. What remains of `PrefixStable` and `ReferencesResolve` when records are evicted.
3. `ProxyStartup` over `ServerLifecycle` in full, instead of a start in one step.
4. The context manager with two users, as the library server shares it.
5. `GuardedProxy` with the histories of `ProxySession`, so that pending steps are computed.
