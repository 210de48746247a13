# tool-call-compiler: a TLA+ model

tool-call-compiler takes a plan of tool calls (a graph of nodes with inputs,
references and declared effects), optimizes it, and executes it concurrently:
calls whose effects allow it overlap, the others are serialized. The claim the
whole program rests on is stated in `crates/tool-compiler-runtime/src/scheduler.rs`:
a node is dispatched as soon as its dependencies are done and everything that is
running is compatible with its effects. This directory follows a plan on its whole
way: from the intent or recipe it is written as, through the optimizer and the
layers of the graph, to the engine that runs it, the tasks that make its calls, the
cache they share, and the MCP servers they talk to. TLC checks the model on small
instances. TLAPS proves, for every plan, who may run beside whom, that the engine
loses nothing and exceeds no limit, that it implements its abstract specification
and reports the truth about a run, that the compiled plan means what was submitted
and has the order that was asked for, and what layers, cache, single flight, retries
and the MCP session guarantee.

Paths below are relative to the repository root. `runtime/` stands for
`crates/tool-compiler-runtime/src/`, `graph/` for `crates/tool-compiler-graph/src/`,
`optimizer/` for `crates/tool-compiler-optimizer/src/`, `planner/` for
`crates/tool-compiler-planner/src/`, `mcp/` for `crates/tool-compiler-adapter-mcp/src/`,
`cli/` for `crates/tool-compiler-cli/src/`.

## 1. Inventory

| component | state it keeps | operations | what makes it correct |
|---|---|---|---|
| effects and effect rules (`crates/tool-compiler-ir/src/effects.rs`, `graph/lib.rs`) | none | resolve a declaration and its templates, `can_run_with` | one pairwise rule everything else must agree with |
| planner (`planner/lib.rs`, `recipes.rs`) | none | lower an intent or a recipe, fill in parameters | the plan runs the steps in the order they ask for |
| registry, run entry points (`runtime/registry.rs`, `lib.rs`) | adapters, capabilities | register, hydrate a plan, run, explain | a plan's own metadata wins; what cannot run is refused |
| optimizer (`optimizer/lib.rs`, `cost.rs`, `explain.rs`) | the plan, alias map | deduplicate, drop dead nodes, group batches, estimate, explain | the compiled plan means what the submitted one does; the report is true |
| graph and layers (`graph/lib.rs`, `layers.rs`) | dependency graph, layer summary | validate, `safe_layers`, retain | layers respect dependencies and the pairwise rule |
| lock table (`runtime/locks.rs`) | per-resource counters, number of holders, exclusive flag | `try_acquire`, `release`, `merge` | counters agree with the holders; the verdict is the pairwise rule |
| scheduler and engine (`runtime/scheduler.rs`, `engine.rs`, `finish.rs`) | ready heap, refused units, tasks in flight, open dependencies, permits, verdicts, stop reason | `schedule`, `prepare_members`, `try_admit`, join, `absorb`, `settle_unit`, `unblock`, `requeue`, `finish` | every node gets one verdict, nothing incompatible overlaps, limits hold, every run ends |
| unit dispatch and fan-out (`runtime/dispatch.rs`, `fanout.rs`) | per task: entries looked up, called, stored | single call, batch call, `for_each`, panic outcome | one result per node; a value is the answer to that very call |
| call policy and single flight (`runtime/policy.rs`) | attempts; per-key slot and waiter count | retry with backoff and timeout; acquire/release a key | bounded effects; one call per key at a time |
| tool cache (`runtime/cache.rs`) | entries, index by resource, LRU order | get, insert, evict, expire, `invalidate_reads` | the three indexes agree; capacity; no read older than the last write |
| results and traces (`runtime/result.rs`) | node counters, events, status | record, shape | one terminal event per node, true reasons and status |
| MCP client (`mcp/stdio.rs`) | session, child process, pending requests by id, reader task | (re)spawn, request, route a line, time out, shut down | a caller gets its own answer; one live session; every call returns |
| MCP server (`cli/serve.rs`) | a task per line, response channel | read, handle, write, end | every request is answered once, also at end of input |
| fs, shell, http adapters, built-in tools, command line, node SDK, xtask | none across calls | I/O, parsing, reports | not control logic |

How they interact. An intent or a recipe is lowered into a plan. `Runtime::prepare`
hydrates the plan from the registry and optimizes it; validation builds the graph
and its layers. `Engine::new` makes every node, or every batch group of nodes, a
*unit* with one lock request. `Engine::run` is a single future that owns the queues,
the lock table and all verdicts. It pops ready units, prepares them (condition,
references, schema), asks `try_admit` (ceiling of the run, limit of the tool,
locks) and spawns a task per admitted unit. Tasks share nothing with the loop:
they look their calls up in the cache, take turns on equal keys, call adapters under
the tool's policy, store what succeeds and hand back an outcome. The MCP adapter is
one such adapter; the server at the other end may be this program again. The loop
waits for a task or for the cancellation token, releases the unit's locks and
permits, records the verdicts, invalidates cached reads of what was written,
counts down the dependents and puts the refused units back.

What is hard here:

* any number of tasks end in any order, fail, partly fail, time out or panic
  while the token fires and an error stops the engine;
* a unit passes between several places (ready, refused, leftover, running) and is
  counted down from four program points;
* locks are counters that do not remember their holders;
* a refused unit is tried again only when somebody ends, so a forgotten release
  or requeue is a hang;
* a batch group is prepared again after every refusal, with members that have a
  verdict already;
* an effect may happen although its call fails, and the retry repeats it;
* runs share a cache but not a lock table;
* a layer is decided by a summary of its members, and the graph is built again
  after nodes were merged and dropped;
* what a call touches is known when it is made, but locks, cache entries and
  invalidation go by what was resolved when the plan was validated;
* responses of a server race timeouts, its exit, lines that cannot be read, and a
  caller that is dropped in the middle of a line.

`PROJECT.json` lists the hazards line by line with the properties that cover them.

## 2. Modules

| module | models | builds on |
|---|---|---|
| `EffectRules` | `Effects`, `ResolvedEffects::for_node`, `can_run_with` | |
| `Layers` | `safe_layers` and `LayerState` (`graph/layers.rs`) | `EffectRules` |
| `Compile` | registry hydration, `validate`, the optimizer, `explain`, the units of `Engine::new` | `Layers` |
| `Planner` | intents and recipes, lowered and compiled | `Compile` |
| `LockTable` | `locks.rs` and the lock requests of `Engine::new` | `EffectRules` |
| `PlanRun` | abstract specification: the life of every node of a run | `EffectRules` |
| `Scheduler` | `Engine::run` with `engine.rs` and `finish.rs`, driving the lock table | `LockTable`, instantiates `PlanRun` |
| `SingleFlight` | `SingleFlight` of `runtime/policy.rs` | |
| `Dispatch` | the tasks: `dispatch.rs`, `fanout.rs`, `CallPolicy` | `SingleFlight` |
| `MemoryCache` | the in-memory cache of `runtime/cache.rs` | |
| `SharedCache` | how the nodes of one or several runs use cache and single flight, over the guarantees of the parts | `EffectRules` |
| `McpServer` | `serve_lines` and its tasks (`cli/serve.rs`), and servers that misbehave | |
| `McpClient` | the stdio client and its reader (`mcp/stdio.rs`), talking to `McpServer` | `McpServer` |
| `CompileProofs` (with `Layers` and `Planner`), `LockTableProofs`, `SchedulerProofs`, `PlanRunProofs`, `DispatchProofs` (with `SingleFlight`), `MemoryCacheProofs`, `SharedCacheProofs`, `McpClientProofs` | theorems (section 6) | |
| `MCCompile`, `MCLockTable`, `MCScheduler`, `MCDispatch`, `MCMemoryCache`, `MCSharedCache`, `MCMcpClient` | instances for TLC | |

### EffectRules

A declaration is a record of `pure`, `reads`, `writes`, `commutative`. The other
fields of `Effects` (idempotence, caching, retry) do not take part in
`can_run_with`; `Compile` and `Dispatch` have the ones they look at.

### Layers

One call of `safe_layers` at a time. `pending`, `ready`, `layer` and `state` are its
locals; `todo` is what the pass over the ready nodes has not looked at. `Scan` is one
candidate, `CloseLayer` the end of a pass with the children counted down, `EndLayers`
the end of the loop and the verdict. `Admits` and `Absorb` are the two methods of
`LayerState`. Node names are naturals, so that the order of a `BTreeSet` is `<=`. The
module has its own specification (any finite graph, any effects that are not
contradictory), which the proofs are about; `Compile` takes its steps, and is proved
to take no others.

### Compile and Planner

The state is the plan on its way, `phase` says where it is:

| action | code |
|---|---|
| `Lower` (`Planner`) | `compile_intent`, `compile_recipe_with_params`, with their errors |
| `Hydrate` | `ToolRegistry::apply_capabilities`; `explain` skips it |
| `DedupNode`, `Rewrite` | `deduplicate_nodes`, one node at a time, and its alias rewriting |
| `Validate` | the checks of `validate` in their order, and the graph |
| `Build`, `LayersBuilt` | `safe_layers`, for the graph and again after `retain` |
| `EliminateDeadNodes` | `eliminate_dead_nodes`, `ExecutionGraph::retain` |
| `Summarize` | `find_batch_groups` and `summarize` with the cost estimates |
| `MakeUnits` | `Engine::new`: units, unknown adapters, invalid schemas |
| `Explain` | `explain_parallel_boundaries` |

A plan enters as `optimized` (`run`, and the command line), `validated`
(`run_unoptimized`, `run_serial`) or `explained`. An input is a scalar (the field a
template's placeholder names) or references in its place; a resource is a name and
what its placeholder became. Equality of inputs stands for equality of canonical
JSON. `deduplicate_nodes` runs before names are checked. With two nodes of one name
the alias map can point a name to itself, and `canonical_node` then never returns:
phase `spinning`. Where nothing mentions that name, the second node is dropped
silently. Token counts, blocked tools and the wording of reports are left out. The
names a recipe generates are numbers without their prefix.

### LockTable

`resources` maps a resource to its `LockState`; the missing entry of the Rust map
is `Free`. `running` and `exclusive` are the fields of the struct. `held` is a
history of who acquired and did not release: in the engine these are the units in
`in_flight`, which `LimitsRespected` checks. `TryAcquire` is the granting path,
`Panics` the condition under which one of the `unreachable!` arms is met, and a
refusal changes nothing and therefore is no action. A resource that one request
both reads and writes passes `is_compatible`, is entered as read and meets the
`unreachable!` of the write loop: `AcquirePanics`, after which nothing happens any
more because the panic unwinds the future that owns the table.

`BatchRequest` is the closed form of the merge loop over a batch group. `Merge` is
translated as well and the assumption `BatchRequestIsTheLoop` of `MCLockTable`
compares the two for every group out of seven nodes.

### Scheduler

Each variable has the name of the field or local it models. `pc` says where
`Engine::run` is: in the first `schedule()` of an iteration, in the second one
(`retry`), settling the leftovers, waiting, finishing, or ended. The loop has no
other await points that matter, so:

| action | code |
|---|---|
| `PopStopped`, `PopNoSurvivor`, `PopRefused`, `PopSpawned`, `PopUnwinds` | one iteration of the loop in `schedule()`, by how it ends |
| `EndSchedule`, `EndRetry` | what `run` does after each `schedule()` |
| `SettleLeftover`, `EndLeftovers` | the branch that settles what the retry could not start |
| `JoinOutcome`, `JoinPanicked` | a task ends: release, absorb, unblock, requeue |
| `SeeCancel` | the other branch of the `select!` |
| `Finish` | `finish()` |
| `Cancel` | the owner of the token (external) |

Abstractions:

* Values are gone. Whether a node's `when` is false, or a reference, its
  `for_each` or the schema fails, depends on outputs that no longer change once
  the node's unit is ready. The verdict is chosen in `Init` (`preparation`). A
  node that references a dead node never gets that far, as in the code.
* The outcome of a task is any split of the dispatched members into successes
  and failures: `dispatch.rs` reports per member, which `OneResultEach` checks of
  `Dispatch`. A panic fails all members.
* Members of a unit are a set. Their order matters only through one member
  making another's dependency dead, and members of a batch group are independent.
* `finish()` resolves a declared output when the node it refers to has an
  output, when the path into it exists (free choice), and drops it silently when
  the node is dead.
* The cache is reduced to the set of resources passed to `invalidate_reads`.
* A panic in `try_acquire` drops the engine: `pc` becomes `unwound`.

### PlanRun

One variable: per node `pending`, `active`, `ok`, `failed` or `skipped`. A node is
started at most once, only when all dependencies have a verdict, the ones it
references have an output, and every active node may run with it; a verdict never
changes. `Scheduler` maps to it with `Life`.

### SingleFlight and Dispatch

`inflight` is the table of slots. A caller goes from idle to waiting (registered,
at the `await` of `acquire`), executing (it has the guard), dropping (the guard's
`drop` has updated the table, the lock itself is released afterwards, with the
last field) and back. `AcquireDropped` is the future of `acquire` being dropped at
its `await`, where no guard exists. Locks have identities: a slot made after the
old one was removed has a new lock, possibly while the old one is still held.

`Dispatch` is the tasks of a run over one cache and that table. An *entry* is one
call: the node of a single unit, a member of a batch group, an item of a `for_each`
node. `Begin` is `dispatch_unit`; `Acquire` and `Locks` the turn of a single call
that has a key (batch groups and fan-outs take none); `LookUp` one `cache.get`;
`NextCall` cuts the misses into the next call (`call`, or a `call_batch` of a whole
group or of the tool's batch size); `Act` the tool taking effect for an entry
(external), at any time during an attempt; `Answer`, `Fail` and `TryAgain` the loops
of `call_with_policy` and `call_batch_with_policy`; `Store` one output stored and
reported, or found missing; `Leave` and `Release` the guard; `Panic` the panicking
tool, `Abort` the dropped run. A value is named by the entry it answers, so that the
answer of a batch call can arrive in any order and incomplete, and be mixed up.

### MemoryCache

`entries`, `by_resource`, `lru` and `clock` are the fields of `Inner`; a missing
entry is `NoEntry`, a missing tick `NoKey`, a resource without readers maps to
`{}`. Every method holds the mutex from its first line to its last, so each is one
step, except `insert`: its eviction loop is a real loop (`InsertBegin`, `Evict`,
`InsertEnd`), during which `inserting` keeps every other method out. `Evict` does
nothing when the eviction index is empty, as in the code; only the clamp of
`with_limits` keeps the loop from spinning there. Outputs are left out. The
time-to-live is a horizon on insertion ticks that moves forward freely; it stays
put in behaviours without a time-to-live. `outdated` is a history: the keys whose
last stored value was read before a write to what it read.

### SharedCache

A version number per resource stands for what tools read and write, and an output
is the versions its call has seen. A node is started when the rule of its run's
lock table allows it, looks up, calls, takes effect at any time during the call,
returns and stores, and is joined, which invalidates what it wrote. The parts
appear by what was shown of them: `MayOverlap` for `LockTable` (`EffectExclusion`),
`MayLookUp` for `SingleFlight` (`OneExecution`; members of batch groups and
fan-outs look up without it), invalidation and `Lose` for `MemoryCache`
(`NoStaleEntry`). `RunOf` says which run a node belongs to; there is no lock
between runs. `LateFailures` allows a call to fail after it took effect, as one
that times out can.

What a call touches (`Touched`) and what the plan knows of it (`Declared`) are two
things. Effects are resolved when the plan is validated, from inputs whose references
and items are not filled in yet; a template that needs one of them stays a resource of
its own (`graph/lib.rs:98-118`). Locks, the `reads` of a cache entry
(`scheduler.rs:293-301`) and invalidation go by these effects, whereas the cache key
holds the input of the call itself (`dispatch.rs:40-47`, `fanout.rs:48`). So calls of
one key touch the same resources, but may have been resolved to different ones. A
resource is `Accounted` for when every node whose call touches it has it in its
resolved effects. `Coherent` and `FreshReads` speak of these resources;
`NeverPreWrite`, of everything a node is known to read, is what the comment in `absorb`
promises and what the code does not keep (section 3).

### McpServer and McpClient

`stdin` and `stdout` are pipes of `Capacity` lines between session `s` and process
`s`. The server reads a line (`ReadLine`), handles it in a task (`Handle`; a task is named
by the place of its line in `taken`, so two equal lines are two tasks), and a writer
empties the channel into stdout (`WriteLine`); `ServeEnds` is the return of `serve`.
Everything with an id is answered, and so is a line that is not JSON. A line that is not
UTF-8 (`not_text`) is different: `next_line` returns `Err`, `while let Ok(Some(line))`
is over as it is at the end of the input, and what follows is never read (`InputFailed`,
`InputOver`). Other servers do what this one does not: `Misbehave` repeats an answer,
answers with an error or without a result, sends noise, a line that is not UTF-8, a
request of its own or a version that is none, `Dies` exits, `HandlerPanics` leaves a
request unanswered. A
server may also be fed from a file (the `script` of a workload) with something reading
its output (`OutputRead`), which is where input ends while tasks are at work.

A caller makes one call, several pipelined (`call_tools`) or one after the other
(`list_tools`). `Reuse`, `Spawn` and `SpawnFails` are `session` and `start_session`
under the session mutex; `Register`, `LockStdin`, `Written`, `WriteFails`,
`Answered` and `TimedOut` are `register`, `write` and `await_response`; `Dropped` is
the caller's future being dropped, with its line perhaps cut off: the next line then
continues it (`torn`) and reaches the server as neither of the two, garbled or, when the
cut is within a character, not UTF-8. `RouteLine`, `ReaderLocks`, `ReaderAnswers`,
`ReaderEnds` and `Drain` are the reader task, which also ends at a line that is not
UTF-8, with the child still running (`OutputOver`), `Shutdown` and
`GraceEnds` `shutdown`, `SessionDropped` the last reference to a session. Lines are
records of kind, id and the call they are about; the code that builds and parses
them is left out. Two leaks of the code are in the model: a handshake that fails
leaves its child to a reader that still holds the session, and `call_tools` that
returns early, or is dropped, leaves slots in `pending`.

## 3. Properties and runs

Passing runs:

| run | instance | what it shows |
|---|---|---|
| `lock_table` | 17 units: reads, pure calls, writes, commutative writes of two tools, a unit without declared effects, one that reads and writes the same resource, two batch groups; three resources | the counters agree with the holders through every order (`TableMatchesHolders`); only compatible nodes hold locks together (`EffectExclusion`); on single nodes the verdict is exactly `can_run_with` against every holder (`MirrorsEffectRules`) |
| `scheduler_single` | five nodes: two reads of one tool whose limit is 1, a write that uses the first and conflicts with the second, a pure use of both results, undeclared effects ordered after the first read; ceilings none, 1, 2; both error modes; with and without token; calls fail or panic; also as a serial run | permits and locks agree with the tasks (`LimitsRespected`); nothing that could start is left waiting (`NoMissedWakeup`); events and counters are exact (`OneTerminalEvent`); skip reasons and status are true (`SkipReasonsTrue`, `SuccessMeansComplete`); refinement (`ImplementsPlanRun`) |
| `scheduler_batch` | eight nodes in seven units: two writes in one batch group whose members use different nodes, a reader of what one of them writes, a user of the other; a tool with limit 0, and behind it a node whose lock request panics; ceilings none, 2 and 0 | the safety net of `finish` is idle and nothing is locked at the end (`SafetyNetIdle`); units are never lost or queued twice (`NoUnitLostOrDoubled`); reads are invalidated before any dependent is queued (`WritesInvalidated`); the engine drives the table as `LockTable` allows (`ImplementsLockTable`); every run ends (`Termination`) |
| `memory_cache` | three keys, two resources, limits 0 and 2 | the three indexes agree (`IndexesAgree`); no entry outlives a write to what it reads (`NoStaleEntry`); eviction takes the entry used longest ago (`EvictsOldest`); the eviction loop ends, also for a limit of 0 (`InsertEnds`) |
| `shared_cache_one_run` | two equal reads of one file; two equal calls that read a second file and one named by a template, which is unresolved for one of them, a batch member; two writers | for resources that are accounted for, cached reads are coherent with joined writes (`Coherent`), and no node reads what was overwritten before it started (`FreshReads`) |
| `compile` | every plan of three nodes, each with a tool out of six and hanging on another by dependency, reference, `for_each` or `when`, with and without outputs; wide plans; malformed plans; intents of three steps; recipes of every kind with up to three items or steps | the layer summary decides as the pairwise rule does (`AdmitsIsPairwise`); layers are sound (`LayersSound`) and cycles real (`VerdictRight`); the compiled plan makes the calls the submitted one asks for (`SameMeaning`); what is kept depends on nothing that was removed (`KeptIsClosed`); the units are disjoint, within their batch size, compatible and do not wait for each other in a circle (`UnitsSchedulable`, what `Scheduler` assumes); the report is true (`ReportHonest`); lowered steps keep their order (`LoweredOrder`) |
| `dispatch` | three tasks: single calls of one key, a batch group beside a single call and a fan-out on the same key, fan-outs in batches and one by one, one with an item that cannot be filled in; tools that are pure, idempotent, cacheable or none of them; calls that fail, time out, panic, answer in part; aborted tasks | one execution per key (`OneExecution`); effects within the attempts (`EffectsBounded`); values and cache entries answer their own call (`AnswersMatch`); one result per node (`OneResultEach`); the tasks take steps of `SingleFlight` (`ImplementsSingleFlight`); every task ends (`TasksEnd`) |
| `mcp_client` | two callers, single, pipelined and paged calls, a shutdown, two processes, one fault; a server fed from a file, also with answers and lines that are not UTF-8 in it | a caller's answer is the answer to its call (`OwnAnswers`); no call before the handshake (`HandshakeFirst`); one live session (`OneLiveSession`); a session dies with its server, at a shutdown or at a line that is not UTF-8, never of a timeout (`SlowIsNotDead`); a server that returns has answered everything it read once (`AllAnswered`); every call returns (`CallsEnd`) |

Runs that TLC refutes, each on a statement of the repository (quoted under
`findings` in `PROJECT.json`):

| run | what happens |
|---|---|
| `lock_table_read_write` | one node that declares the same resource in `reads` and `writes`, as the example of `docs/effects.md` does, meets `unreachable!` in `try_acquire` |
| `shared_cache_two_runs` | a read of one run is stored after a write of another run was joined: the cache keeps the old value |
| `compile_order` | merging two pure nodes drops the later one's `depends_on`, and with it the order of two effectful nodes that went through it |
| `mcp_shutdown` | `shutdown` means to close stdin and wait; the reader task still holds the session that owns stdin, so the child is killed without having seen end of input |

Smaller disagreements with the comments have a configuration of their own, which
is not among the runs of `PROJECT.json`; TLC refutes each of them as well (with
`-continue` where one configuration has several properties):

| configuration (module) | property | statement | what happens |
|---|---|---|---|
| `LockTable_commutative_batch.cfg` (`MCLockTable`) | `BatchesMirrorEffectRules` | `locks.rs:62`, `docs/effects.md:34` | a batch group is merged into the default request, so it never keeps its commutative tool and excludes calls it may overlap with |
| `Scheduler_batch_events.cfg` (`MCScheduler`) | `OneTerminalEvent` | `docs/result-format.md:62-63` | a refused batch group settles its skipped members again on every attempt: second event, second count |
| `Scheduler_batch_panic.cfg` | `OneVerdict` | `result.rs:31` | a panic of a batch group's task puts members into `errors` that were skipped |
| `Scheduler_batch_failfast.cfg` | `FailFastStartsNothing` | `lib.rs:58` | a member failing its preparation under fail-fast does not keep the other members from starting |
| `Scheduler_late_cancel.cfg` | `CancelledMeansIncomplete` | `result.rs:50` | a run all of whose nodes finish reports `cancelled` when the token fires during the last call |
| `Scheduler_starved_success.cfg` | `SuccessMeansComplete` | `result.rs:46 and 64` | a limit of 0 leaves nodes out as `not_run`, without an error, and the run reports success |
| `SingleFlight_leak.cfg` (`SingleFlight`) | `OnlyKeysInFlight` | `policy.rs:183-185` | a caller dropped while it waits leaves its count behind; the key stays in the table for good |
| `SharedCache_late_failure.cfg` (`MCSharedCache`) | `FreshReads` | `scheduler.rs:377-379` | a write that fails after taking effect invalidates nothing; later nodes of the same run read the old value from the cache |
| `SharedCache_templates.cfg` | `NeverPreWrite` | `scheduler.rs:377-379` | a read whose path is a reference is cached under its filled-in input, but with its template as what it reads; a joined write of that file does not drop it, and a later call with the same input, in the same run, gets the old value |
| `Dispatch_backoff.cfg` (`MCDispatch`) | `BackoffCapped` | `effects.rs:107-108` | the jitter is added after the cap: a backoff can be a quarter longer than five seconds |
| `Compile_valid.cfg` (`MCCompile`) | `ValidPlansCompile` | `optimizer/lib.rs:1` | a pure node that depends on its own copy is merged into it, and the valid plan is refused as depending on itself |
| `Compile_templates.cfg` | `UnresolvedSerializes` | `effects.rs:119-121` | a node whose template is unresolved shares a layer with a node of the same tool whose template is resolved, perhaps to the same file |
| `Compile_recipes.cfg` | `PipelineSequential` | `recipes.rs:63 and 139` | a pipeline step without `$prev` runs beside the one before it |
| `Compile_recipes.cfg` | `LoweredIsValid` | `planner/lib.rs:3` | a fan-out over `items_ref` lowers to a plan whose `for_each` names no node of it |
| `Compile_recipes.cfg` | `NoParamLeft` | `planner/lib.rs:159` | a recipe that declares no parameters keeps its `$param` placeholders as data |
| `McpClient_late_register.cfg` (`MCMcpClient`) | `DeadFailsPending` | `stdio.rs:6-8` | a slot registered after the reader has failed the pending ones waits for its timeout, or for good when its call is dropped |
| `McpClient_not_text.cfg` | `NoiseSkipped` | `stdio.rs:346` | one line on stdout that is not UTF-8 is not skipped: it ends the reader, the session counts as dead and every pending call fails while the server runs on |
| `McpClient_not_text.cfg` | `MalformedSurvived` | `serve.rs:9-10` | an input line that is not UTF-8 gets no `-32700`: it ends `serve_lines`, and the server leaves without reading what follows |
| `McpClient_pipes.cfg` | `CallsEnd` | (none; the write of `stdio.rs:145` has no timeout) | with a server that does not read while it writes, and both pipes full, the writer holds stdin and nobody moves |

`OneTerminalEvent` and `OneVerdict` thus hold on plans of single nodes and fail
with batch groups in exactly these situations; `scheduler_batch` leaves panics out
for that reason, and `scheduler_single` has no groups.

`Scheduler_more.cfg` checks the remaining properties of `Scheduler` (`TypeOK`,
`OneVerdict`, `SerialOrder`, `StopIsFinal`) on the plan of `scheduler_single`, and
`SingleFlight.cfg` the table on its own, with callers that come back and two keys
(`SlotsMatchCallers`, `EveryCallerServed`); both pass.

Every property has a mutant in `PROJECT.json`: a plausible slip in one mapped
definition (a limit compared with `<=`, a list not drained, a dependent not told,
an answer matched by its place) that makes TLC refute the property. The mutated
forms stand directly before the definitions they replace.

## 4. Bounds

* The engine's plans are fixed, with five to eight nodes. They are chosen so that
  each has two units that conflict, an ordering-only and a referencing dependency, a
  node behind two dependencies, and a unit that must run alone or a group.
  Everything the engine does to a unit depends on its lock demand, its tool's
  permits, its position in the queue and its dependencies' verdicts; each
  combination of two occurs. 46 444 states for `scheduler_single`, 100 972 for
  `scheduler_batch`.
* `MaxOdd` bounds how many nodes have a preparation that ends other than by
  dispatching: at most two at once, at every choice of nodes. In `scheduler_batch`
  it is one node or the whole group, and the last node.
* Ceilings: none, 1 and 2, and 0; no plan can have more than four units ready at
  once.
* The scheduler has no other bound: its counters are limited by the plan.
* `compile`: three nodes are the least on which deduplication, an order through a
  third node and a cycle interact; five for batch sizes and the choice between
  dependencies. Two files, one counter, a field that is `x`, `y` or unresolved.
  About 494 000 states, in a minute.
* `dispatch`: three tasks, four calls on two keys, at most two attempts (255 in the
  type of the policy), one dropped acquire per key (`MaxLost`). 186 047 states.
* `mcp_client`: pipes of one line (`Capacity`), so that every full and empty pipe
  occurs; two processes (`Proc`), so one respawn; five ids (`MaxId`), what the jobs
  and two handshakes can use; one fault (`MaxFaults`): exit, repeated answer, error,
  noise, a line that is not UTF-8, panic, failed spawn or dropped call. 707 175 states.
* `MaxClock` bounds the ticks of the cache at five: enough to fill it, use an
  entry, evict and insert again, with invalidations and expiries anywhere between.
* `SingleFlight.cfg` has five locks for at most two slots and three callers, so a
  fresh one always exists; three are enough for the one key in flight per task of
  `dispatch`.
* `SharedCache` starts each node once, six nodes in one run or four in two. In one run
  there are two pairs of equal calls; one of a pair looks up without single flight and
  has other resolved reads than the call it shares its key with. 593 928 states.
* No symmetry is used: units and nodes are ordered by their index.

## 5. Fairness

`Scheduler`: weak fairness of `EngineStep`, the steps of the loop. The loop's future
is polled to completion by its caller, it never blocks outside the `select!`, and
the `select!` is woken by a task's end. A task ends because adapter calls return
or run into the policy's timeout; without a timeout and with a tool that never
returns a run does not end, and the code promises nothing else. `Cancel` is not
fair: nobody has to cancel. `Termination` needs no fairness between `SeeCancel`
and the joins because the cancel branch switches itself off (`SeeCancel` needs
`stop = "none"`). Its mutant is another slip: a retry that goes round again with nothing
in flight.

`Dispatch`: weak fairness of the steps of a task (a call returns, fails or panics,
a sleep ends) and strong fairness of getting the lock of a slot, because tokio's
mutex queues its waiters and serves them in order. Neither effects (`Act`) nor aborts
have to happen. `SingleFlight` on its own: the same for its guards.

`McpClient`: weak fairness of callers, reader and server, strong fairness of the
mutexes, again because tokio's are fair. Faults, drops and the shutdown have none.
`Reads` says that the server reads whatever becomes of its answers, which is true
of this program's own server (an unbounded channel stands between its reader and its
writer) and assumed of others in `mcp_client`; `McpClient_pipes.cfg` drops it.

`MemoryCache`: weak fairness of the steps of an insert under way, which runs on
under its mutex without awaiting anything.

`LockSpec`, `LayersSpec`, `PlannerSpec`, `PlanRun` and `SharedCache` state safety
only.

## 6. Proofs

Everything below holds for all values of the constants under the named assumptions,
which TLC evaluates on every instance.

`LockTableProofs`: `TableInvariant` (`LockTypeOK /\ TableMatchesHolders`),
`ExclusionTheorem` (`EffectExclusion`), `IdleTheorem` (a table without holders
refuses nobody), `MirrorTheorem` (`MirrorsEffectRules`). `UnitAssumption`: finitely
many units, each with at least one node, a unit that is no batch group has exactly
one, declarations are well formed and not contradictory (`validate` refuses the
others), and `None` is not a tool name. The table forgets who holds it, so exclusion
is not inductive over the table's own fields. The inductive invariant `LockInv` ties
every counter to the set of holders: `EntryMatches(r)` says which of the four
entries the readers and writers of `r` call for and with which count, and the
exclusive flag is set exactly when the only holder has undeclared effects. Acquiring
and releasing are each proved for a unit that runs alone and for one that shares,
and per resource by the mode of its entry (`EntryByMode`). Exclusion then follows
because two holders that clash on a resource would call for two different entries
(`HoldersCompatible`).

`CompileProofs`, of `Layers`: `AdmissionTheorem` (`AdmitsIsPairwise`), `LayersTheorem`
(`LayersSound`), `VerdictTheorem` (`VerdictRight`), for every finite graph. The
invariant says of the summary that its reads and claims are exactly those of the
members, and that members which claim one resource are commutative calls of one
tool, which is why a claim may remember its first writer only. For the layers it says
that `pending` counts the dependencies in no layer yet and that the ready nodes are
those with none; when nothing is ready and nodes are left, every one of these waits
for another.

`CompileProofs`, of `Compile` and `Planner`: `ClosedTheorem` (`KeptIsClosed`) and
`MeaningTheorem` (`SameMeaning`), for every plan, intent and recipe in `Source`, every
registry and every way a plan enters. `CompileInv` has a part per stretch of the
compilation. `Dedup` holds during the pass over the nodes: an alias is the name of a
node met before, and the node it stands for is kept, is nobody's alias and makes the
same call. So an alias is resolved in one step, and the rewriting that follows changes
names only.
`Meaning` relates the plan to the submitted one from there on, `GraphOfPlan` the plan
to the graph `validate` built of it, before and after nodes were dropped.
`SameMeaning` itself supposes distinct names, as `deduplicate_nodes` does.

`CompileImplementsLayers` (`PlannerSpec => LayersSpec`) brings the two halves together:
`Compile` calls `safe_layers` on the graph that `validate` accepts and on what `retain`
leaves of it, both are well formed (`ValidateCalls`, `EliminateCalls`, with `BuildPhase`
saying when a layering is under way), and between these calls it takes the steps of
`Layers` only. By refinement the three theorems on layers hold in every compilation
(`CompiledLayers`). From them follow `UnitsTheorem` (`UnitsSchedulable`) and
`LoweredTheorem` (`LoweredOrder`). The units are disjoint because layers are (`Apart`)
and because the chunks of a sorted list are intervals of its indexes (`SortedIs`,
`ChunksAre`); a unit lies within one layer and depends on earlier layers only, so among
any set of units one that is in the least layer waits for none of the others
(`NoCycleOfUnits`). This is what `AcyclicAssumption` asks of the engine's plans.
`ReportInv` says that the groups and units of the report were made from the layers as
they still are. For `LoweredOrder`, `SourceInv` says that the submitted plan has the
nodes the intent or recipe was lowered to, and `Meaning` carries their dependencies
through deduplication: a node with effects keeps every `depends_on`, a pure one its
references. (`compile_order` shows that a pure node may lose the others, which is why
the property speaks of steps with effects and of the reducer's references.)

`ReportTheorem` (`ReportHonest`) says that what a compilation reports is true. Its first
part compares two sums, `compiled_ms` over the layers and `serial_ms` over the submitted
calls. A sum of costs is the number of pairs of an element and a position below its cost
(`Heap`), so sums are compared as sets are, by inclusion and injection: a dispatch costs
at most its calls one at a time (`CallMsIs`), a layer at most its calls (`CompiledBound`),
and each call left has a submitted call of the same tool of its own (`HeapInjects`). The
last step needs `OriginInv`: what is left has the name and the tool of a submitted node,
a node the dedup pass drops is of a known tool, and the nodes of a graph have distinct
names even where the submitted ones do not. The second part is about refusals. `RefusedInv`
remembers, of each pair that a layer kept apart, a closed set with what both depend on
and neither of them (the nodes placed at that moment): this is why neither is upstream of
the other when `Explain` looks, after all layers are built, and why `can_run_with`'s
reasons to refuse are the ones that `explain_parallel_boundaries` looks for.

`RequestAssumption` and `SourceAssumption` say that plans, intents and recipes are well
formed: names are numbers from 1, a node refers to finitely many others, and the names a
recipe generates (`EachId`, `ReduceId`) differ from each other and from those of its
items, as their suffixes make them. What the
recursive definitions compute (the alias walk, the upstream closure, the filter of
`retain`) is proved by induction over the naturals, which is derived in the module for
sets from the existence of a least element, since the library's rule needs an operator
as its argument.

`SchedulerProofs`, for every plan, configuration, preparation and outcome:
`UnitsTheorem` (`NoUnitLostOrDoubled`), `LimitsTheorem` (`LimitsRespected`),
`LockRefinement` (`ImplementsLockTable`), `RunningCompatible` (`EffectExclusion`
inside the engine, from the refinement and `ExclusionTheorem`), `WakeupTheorem`
(`NoMissedWakeup`), `SafetyNetTheorem` (`SafetyNetIdle`), `WritesTheorem`
(`WritesInvalidated`). The inductive invariant has three parts. `EngineInv` follows
the units: a unit is in one place, its counter is the number of its dependencies that
are not retired, a retired unit has verdicts for all its members, and permits are
held for the running ones. `PhaseInv` follows the loop: what each program point may
rely on, for instance that in `join` nothing is ready and every refused unit was
refused in the present state of the permits and locks. `OutputsInvalidated` ties
outputs to invalidations. `SafetyNetIdle` also needs `AcyclicAssumption`: among units
that are not finished one has all its dependencies finished, so that with empty
queues nothing is left (`NothingLeft`). That is what `UnitsSchedulable` says of the
units the compiler makes.

`PlanRunProofs`: `PlanRunTheorem`, `PanicsAlone /\ Spec => ImplementsPlanRun`: the
engine implements `PlanRun` whenever the plan has no batch groups or its calls do not
panic. `Scheduler_batch_panic.cfg` shows why the condition is needed: a skipped
member would be failed afterwards. `VerdictInv` adds to the invariants that a node
has one verdict and that a unit which is queued or runs has no verdict yet except
those its preparation gave; with `RunningCompatible` this gives the guard
`MayStart` for every node that is spawned. `OneVerdictTheorem` (`OneVerdict`) is part of
it.

`PlanRunProofs`, of what a run reports: `EventsTheorem` (`OneTerminalEvent`),
`ReasonsTheorem` (`SkipReasonsTrue`), `SuccessTheorem` (`SuccessMeansComplete`),
`StopTheorem` (`StopIsFinal`), `FailFastTheorem` (`FailFastStartsNothing`) and
`FedTheorem` (no refused unit is given up). Their hypotheses are exactly the situations
in which section 3 shows the code to do otherwise. `Batch = {}` (events, fail-fast): a
group that is refused is prepared again and reports its skipped members again, and one
member's failing preparation does not keep the others from starting. `LimitsPositive`
(reasons, success, leftovers): with a limit of zero units are left out as not run although
there was no error. `PanicsAlone` (reasons, success): a panic fails members that were
skipped already. The events need a count of the terminal events against the verdicts at
each program point; the reasons need that a skip for a failed dependency is decided when
everything the node depends on has its final verdict, and that a stop has its cause
(an error or the token) before anything is skipped because of it.

`DispatchProofs`, of `SingleFlight`: `SlotTheorem` (`SlotsMatchCallers`) and `SingleFlightTheorem`
(`OneExecution`) for every number of callers, keys, locks and dropped acquires.
Exclusion needs that callers of one key share a lock, which is what the count in the
slot protects: a slot goes only when nobody registered is left.

`DispatchProofs`, of `Dispatch`: `FlightRefinement` (`ImplementsSingleFlight`),
`OneCallPerKey` (`OneExecution`, from it), `EffectsTheorem` (`EffectsBounded`),
`AnswersTheorem` (`AnswersMatch`) and `ResultsTheorem` (`OneResultEach`), for every workload that satisfies `TaskAssumption` (in particular, every entry is a call of its own). An
entry moves from the look-up over the misses into one call; `CallOf` says that it is
never in two of these places, that nothing was done for it before it reaches its
call, and that its effects are then bounded by the attempts of that call: those
before the present one, and one more once the present one has acted. `AnswerInv`
says that whatever has been received, stored or reported answers the call it is
received, stored or reported for. `ResultInv` says that the nodes reported and those
whose entries are still to be looked up, called or stored are together the nodes of the
unit, and never overlap.

`MemoryCacheProofs`, for every set of keys and resources and every limit:
`CacheIndexTheorem` (`IndexesAgree`), `CacheFreshTheorem` (`NoStaleEntry` and
`WithinCapacity`) and `EvictionTheorem` (`EvictsOldest`). The inductive invariant is
the conjunction of these invariants with the type invariant: staying fresh and
evicting the right entry rest on the agreement of the indexes, and that needs the
tick of an insert under way to be newer than all others. `RemoveKeysIndexed` is the
one fact about `Inner::remove` that get, insert, eviction and invalidation share.
The assumption is that keys are finitely many and that the absent values are no
keys or entries.

`SharedCacheProofs`: `CoherenceTheorem` (`Coherent`) and `FreshReadsTheorem`
(`FreshReads`) for every plan, every assignment of keys and whatever was resolved for
the nodes, under `OneRunOnly`, stated in the theorems: there is one run, and calls fail
only before they take effect. `shared_cache_two_runs` and `SharedCache_late_failure.cfg`
show that both are needed. `SharedAssumption` says of keys that calls of one key touch
the same resources; nothing is assumed of the reads an entry is stored with. The
properties are about accounted-for resources, and `SharedCache_templates.cfg` shows that
the code promises no more. The invariant says that running nodes may overlap, that what a
running node has seen of an accounted-for resource is current because its writers are
kept out, that an entry has among its `reads` every accounted-for resource that calls of
its key read, and that it differs from the world there only while a writer that has acted
is not joined yet.

`McpClientProofs`, for any callers, jobs, sessions, ids and faults, from
`ClientAssumption` (sessions are numbered from 1): `OwnAnswersTheorem`,
`HandshakeTheorem`, `OneSessionTheorem`, `SlowTheorem` and `AnsweredTheorem`. `SessionInv` says that a
session is made under the lock of the slot, which is empty meanwhile, and that calls
are made on the session in the slot or on one that has died. `AnswerInv` follows a
call's id from the counter, which hands it out once (`IdInv`), through the pipes of
a session (`PipesOf`: what is asked and told under an id is about the call that has
it) into the slot (`MailInv`) and to the caller, who has as many ids as it awaits
answers (`Counted`). `GreetInv` looks at the whole stream of lines written to a
server: who makes a session is alone with it and its lines are whole, so that both
lines of the handshake are in the stream before the session is shared.
`SlowInv` says that a session which is dead has a child that is gone or shut down, or that
has written a line which is not UTF-8, and that whatever is on its way to the reader is
among the lines written (`replied`), from which nothing is taken away. For `AllAnswered` every line taken that asks for an
answer has, as long as nothing went wrong, its task or its answer in the channel or among the lines written, and never two of
them; that both are counted by id makes the argument one about cardinalities of the places
in `taken` and `replied`.

Only model-checked:

* liveness and fairness, which are beyond this prover: `Termination`, `TasksEnd`,
  `CallsEnd`, `InsertEnds`;
* the merge loop of batch groups against its closed form (a recursive operator over
  sequences of nodes).

## 7. Not modelled

* JSON values, paths into them, schemas and canonical encoding; the wording,
  shaping, redaction and truncation of results; durations, metrics other than the
  node counters, token counts. Pure data handling; what control takes from it is a
  free choice in the models (a preparation's verdict, equality of inputs).
* How deep compilers call compilers: the depth is fixed per process, and the refusal of
  `call_tool` at the limit is one of the tool errors `Handle` may answer with.
* Mining recipes from traces (`planner/mining.rs`): counting over recorded JSON.
* The fs, shell and http adapters and the HTTP client of MCP: one I/O call each,
  without state across calls. `process.rs` (killing a process tree) is a system call.
* Argument and configuration parsing, blocked tools, the node SDK, xtask, the
  built-in tools and the conformance suite.

## 8. Plan

What could follow:

* A `SharedCache` that takes the steps of `MemoryCache` and `Dispatch` instead of
  their guarantees, as a refinement.
