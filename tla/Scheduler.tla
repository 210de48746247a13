----------------------------- MODULE Scheduler -----------------------------
(***************************************************************************)
(* The execution engine of one run (crates/tool-compiler-runtime/src/      *)
(* scheduler.rs, engine.rs, finish.rs): ready units are popped by          *)
(* priority, prepared, admitted under the concurrency limits and the lock  *)
(* table, and spawned; the loop then waits for a task to end or for the    *)
(* cancellation token, settles what it learned, and schedules again.       *)
(*                                                                         *)
(* The loop runs in one future and owns all of this state; the spawned     *)
(* tasks only hand back an outcome.  One pop of the ready queue is one     *)
(* action, and so is everything between a join and the next schedule().    *)
(*                                                                         *)
(* Data is abstracted to what control depends on.  What a tool returns is  *)
(* free, so is what `when`, reference resolution, for_each and the input   *)
(* schema make of it: the verdict of a node's preparation is chosen once,  *)
(* in Init, since the outputs it depends on do not change once the node's  *)
(* unit is ready.                                                          *)
(***************************************************************************)
EXTENDS LockTable

CONSTANTS Deps,        \* [Node -> SUBSET Node]: ExecutionGraph::dependencies
          DataDeps,    \* [Node -> SUBSET Node]: collect_data_deps
          OutputRefs,  \* the nodes the plan's outputs refer to
          Cost,        \* [Unit -> Nat]: Unit::cost
          SerialPosition, \* [Unit -> Nat]: position in the layers
          NoLimit,     \* the value None of an Option<usize>
          ToolLimit,   \* [Tool -> limits.max_concurrency]
          Configs,     \* the run configurations considered
          Preparations \* the preparation verdicts considered

UnitOf(n) == CHOOSE u \in Unit : n \in Members[u]
UnitTool(u) == ToolOf[CHOOSE n \in Members[u] : TRUE]

\* Engine::new: dependencies between units, none of a unit on itself.
UnitDeps(u) == {UnitOf(d) : d \in UNION {Deps[n] : n \in Members[u]}} \ {u}
Dependents(u) == {v \in Unit : u \in UnitDeps(v)}

\* Unit indexes are numbers, the units partition the nodes, a batch group is
\* made of independent calls of one tool, references are dependencies, and
\* a serial run has no batch groups and follows a topological order.
ASSUME EngineAssumption ==
  /\ Unit \subseteq Nat
  /\ \A n \in Node : \E u \in Unit : n \in Members[u]
  /\ \A u, v \in Unit : u # v => Disjoint(Members[u], Members[v])
  /\ \A u \in Unit : \A m, n \in Members[u] :
       ToolOf[m] = ToolOf[n] /\ m \notin Deps[n]
  /\ Deps \in [Node -> SUBSET Node]
  /\ \A n \in Node : DataDeps[n] \subseteq Deps[n]
  /\ OutputRefs \subseteq Node
  /\ Cost \in [Unit -> Nat]
  /\ SerialPosition \in [Unit -> 0 .. Cardinality(Unit) - 1]
  /\ NoLimit \notin Nat
  /\ ToolLimit \in [Tool -> Nat \cup {NoLimit}]
  /\ (\E c \in Configs : c.serial) =>
       Batch = {} /\ \A u \in Unit : \A v \in UnitDeps(u) :
                       SerialPosition[v] < SerialPosition[u]

\* Graph validation refuses cycles and a batch group is made of nodes of one
\* layer, so the dependencies between units have no cycle either.
ASSUME AcyclicAssumption ==
  \A S \in SUBSET Unit : S # {} => \E u \in S : Disjoint(UnitDeps(u), S)

\* A run configuration: ErrorMode, the global ceiling, whether there is a
\* cancellation token, whether adapters may panic, and whether this is the
\* serial benchmark run.
Config == [on_error: {"FailFast", "Continue"},
           max_concurrency: Nat \cup {NoLimit},
           cancel: BOOLEAN, panics: BOOLEAN, serial: BOOLEAN]

ASSUME RunAssumption ==
  /\ Configs \subseteq Config
  /\ Preparations \subseteq [Node -> {"run", "condition", "error"}]

VARIABLES
  pc,             \* where the loop of Engine::run is
  config,         \* RunConfig
  preparation,    \* [Node -> what preparing the node comes to]
  ready,          \* [Unit -> Nat]: entries of the unit in the ready heap
  blocked,        \* [Unit -> Nat]: entries in the list of refused units
  in_flight,      \* [Unit -> Nat]: spawned tasks of the unit
  prepared,       \* [Unit -> SUBSET Node]: members its task dispatches
  remaining,      \* [Unit -> Nat]: dependencies still open
  total_in_flight, tool_in_flight,
  outputs,        \* nodes with an output
  dead,           \* nodes whose output will never exist
  errors,         \* nodes with an error
  skipped,        \* [Node -> skip reason, or "none"]
  metrics,        \* nodes_succeeded, nodes_failed, nodes_skipped
  terminal,       \* [Node -> Nat]: terminal trace events of the node
  stop,           \* Option<SkipReason>, or "none"
  cancelled,      \* whether the token has been cancelled
  invalidated,    \* resources passed to cache.invalidate_reads
  status          \* RunStatus, or "none" while the run lasts

queues == <<ready, blocked, remaining>>
admission == <<in_flight, prepared, total_in_flight, tool_in_flight>>
verdicts == <<outputs, dead, errors, skipped, metrics, terminal, stop>>
world == <<config, preparation, cancelled>>
vars == <<pc, queues, admission, verdicts, world, invalidated, status, lockVars>>

----------------------------------------------------------------------------
(* Queues.                                                                 *)

Plus(f, S) == [u \in Unit |-> f[u] + (IF u \in S THEN 1 ELSE 0)]
Minus(f, u) == [f EXCEPT ![u] = @ - 1]
Empty(f) == \A u \in Unit : f[u] = 0

\* Engine::ready_keys: in a serial run earlier positions pop first.
ReadyKey(u) ==
  IF config.serial THEN Cardinality(Unit) - SerialPosition[u] ELSE Cost[u]

\* BinaryHeap<(key, Reverse(unit))>: the highest key, then the lowest index.
Top(u) ==
  /\ ready[u] > 0
  /\ \A v \in Unit : ready[v] > 0 =>
       \/ ReadyKey(v) < ReadyKey(u)
       \/ ReadyKey(v) = ReadyKey(u) /\ u <= v

\* unblock: the counts it leaves, and the dependents it makes ready.
Unblocked(u) ==
  [v \in Unit |-> IF v \in Dependents(u) /\ remaining[v] > 0
                  THEN remaining[v] - 1 ELSE remaining[v]]

Freed(u) == {v \in Dependents(u) : Unblocked(u)[v] = 0}

----------------------------------------------------------------------------
(* Verdicts.                                                               *)

\* Mutants of IsSettled and DependencyDead: failures are not looked at; skips
\* are not.
IsSettledUnlessFailed(n) == n \in outputs \/ skipped[n] # "none"
DependencyFailed(n) == DataDeps[n] \cap errors # {}

IsSettled(n) == n \in outputs \cup errors \/ skipped[n] # "none"
DependencyDead(n) == DataDeps[n] \cap dead # {}

\* absorb, record_failure, complete_error and complete_skip, for the nodes
\* that succeed, that fail, and that are skipped with a reason each.
Record(oks, fails, skips) ==
  /\ outputs' = outputs \cup oks
  /\ errors' = errors \cup fails
  /\ dead' = dead \cup fails \cup DOMAIN skips
  /\ skipped' = [n \in Node |-> IF n \in DOMAIN skips THEN skips[n]
                                                      ELSE skipped[n]]
  /\ metrics' = [succeeded |-> metrics.succeeded + Cardinality(oks),
                 failed    |-> metrics.failed + Cardinality(fails),
                 skipped   |-> metrics.skipped + Cardinality(DOMAIN skips)]
  /\ terminal' = [n \in Node |->
       terminal[n] + (IF n \in oks \cup fails \cup DOMAIN skips THEN 1 ELSE 0)]
  /\ stop' = IF fails # {} /\ stop = "none" /\ config.on_error = "FailFast"
             THEN "NotRun" ELSE stop

\* Mutant of SkipReason: the fallback hides the failed dependency.
SkipReasonFallback(n, fallback) == fallback

\* The reason a node is skipped for when it is not run at all.
SkipReason(n, fallback) ==
  IF DependencyDead(n) THEN "FailedDependency" ELSE fallback
SkipAll(S, fallback) == [n \in S |-> SkipReason(n, fallback)]

\* settle_unit.
SettleUnit(u, fallback) ==
  Record({}, {}, SkipAll({n \in Members[u] : ~IsSettled(n)}, fallback))

\* prepare_members: the members that are skipped, fail, or are dispatched.
\* Nothing asks whether a member has a verdict from an earlier attempt.
PrepSkips(u) ==
  [n \in {m \in Members[u] : \/ DependencyDead(m)
                             \/ preparation[m] = "condition"} |->
     SkipReason(n, "Condition")]
PrepFails(u) ==
  {n \in Members[u] : ~DependencyDead(n) /\ preparation[n] = "error"}
Survivors(u) ==
  {n \in Members[u] : ~DependencyDead(n) /\ preparation[n] = "run"}
Prepare(u) == Record({}, PrepFails(u), PrepSkips(u))

----------------------------------------------------------------------------
(* Admission.                                                              *)

\* Mutant of Below: off by one.
AtOrBelow(count, limit) == limit # NoLimit => count <= limit
Below(count, limit) == limit # NoLimit => count < limit
GlobalLimit == IF config.serial THEN 1 ELSE config.max_concurrency
WithinLimits(u) ==
  /\ Below(total_in_flight, GlobalLimit)
  /\ Below(tool_in_flight[UnitTool(u)], ToolLimit[UnitTool(u)])

\* Mutant of Admit: asks the lock table and records nothing in it.
AdmitWithoutLocking(u) ==
  /\ WithinLimits(u)
  /\ Grants(Request(u))
  /\ held' = held \cup {u}
  /\ total_in_flight' = total_in_flight + 1
  /\ tool_in_flight' = [tool_in_flight EXCEPT ![UnitTool(u)] = @ + 1]
  /\ UNCHANGED <<tableVars, panicked>>

\* try_admit.
Admit(u) ==
  /\ WithinLimits(u)
  /\ TryAcquire(Request(u))
  /\ held' = held \cup {u}
  /\ total_in_flight' = total_in_flight + 1
  /\ tool_in_flight' = [tool_in_flight EXCEPT ![UnitTool(u)] = @ + 1]
  /\ UNCHANGED panicked
Admissible(u) == WithinLimits(u) /\ Grants(Request(u))

\* Engine::release.
ReleaseUnit(u) ==
  /\ ReleaseRequest(Request(u))
  /\ held' = held \ {u}
  /\ total_in_flight' = IF total_in_flight = 0 THEN 0 ELSE total_in_flight - 1
  /\ tool_in_flight' =
       [tool_in_flight EXCEPT ![UnitTool(u)] = IF @ = 0 THEN 0 ELSE @ - 1]
  /\ UNCHANGED panicked

----------------------------------------------------------------------------
(* schedule(): the body of its loop, for the unit on top of the heap.      *)

Popping(u) == pc \in {"schedule", "retry"} /\ Top(u)

Preparing(u) == Popping(u) /\ stop = "none"

\* The engine is stopping: the unit is settled without running.
PopStopped(u) ==
  /\ Popping(u) /\ stop # "none"
  /\ SettleUnit(u, stop)
  /\ remaining' = Unblocked(u)
  /\ ready' = Plus(Minus(ready, u), Freed(u))
  /\ UNCHANGED <<pc, blocked, admission, world, invalidated, status, lockVars>>

\* No member survives its preparation.
PopNoSurvivor(u) ==
  /\ Preparing(u) /\ Survivors(u) = {}
  /\ Prepare(u)
  /\ remaining' = Unblocked(u)
  /\ ready' = Plus(Minus(ready, u), Freed(u))
  /\ UNCHANGED <<pc, blocked, admission, world, invalidated, status, lockVars>>

\* A limit or a lock refuses the unit.
PopRefused(u) ==
  /\ Preparing(u) /\ Survivors(u) # {}
  /\ ~WithinLimits(u) \/ ~(Grants(Request(u)) \/ Panics(Request(u)))
  /\ Prepare(u)
  /\ ready' = Minus(ready, u)
  /\ blocked' = Plus(blocked, {u})
  /\ UNCHANGED <<pc, remaining, admission, world, invalidated, status, lockVars>>

\* The unit is admitted and its task spawned.
PopSpawned(u) ==
  /\ Preparing(u) /\ Survivors(u) # {}
  /\ Prepare(u)
  /\ Admit(u)
  /\ ready' = Minus(ready, u)
  /\ in_flight' = Plus(in_flight, {u})
  /\ prepared' = [prepared EXCEPT ![u] = Survivors(u)]
  /\ UNCHANGED <<pc, blocked, remaining, world, invalidated, status>>

\* try_acquire panics: the run unwinds without a result.
PopUnwinds(u) ==
  /\ Preparing(u) /\ Survivors(u) # {}
  /\ WithinLimits(u) /\ Panics(Request(u))
  /\ Prepare(u)
  /\ ready' = Minus(ready, u)
  /\ panicked' = TRUE
  /\ pc' = "unwound"
  /\ UNCHANGED <<blocked, remaining, admission, world, invalidated, status,
                 resources, running, exclusive, held>>

Pop(u) == \/ PopStopped(u) \/ PopNoSurvivor(u) \/ PopRefused(u)
          \/ PopSpawned(u) \/ PopUnwinds(u)

----------------------------------------------------------------------------
(* Engine::run.                                                            *)

\* Mutants of Requeue: nothing is requeued; the list is not drained.
RequeueNothing(queue) == ready' = queue /\ UNCHANGED blocked
RequeueKeepingList(queue) ==
  /\ ready' = [v \in Unit |-> queue[v] + blocked[v]]
  /\ UNCHANGED blocked

\* requeue, with the ready heap holding queue.
Requeue(queue) ==
  /\ ready' = [v \in Unit |-> queue[v] + blocked[v]]
  /\ blocked' = [v \in Unit |-> 0]

\* Nothing is ready any more: wait for a task, stop, or try the refused
\* units once more when nothing runs.
EndSchedule ==
  /\ pc = "schedule" /\ Empty(ready)
  /\ pc' = IF ~Empty(in_flight) THEN "join"
           ELSE IF Empty(blocked) THEN "finish" ELSE "retry"
  /\ IF pc' = "retry"
     THEN Requeue(ready)
     ELSE UNCHANGED <<ready, blocked>>
  /\ UNCHANGED <<remaining, admission, verdicts, world, invalidated, status,
                 lockVars>>

\* Mutant of EndRetry: always goes round again.
EndRetryAgain ==
  /\ pc = "retry" /\ Empty(ready)
  /\ pc' = "schedule"
  /\ UNCHANGED <<queues, admission, verdicts, world, invalidated, status,
                 lockVars>>

EndRetry ==
  /\ pc = "retry" /\ Empty(ready)
  /\ pc' = IF Empty(in_flight) THEN "leftovers" ELSE "schedule"
  /\ UNCHANGED <<queues, admission, verdicts, world, invalidated, status,
                 lockVars>>

\* Mutant of SettleLeftover: the dependents are not told.
SettleLeftoverAlone(u) ==
  /\ pc = "leftovers" /\ blocked[u] > 0
  /\ SettleUnit(u, "NotRun")
  /\ blocked' = Minus(blocked, u)
  /\ UNCHANGED <<pc, ready, remaining, admission, world, invalidated, status,
                 lockVars>>

\* The retry spawned nothing: the refused units are settled one by one ...
SettleLeftover(u) ==
  /\ pc = "leftovers" /\ blocked[u] > 0
  /\ SettleUnit(u, "NotRun")
  /\ remaining' = Unblocked(u)
  /\ ready' = Plus(ready, Freed(u))
  /\ blocked' = Minus(blocked, u)
  /\ UNCHANGED <<pc, admission, world, invalidated, status, lockVars>>

\* ... and the loop goes on with the units that this made ready.
EndLeftovers ==
  /\ pc = "leftovers" /\ Empty(blocked)
  /\ pc' = IF Empty(ready) THEN "finish" ELSE "schedule"
  /\ UNCHANGED <<queues, admission, verdicts, world, invalidated, status,
                 lockVars>>

\* Mutant of Written: a unit with a failed member invalidates nothing.
WrittenIfAllSucceed(u, oks) ==
  IF oks = prepared[u] THEN UNION {Effective(n).writes : n \in oks} ELSE {}
Written(u, oks) == UNION {Effective(n).writes : n \in oks}

\* A task has ended: release, absorb, unblock, requeue.
Joined(u, oks, fails) ==
  /\ pc = "join" /\ in_flight[u] > 0
  /\ pc' = "schedule"
  /\ in_flight' = Minus(in_flight, u)
  /\ prepared' = [prepared EXCEPT ![u] = {}]
  /\ ReleaseUnit(u)
  /\ Record(oks, fails, <<>>)
  /\ invalidated' = invalidated \cup Written(u, oks)
  /\ remaining' = Unblocked(u)
  /\ Requeue(Plus(ready, Freed(u)))
  /\ UNCHANGED <<world, status>>

JoinOutcome(u) == \E oks \in SUBSET prepared[u] : Joined(u, oks, prepared[u] \ oks)

\* panicked_outcome: every member of the unit fails.
JoinPanicked(u) == config.panics /\ Joined(u, {}, Members[u])

\* The select! of the loop sees the token, unless the engine is stopping.
SeeCancel ==
  /\ pc = "join" /\ cancelled /\ stop = "none"
  /\ stop' = "Cancelled"
  /\ pc' = "schedule"
  /\ UNCHANGED <<queues, admission, outputs, dead, errors, skipped, metrics,
                 terminal, world, invalidated, status, lockVars>>

\* Mutant of Verdict: tool failures do not fail the run.
VerdictOfOutputs(unresolved) ==
  IF stop = "Cancelled" THEN "Cancelled"
  ELSE IF unresolved = {} THEN "Success" ELSE "Failed"
Verdict(unresolved) ==
  IF stop = "Cancelled" THEN "Cancelled"
  ELSE IF errors = {} /\ unresolved = {} THEN "Success" ELSE "Failed"

\* finish(): nodes that never reached a queue are settled, and the declared
\* outputs resolved; a path into an existing output may be missing.
Finish ==
  /\ pc = "finish"
  /\ pc' = "done"
  /\ Record({}, {}, SkipAll({n \in Node : ~IsSettled(n)},
                            IF stop = "none" THEN "NotRun" ELSE stop))
  /\ \E missing \in SUBSET (OutputRefs \cap outputs) :
       status' = Verdict(missing \cup (OutputRefs \ (outputs \cup dead')))
  /\ UNCHANGED <<queues, admission, world, invalidated, lockVars>>

\* The owner of the token cancels it, at any time.
Cancel ==
  /\ config.cancel /\ ~cancelled
  /\ cancelled' = TRUE
  /\ UNCHANGED <<pc, queues, admission, verdicts, config, preparation,
                 invalidated, status, lockVars>>

Stopped == pc \in {"done", "unwound"} /\ UNCHANGED vars

----------------------------------------------------------------------------

Init ==
  /\ pc = "schedule"
  /\ config \in Configs
  /\ preparation \in Preparations
  /\ remaining = [u \in Unit |-> Cardinality(UnitDeps(u))]
  /\ ready = [u \in Unit |-> IF UnitDeps(u) = {} THEN 1 ELSE 0]
  /\ blocked = [u \in Unit |-> 0]
  /\ in_flight = [u \in Unit |-> 0]
  /\ prepared = [u \in Unit |-> {}]
  /\ total_in_flight = 0
  /\ tool_in_flight = [t \in Tool |-> 0]
  /\ outputs = {} /\ dead = {} /\ errors = {}
  /\ skipped = [n \in Node |-> "none"]
  /\ metrics = [succeeded |-> 0, failed |-> 0, skipped |-> 0]
  /\ terminal = [n \in Node |-> 0]
  /\ stop = "none"
  /\ cancelled = FALSE
  /\ invalidated = {}
  /\ status = "none"
  /\ LockInit

EngineStep ==
  \/ \E u \in Unit : Pop(u) \/ SettleLeftover(u) \/ JoinOutcome(u) \/ JoinPanicked(u)
  \/ EndSchedule \/ EndRetry \/ EndLeftovers \/ SeeCancel \/ Finish

Next == EngineStep \/ Cancel \/ Stopped

\* The loop's future is polled until it completes, and every adapter call
\* returns: it ends by itself or by its timeout.  Nobody has to cancel.
Spec == Init /\ [][Next]_vars /\ WF_vars(EngineStep)

----------------------------------------------------------------------------
(* Properties.                                                             *)

Places(u) == ready[u] + blocked[u] + in_flight[u]
Retired(u) == remaining[u] = 0 /\ Places(u) = 0
Running == {u \in Unit : in_flight[u] > 0}

\* Type invariant of the engine (engine.rs:36-64 and the locals of run()).
TypeOK ==
  /\ LockTypeOK
  /\ pc \in {"schedule", "retry", "leftovers", "join", "finish", "done", "unwound"}
  /\ config \in Config
  /\ preparation \in [Node -> {"run", "condition", "error"}]
  /\ {ready, blocked, in_flight, remaining} \subseteq [Unit -> Nat]
  /\ prepared \in [Unit -> SUBSET Node]
  /\ total_in_flight \in Nat
  /\ tool_in_flight \in [Tool -> Nat]
  /\ {outputs, dead, errors} \subseteq SUBSET Node
  /\ skipped \in [Node -> {"none", "Condition", "FailedDependency", "Cancelled", "NotRun"}]
  /\ metrics \in [succeeded: Nat, failed: Nat, skipped: Nat]
  /\ terminal \in [Node -> Nat]
  /\ stop \in {"none", "NotRun", "Cancelled"}
  /\ cancelled \in BOOLEAN
  /\ invalidated \subseteq Resource
  /\ status \in {"none", "Success", "Failed", "Cancelled"}

\* However units are popped, refused, requeued, settled and joined, none is
\* queued twice or forgotten (scheduler.rs:141-145 and 461-474): a unit is in
\* one place at most and, unless the run has unwound, waits for exactly the
\* dependencies that are not finished, and has a verdict for every member
\* once it is in no place.
NoUnitLostOrDoubled ==
  \A u \in Unit :
    /\ Places(u) <= 1
    /\ pc # "unwound" =>
         /\ remaining[u] = Cardinality({v \in UnitDeps(u) : ~Retired(v)})
         /\ Retired(u) => \A n \in Members[u] : IsSettled(n)

\* try_admit and release (scheduler.rs:313-351) stay in step with the tasks,
\* and no limit is ever exceeded.
LimitsRespected ==
  /\ held = Running
  /\ total_in_flight = Cardinality(Running)
  /\ \A t \in Tool :
       /\ tool_in_flight[t] = Cardinality({u \in Running : UnitTool(u) = t})
       /\ ToolLimit[t] # NoLimit => tool_in_flight[t] <= ToolLimit[t]
  /\ GlobalLimit # NoLimit => total_in_flight <= GlobalLimit

\* No lost wakeup: while the loop waits for a task (scheduler.rs:101-111), no
\* unit it refused could be started now, so nothing that could run waits for
\* an unrelated task to end.
NoMissedWakeup ==
  pc = "join" =>
    /\ Running # {} /\ Empty(ready)
    /\ stop = "none" => \A u \in Unit : blocked[u] > 0 => ~Admissible(u)

\* "Safety net: account for nodes that never reached any queue"
\* (finish.rs:18): the net is never needed, and nothing is still running or
\* locked when the result is put together.
SafetyNetIdle ==
  pc = "finish" =>
    /\ \A n \in Node : IsSettled(n)
    /\ Running = {} /\ running = 0 /\ ~exclusive
    /\ \A r \in Resource : resources[r] = Free

\* A node has one verdict: an output, an error, or a reason it was skipped
\* (result.rs:15-17), and never two of them.
OneVerdict ==
  \A n \in Node :
    /\ ~(n \in outputs /\ n \in errors)
    /\ skipped[n] # "none" => n \notin outputs \cup errors
    /\ n \in dead <=> n \in errors \/ skipped[n] # "none"

\* "One terminal event ... per node" (docs/result-format.md:62-63), and the node
\* counters of the metrics add up to nodes_total.
OneTerminalEvent ==
  /\ \A n \in Node : terminal[n] <= 1
  /\ pc = "done" =>
       /\ \A n \in Node : terminal[n] = 1
       /\ metrics.succeeded + metrics.failed + metrics.skipped = Cardinality(Node)

\* The reason given for a skip is the true one (result.rs:54-66): a failed
\* dependency is a reference to a node without output, not_run means that
\* fail-fast stopped after an error, and with Continue a failure only takes
\* along the nodes that reference it (lib.rs:61-63).
SkipReasonsTrue ==
  \A n \in Node :
    /\ skipped[n] = "FailedDependency" <=>
         skipped[n] # "none" /\ DataDeps[n] \cap dead # {}
    /\ skipped[n] = "Condition" => preparation[n] = "condition"
    /\ skipped[n] = "NotRun" => config.on_error = "FailFast" /\ errors # {}
    /\ skipped[n] = "Cancelled" => cancelled

\* "Success: every scheduled node finished (skips by `when` still count as
\* success)" (result.rs:46): a successful run has run every node, but for the
\* ones a condition switched off and what references them.
SuccessMeansComplete ==
  status = "Success" =>
    \A n \in Node : n \in outputs \/ skipped[n] \in {"Condition", "FailedDependency"}

\* "Cancelled: the run was cancelled before completion" (result.rs:50-51).
CancelledMeansIncomplete ==
  status = "Cancelled" => \E n \in Node : n \notin outputs

\* Reads cached before a write are dropped "BEFORE any dependent is scheduled"
\* (scheduler.rs:377-379), whichever members of the unit succeeded.
WritesInvalidated ==
  \A u \in Unit : Places(u) > 0 =>
    \A n \in UNION {Deps[m] : m \in Members[u]} :
      n \in outputs => Effective(n).writes \subseteq invalidated

\* The serial benchmark runs one unit at a time, in the order of its
\* positions (engine.rs:189-203), although readiness follows dependencies.
SerialOrder ==
  config.serial => \A u \in Running : \A v \in Unit :
    v # u => IF SerialPosition[v] < SerialPosition[u] THEN Retired(v)
                                                      ELSE v \notin Running

\* Once the engine is stopping it starts nothing more and keeps its reason
\* (scheduler.rs:156-159, lib.rs:58 and 83-84); what runs is drained.
StopIsFinal ==
  [][stop # "none" => /\ stop' = stop
                      /\ \A u \in Unit : in_flight'[u] <= in_flight[u]]_vars

\* "FailFast: stop scheduling new nodes" (lib.rs:58): no node is started once
\* another one has failed.
FailFastStartsNothing ==
  [][config.on_error = "FailFast" /\ errors' # {} =>
       \A u \in Unit : in_flight'[u] <= in_flight[u]]_vars

\* The life of a node, for the abstract specification.
Life ==
  [n \in Node |->
     IF n \in errors THEN "failed"
     ELSE IF n \in outputs THEN "ok"
     ELSE IF skipped[n] # "none" THEN "skipped"
     ELSE IF \E u \in Running : n \in prepared[u] THEN "active"
     ELSE "pending"]

PR == INSTANCE PlanRun WITH status <- Life

\* The engine implements PlanRun (scheduler.rs:3-11): a node is started once,
\* after its dependencies, with its references available, beside nodes it may
\* run with, and keeps its verdict.
ImplementsPlanRun == PR!RunSpec

\* The engine drives its lock table as LockTable allows (scheduler.rs:336 and
\* 346): every acquired request is released once, and no other is.
ImplementsLockTable == LockSpec

\* Every run ends (scheduler.rs:61-99): whatever fails, is refused, or is
\* cancelled, the loop neither spins nor waits for nothing.
Termination == <>(pc \in {"done", "unwound"})
=============================================================================
