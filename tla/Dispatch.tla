------------------------------ MODULE Dispatch ------------------------------
(***************************************************************************)
(* What the task of a unit does (crates/tool-compiler-runtime/src/         *)
(* dispatch.rs, fanout.rs, policy.rs): look its calls up in the cache,     *)
(* make the others under the tool's call policy (timeout, retries with     *)
(* backoff), store what succeeds and report one result per node.  A single *)
(* call of a cacheable tool goes through single flight; a batch group and  *)
(* the items of a for_each node do not.                                    *)
(*                                                                         *)
(* Tasks run concurrently and share the cache and the single-flight table. *)
(* An entry is one call: the node of a single unit, a member of a batch    *)
(* group, or an item of a for_each node.  The value a tool returns for an  *)
(* entry is named by the entry.  The tool may act and then fail, time out, *)
(* or return fewer outputs than it was asked for.                          *)
(***************************************************************************)
EXTENDS SingleFlight, SequencesExt

CONSTANTS
  Entry,        \* the calls
  NoEntry,      \* the cache has nothing for a key
  NoKey,        \* an entry that is not looked up
  None,         \* an Option that is not there
  KeyOf,        \* [Entry -> Key]: adapter, tool, version and input
  Workloads,    \* what the tasks are given: a set of [Caller -> Task]
  Errors        \* what tools answer when they fail

\* A task: a unit with its prepared members, the effects its tool declares,
\* and the items whose placeholders cannot be filled in.  Every entry is a
\* call of its own.
Retry == [max_attempts: 0..255, retryable_errors: SUBSET STRING, backoff_ms: Nat]
Task == [kind: {"idle", "single", "batch", "fan_out"}, entries: Seq(Entry),
         invalid: SUBSET Entry, use_cache: BOOLEAN, batchable: BOOLEAN, batch_size: Nat,
         effects: [pure: BOOLEAN, idempotent: BOOLEAN, cacheable: BOOLEAN,
                   timeout: BOOLEAN, retry: Retry \cup {None}]]

ASSUME TaskAssumption ==
  /\ KeyOf \in [Entry -> Key]
  /\ Errors \subseteq [code: STRING, retryable: BOOLEAN \cup {None}]
  /\ \A w \in Workloads : w \in [Caller -> Task]
  /\ \A w \in Workloads : \A c \in Caller :
       w[c].kind = "single" => Len(w[c].entries) = 1
  /\ \A w \in Workloads : \A c, d \in Caller :
       \A i \in DOMAIN w[c].entries, j \in DOMAIN w[d].entries :
         w[c].entries[i] = w[d].entries[j] => c = d /\ i = j

VARIABLES
  work,         \* the workload
  pc,           \* [Caller -> where its task is]
  cache,        \* [Key -> the entry whose call produced the value]
  todo,         \* [Caller -> entries to look up]
  pending,      \* [Caller -> entries to call]
  width,        \* [Caller -> how many entries a call_batch carries, 0 for call]
  chunk,        \* [Caller -> entries of the call, then those left to store]
  acted,        \* [Caller -> entries this attempt has had its effect for]
  attempt,      \* [Caller -> attempts of this call so far]
  delay,        \* [Caller -> the backoff it sleeps, in milliseconds]
  received,     \* [Caller -> outputs of the call, by entry]
  values,       \* [Caller -> outputs so far, by entry]
  results,      \* [Caller -> Seq of [node, ok]]: DispatchOutcome::results
  performed     \* [Entry -> how often its effect has happened]

taskVars == <<pc, cache, todo, pending, width, chunk, acted, attempt, delay, received,
              values, results, performed>>
allVars == <<vars, work, taskVars>>

Put(f, k, v) == [x \in DOMAIN f \cup {k} |-> IF x = k THEN v ELSE f[x]]
Larger(a, b) == IF a > b THEN a ELSE b
Smaller(a, b) == IF a < b THEN a ELSE b
At(c, label) == pc[c] = label
Goto(c, label) == pc' = [pc EXCEPT ![c] = label]

----------------------------------------------------------------------------
(* CallPolicy.                                                             *)

\* Mutant of MaxAttempts: a retry policy is obeyed whatever the effects say.
RetriesAlways(e) ==
  IF e.retry # None THEN Larger(e.retry.max_attempts, 1) ELSE 1

\* CallPolicy::from_effects: only idempotent and pure tools are retried.
MaxAttempts(e) ==
  IF (e.idempotent \/ e.pure) /\ e.retry # None THEN Larger(e.retry.max_attempts, 1) ELSE 1

\* CallPolicy::is_retryable: the adapter's verdict, or the policy's list.  An
\* error's code and message are one value here: what is in the list stands for
\* errors that match an item of it, by their code or within their message.
IsRetryable(e, error) ==
  IF error.retryable # None THEN error.retryable
  ELSE \/ e.retry = None \/ e.retry.retryable_errors = {}
       \/ error.code \in e.retry.retryable_errors

\* CallPolicy::backoff: the base, and what jitter may add to it.
Backoffs(e, n) ==
  LET base == Smaller(5000, e.retry.backoff_ms * 2 ^ Smaller(n - 1, 16))
  IN  {base, base + base \div 4}

\* with_timeout gives up with an error the adapter has no verdict on.
TimedOut == [code |-> "timeout", retryable |-> None]

----------------------------------------------------------------------------
(* The look-up.                                                            *)

\* PreparedMember::key, with use_cache.
EntryKey(c, e) ==
  IF work[c].use_cache /\ (work[c].effects.pure \/ work[c].effects.cacheable)
  THEN KeyOf[e] ELSE NoKey

TheEntry(c) == Head(work[c].entries)
NodesOf(c) == IF work[c].kind = "fan_out" THEN {c} ELSE ToSet(work[c].entries)
Result(n, ok) == [node |-> n, ok |-> ok]

\* The end of a task that may hold a single-flight guard.
EndLabel(c) == IF phase[c] = "executing" THEN "leave" ELSE "done"

\* A single call that has a key takes its turn first.
FirstLabel(c) ==
  IF work[c].kind = "single" /\ EntryKey(c, TheEntry(c)) # NoKey THEN "acquire" ELSE "lookup"

\* dispatch_unit.  A for_each node with an item that does not fit its input
\* fails before anything is looked up or called.
Begin(c) ==
  /\ At(c, "start")
  /\ IF work[c].kind = "fan_out" /\ work[c].invalid # {}
     THEN /\ results' = [results EXCEPT ![c] = Append(@, Result(c, FALSE))]
          /\ Goto(c, "done")
     ELSE /\ Goto(c, FirstLabel(c))
          /\ UNCHANGED results
  /\ todo' = [todo EXCEPT ![c] = work[c].entries]
  /\ UNCHANGED <<vars, work, cache, pending, width, chunk, acted, attempt, delay,
                 received, values, performed>>

\* dispatch_single waits for its turn.
Acquire(c) ==
  /\ At(c, "acquire")
  /\ LET k == EntryKey(c, TheEntry(c)) IN JoinSlot(c, k) \/ NewSlot(c, k)
  /\ UNCHANGED <<work, taskVars>>

Locks(c) ==
  /\ At(c, "acquire")
  /\ Locked(c)
  /\ Goto(c, "lookup")
  /\ UNCHANGED <<work, cache, todo, pending, width, chunk, acted, attempt, delay,
                 received, values, results, performed>>

\* One cache.get; dispatch_batch and dispatch_single report a hit at once.
LookUp(c) ==
  /\ At(c, "lookup") /\ todo[c] # <<>>
  /\ LET e == Head(todo[c])
         k == EntryKey(c, e)
         hit == k # NoKey /\ cache[k] # NoEntry
     IN  /\ values' = IF hit THEN [values EXCEPT ![c] = Put(@, e, cache[k])] ELSE values
         /\ pending' = IF hit THEN pending ELSE [pending EXCEPT ![c] = Append(@, e)]
         /\ results' = IF hit /\ work[c].kind # "fan_out"
                       THEN [results EXCEPT ![c] = Append(@, Result(e, TRUE))] ELSE results
  /\ todo' = [todo EXCEPT ![c] = Tail(@)]
  /\ UNCHANGED <<vars, work, pc, cache, width, chunk, acted, attempt, delay, received, performed>>

----------------------------------------------------------------------------
(* The calls.                                                              *)

\* How many entries a call_batch carries: all of a batch group; the batch
\* size of the tool when a for_each node has several items left and may be
\* batched.  Otherwise the calls are made one by one.
Width(c) ==
  IF work[c].kind = "batch" THEN Len(pending[c])
  ELSE IF work[c].kind = "fan_out" /\ work[c].batchable /\ Len(pending[c]) > 1
       THEN Larger(1, work[c].batch_size) ELSE 0

\* After the look-up, and after each call: the next call, or the report of a
\* for_each node all of whose items have a value.
NextCall(c) ==
  /\ \/ At(c, "lookup") /\ todo[c] = <<>> /\ width' = [width EXCEPT ![c] = Width(c)]
     \/ At(c, "store") /\ chunk[c] = <<>> /\ UNCHANGED width
  /\ LET n == Smaller(Larger(1, width'[c]), Len(pending[c]))
     IN  /\ chunk' = [chunk EXCEPT ![c] = SubSeq(pending[c], 1, n)]
         /\ pending' = [pending EXCEPT ![c] = SubSeq(@, n + 1, Len(@))]
         /\ Goto(c, IF n = 0 THEN EndLabel(c) ELSE "call")
         /\ results' = IF n = 0 /\ work[c].kind = "fan_out"
                       THEN [results EXCEPT ![c] = Append(@, Result(c, TRUE))] ELSE results
  /\ acted' = [acted EXCEPT ![c] = {}]
  /\ attempt' = [attempt EXCEPT ![c] = 1]
  /\ UNCHANGED <<vars, work, cache, todo, delay, received, values, performed>>

\* External: the tool takes effect for one entry of the call.
Act(c, e) ==
  /\ At(c, "call") /\ e \in ToSet(chunk[c]) \ acted[c]
  /\ acted' = [acted EXCEPT ![c] = @ \cup {e}]
  /\ performed' = [performed EXCEPT ![e] = @ + 1]
  /\ UNCHANGED <<vars, work, pc, cache, todo, pending, width, chunk, attempt, delay,
                 received, values, results>>

IsBatchCall(c) == width[c] > 0

\* Mutant of ByEntry: outputs are matched by their place in the answer.
ByPlace(c, outputs) ==
  [i \in {chunk[c][j] : j \in 1..Smaller(Len(chunk[c]), Len(outputs))} |->
     outputs[CHOOSE j \in DOMAIN chunk[c] : chunk[c][j] = i]]

\* by_node, by_index: the outputs by the name they carry.
ByEntry(c, outputs) == [e \in ToSet(outputs) |-> e]

\* The call succeeds.  A batch call answers in any order, for some entries.
Answer(c) ==
  /\ At(c, "call")
  /\ \E outputs \in SetToAllKPermutations(acted[c]) :
       /\ IsBatchCall(c) \/ ToSet(outputs) = ToSet(chunk[c])
       /\ received' = [received EXCEPT ![c] = ByEntry(c, outputs)]
  /\ Goto(c, "store")
  /\ UNCHANGED <<vars, work, cache, todo, pending, width, chunk, acted, attempt, delay,
                 values, results, performed>>

\* Mutant of Failed: only the first node of the call hears of the error.
FailedFirst(c) ==
  [results EXCEPT ![c] =
     Append(@, Result(IF work[c].kind = "fan_out" THEN c ELSE Head(chunk[c]), FALSE))]

\* What a call that is given up leaves: an error for every node it was made
\* for, or for the for_each node as a whole.
Failed(c) ==
  [results EXCEPT ![c] =
     IF work[c].kind = "fan_out" THEN Append(@, Result(c, FALSE))
     ELSE @ \o [i \in DOMAIN chunk[c] |-> Result(chunk[c][i], FALSE)]]

\* The attempt fails: call_with_policy and call_batch_with_policy sleep and
\* try again, or give up.
Fail(c) ==
  /\ At(c, "call")
  /\ LET e == work[c].effects
     IN  \E error \in Errors \cup (IF e.timeout THEN {TimedOut} ELSE {}) :
           IF attempt[c] >= MaxAttempts(e) \/ ~IsRetryable(e, error)
           THEN /\ results' = Failed(c)
                /\ Goto(c, EndLabel(c))
                /\ UNCHANGED delay
           ELSE /\ delay' \in {[delay EXCEPT ![c] = ms] : ms \in Backoffs(e, attempt[c])}
                /\ Goto(c, "sleep")
                /\ UNCHANGED results
  /\ UNCHANGED <<vars, work, cache, todo, pending, width, chunk, acted, attempt,
                 received, values, performed>>

TryAgain(c) ==
  /\ At(c, "sleep")
  /\ attempt' = [attempt EXCEPT ![c] = @ + 1]
  /\ acted' = [acted EXCEPT ![c] = {}]
  /\ delay' = [delay EXCEPT ![c] = 0]
  /\ Goto(c, "call")
  /\ UNCHANGED <<vars, work, cache, todo, pending, width, chunk, received, values,
                 results, performed>>

\* One output is stored and reported.  An entry the answer leaves out fails:
\* its node in a batch group, the whole for_each node in a fan-out.
Store(c) ==
  /\ At(c, "store") /\ chunk[c] # <<>>
  /\ LET e == Head(chunk[c])
         k == EntryKey(c, e)
         fan == work[c].kind = "fan_out"
         there == e \in DOMAIN received[c]
     IN  /\ cache' = IF there /\ k # NoKey THEN [cache EXCEPT ![k] = received[c][e]] ELSE cache
         /\ values' = IF there THEN [values EXCEPT ![c] = Put(@, e, received[c][e])] ELSE values
         /\ results' = IF there /\ fan THEN results
                       ELSE [results EXCEPT ![c] = Append(@, Result(IF fan THEN c ELSE e, there))]
         /\ Goto(c, IF fan /\ ~there THEN "done" ELSE "store")
  /\ chunk' = [chunk EXCEPT ![c] = Tail(@)]
  /\ UNCHANGED <<vars, work, todo, pending, width, acted, attempt, delay, received, performed>>

----------------------------------------------------------------------------
(* The end of a task.                                                      *)

\* Mutant of Leave: the slot and its lock go in one step.
LeaveAtOnce(c) ==
  /\ At(c, "leave")
  /\ inflight' = [inflight EXCEPT ![using[c].key] = Left(@)]
  /\ phase' = [phase EXCEPT ![c] = "idle"]
  /\ using' = [using EXCEPT ![c] = Nothing]
  /\ UNCHANGED lost
  /\ Goto(c, "done")
  /\ UNCHANGED <<work, cache, todo, pending, width, chunk, acted, attempt, delay,
                 received, values, results, performed>>

\* dispatch_single returns: its guard leaves the table, then the lock.
Leave(c) ==
  /\ At(c, "leave")
  /\ DropGuard(c)
  /\ UNCHANGED <<work, taskVars>>

Release(c) ==
  /\ Unlock(c)
  /\ pc' = [pc EXCEPT ![c] = IF @ = "aborted" THEN @ ELSE "done"]
  /\ UNCHANGED <<work, cache, todo, pending, width, chunk, acted, attempt, delay,
                 received, values, results, performed>>

\* The tool panics: the outcome of the task is lost and panicked_outcome
\* fails every member of the unit.  The guard is dropped by the unwinding.
Panic(c) ==
  /\ At(c, "call")
  /\ results' = [results EXCEPT ![c] =
       SetToSeq({Result(n, FALSE) : n \in NodesOf(c)})]
  /\ Goto(c, EndLabel(c))
  /\ UNCHANGED <<vars, work, cache, todo, pending, width, chunk, acted, attempt, delay,
                 received, values, performed>>

\* External: the future of the run is dropped and the task with it, at any
\* of its awaits.
Abort(c) ==
  /\ pc[c] \in {"acquire", "lookup", "call", "sleep", "store"}
  /\ IF phase[c] = "waiting" THEN AcquireDropped(c)
     ELSE IF phase[c] = "executing" THEN DropGuard(c) ELSE UNCHANGED vars
  /\ Goto(c, "aborted")
  /\ UNCHANGED <<work, cache, todo, pending, width, chunk, acted, attempt, delay,
                 received, values, results, performed>>

----------------------------------------------------------------------------
TaskInit ==
  /\ Init
  /\ work \in Workloads
  /\ pc = [c \in Caller |-> IF work[c].kind = "idle" THEN "done" ELSE "start"]
  /\ cache = [k \in Key |-> NoEntry]
  /\ todo = [c \in Caller |-> <<>>] /\ pending = [c \in Caller |-> <<>>]
  /\ width = [c \in Caller |-> 0]
  /\ chunk = [c \in Caller |-> <<>>] /\ acted = [c \in Caller |-> {}]
  /\ attempt = [c \in Caller |-> 0] /\ delay = [c \in Caller |-> 0]
  /\ received = [c \in Caller |-> <<>>] /\ values = [c \in Caller |-> <<>>]
  /\ results = [c \in Caller |-> <<>>]
  /\ performed = [e \in Entry |-> 0]

TaskStep(c) ==
  \/ Begin(c) \/ Acquire(c) \/ LookUp(c) \/ NextCall(c)
  \/ Answer(c) \/ Fail(c) \/ Panic(c) \/ TryAgain(c) \/ Store(c) \/ Leave(c) \/ Release(c)

\* The join set is empty.
AllEnded ==
  /\ \A c \in Caller : pc[c] \in {"done", "aborted"} /\ phase[c] = "idle"
  /\ UNCHANGED allVars

TaskNext ==
  \/ AllEnded
  \/ \E c \in Caller : TaskStep(c) \/ Locks(c) \/ Abort(c) \/ \E e \in Entry : Act(c, e)

\* Every call returns, fails, times out or panics, a task goes on, and the
\* lock of a slot serves its waiters in order.
TaskSpec ==
  /\ TaskInit /\ [][TaskNext]_allVars
  /\ \A c \in Caller : WF_allVars(TaskStep(c)) /\ SF_allVars(Locks(c))

----------------------------------------------------------------------------
(* Properties.                                                             *)

\* Retries (policy.rs:31-38, 111): the effect of a call happens once for a
\* tool that is neither idempotent nor pure, however the call ends, and never
\* more often than the retry policy allows.
EffectsBounded ==
  \A c \in Caller : \A e \in ToSet(work[c].entries) :
    LET f == work[c].effects
    IN  /\ ~(f.idempotent \/ f.pure) => performed[e] <= 1
        /\ performed[e] <= Larger(1, IF f.retry = None THEN 1 ELSE f.retry.max_attempts)

\* A value that is reported, or kept in the cache, is the tool's answer to
\* that call or to one with the same key; a tool that is not cacheable leaves
\* nothing in the cache and takes nothing from it.
AnswersMatch ==
  /\ \A c \in Caller : \A e \in DOMAIN values[c] :
       \/ values[c][e] = e
       \/ EntryKey(c, e) = KeyOf[values[c][e]]
  /\ \A k \in Key : cache[k] # NoEntry =>
       /\ KeyOf[cache[k]] = k
       /\ performed[cache[k]] > 0
       /\ \E c \in Caller : cache[k] \in ToSet(work[c].entries) /\
            (work[c].effects.pure \/ work[c].effects.cacheable)

\* What the engine's absorb relies on: a task that ends reports every node of
\* its unit once, and a node has succeeded only when all of its calls have a
\* value.
OneResultEach ==
  \A c \in Caller : At(c, "done") /\ work[c].kind # "idle" =>
    /\ Len(results[c]) = Cardinality(NodesOf(c))
    /\ {results[c][i].node : i \in DOMAIN results[c]} = NodesOf(c)
    /\ \A i \in DOMAIN results[c] : results[c][i].ok =>
         IF work[c].kind = "fan_out" THEN DOMAIN values[c] = ToSet(work[c].entries)
         ELSE results[c][i].node \in DOMAIN values[c]

\* The tasks take the steps of SingleFlight, which its theorems are about.
ImplementsSingleFlight == Init /\ [][Next]_vars

\* Every task ends, whatever its calls do and whoever is dropped while it
\* waits for its turn.
TasksEnd == \A c \in Caller : <>[](pc[c] \in {"done", "aborted"} /\ phase[c] = "idle")

\* RetryPolicy::backoff_ms (effects.rs:107-108): "plus jitter, capped at 5
\* seconds".
BackoffCapped == \A c \in Caller : delay[c] <= 5000
=============================================================================
