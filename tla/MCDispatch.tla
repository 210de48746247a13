----------------------------- MODULE MCDispatch -----------------------------
(* Workloads of three tasks that meet in the cache and in single flight.   *)
EXTENDS Dispatch

CONSTANTS c1, c2, c3, e1, e2, e3, e4, k1, k2

MCCaller == {c1, c2, c3}
MCEntry == {e1, e2, e3, e4}
MCKey == {k1, k2}
\* e1, e2 and e4 are calls of one tool with one input.
MCKeyOf == (e1 :> k1) @@ (e2 :> k1) @@ (e3 :> k2) @@ (e4 :> k1)

\* A verdict of the adapter, a code on the retry list, and one that is not.
MCErrors ==
  {[code |-> "unavailable", retryable |-> None], [code |-> "denied", retryable |-> None],
   [code |-> "denied", retryable |-> TRUE], [code |-> "unavailable", retryable |-> FALSE]}

Twice == [max_attempts |-> 2, retryable_errors |-> {"unavailable", "timeout"}, backoff_ms |-> 5000]
Zero == [max_attempts |-> 0, retryable_errors |-> {}, backoff_ms |-> 100]

Declares(pure, idempotent, cacheable, timeout, retry) ==
  [pure |-> pure, idempotent |-> idempotent, cacheable |-> cacheable,
   timeout |-> timeout, retry |-> retry]
PureTool == Declares(TRUE, FALSE, FALSE, TRUE, Twice)
Idempotent == Declares(FALSE, TRUE, FALSE, TRUE, Twice)
CachedOnce == Declares(FALSE, FALSE, TRUE, TRUE, Zero)
Effectful == Declares(FALSE, FALSE, FALSE, TRUE, Twice)

Unit(kind, entries, effects) ==
  [kind |-> kind, entries |-> entries, invalid |-> {}, use_cache |-> TRUE,
   batchable |-> FALSE, batch_size |-> 1, effects |-> effects]
Batched(unit, size) == [unit EXCEPT !.batchable = TRUE, !.batch_size = size]
Idle == Unit("idle", <<>>, Effectful)
Tasks(a, b, c) == (c1 :> a) @@ (c2 :> b) @@ (c3 :> c)

MCWorkloads ==
  { \* three single calls of one key
    Tasks(Unit("single", <<e1>>, CachedOnce), Unit("single", <<e2>>, CachedOnce),
          Unit("single", <<e4>>, CachedOnce)),
    \* a batch group, a single call and a for_each node share a key
    Tasks(Unit("batch", <<e1, e3>>, PureTool), Unit("single", <<e2>>, PureTool), Idle),
    Tasks(Batched(Unit("fan_out", <<e1, e3>>, CachedOnce), 0),
          Unit("single", <<e2>>, CachedOnce), Idle),
    \* a for_each node in two batches, and one by one
    Tasks(Batched(Unit("fan_out", <<e1, e2, e3>>, Idempotent), 2), Idle, Idle),
    Tasks(Unit("fan_out", <<e1, e2>>, Effectful), Unit("single", <<e3>>, Effectful), Idle),
    \* an item that cannot be filled in, a fan-out of nothing, no cache
    Tasks([Unit("fan_out", <<e1, e2>>, PureTool) EXCEPT !.invalid = {e2}],
          Unit("fan_out", <<>>, PureTool),
          [Unit("single", <<e3>>, PureTool) EXCEPT !.use_cache = FALSE]) }
=============================================================================
