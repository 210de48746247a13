---------------------------- MODULE SharedCache ----------------------------
(***************************************************************************)
(* Runs that share a Runtime, and so its tool cache and its single flight, *)
(* but not a lock table: how reads come from the cache, calls fill it and  *)
(* writes invalidate it (dispatch.rs, fanout.rs and absorb of              *)
(* scheduler.rs).                                                          *)
(*                                                                         *)
(* The parts appear by what they guarantee: within a run two nodes overlap *)
(* only if can_run_with allows it (LockTable, EffectExclusion), one caller *)
(* at a time executes a key (SingleFlight, OneExecution), and the cache    *)
(* may lose entries but drops every one that reads a written resource      *)
(* (MemoryCache, NoStaleEntry).                                            *)
(*                                                                         *)
(* What tools read and write is a version number per resource; an output   *)
(* is the versions its call has seen.                                      *)
(*                                                                         *)
(* What a call touches and what the plan knows of it are two things.       *)
(* Effects are resolved when the plan is validated: a template whose       *)
(* placeholder is a reference or an item stays a resource of its own.      *)
(* Locks, entries and invalidation go by these.  The cache key holds the   *)
(* input of the call itself, with references and items filled in.  An item *)
(* of a fan-out is a node here.                                            *)
(***************************************************************************)
EXTENDS EffectRules, Naturals

CONSTANTS Node, ToolOf,
          Declared,     \* [Node -> Effects], as validation resolves them
          Touched,      \* [Node -> the resources its call reads and writes]
          RunOf,        \* [Node -> the run it belongs to]
          Key,          \* cache keys
          KeyOf,        \* [Node -> Key], NoKey when the tool is not cacheable
          NoKey, NoEntry,
          Unguarded,    \* nodes that look up without single flight: members
                        \* of batch groups and fan-outs
          LateFailures  \* whether a call may fail after it took effect

\* Cacheable nodes have a key, and declarations are not contradictory.  Calls
\* with one key are calls of one tool with one input, and read the same
\* resources; what was resolved for them may differ.
ASSUME SharedAssumption ==
  /\ ToolOf \in [Node -> Tool]
  /\ Declared \in [Node -> Effects]
  /\ \A n \in Node : ~IsContradictory(Declared[n])
  /\ NoKey \notin Key
  /\ Touched \in [Node -> [reads: SUBSET Resource, writes: SUBSET Resource]]
  /\ KeyOf \in [Node -> Key \cup {NoKey}]
  /\ \A m, n \in Node : KeyOf[m] = KeyOf[n] /\ KeyOf[n] # NoKey =>
       Touched[m].reads = Touched[n].reads
  /\ NoEntry \notin [seen: [Resource -> Nat], reads: SUBSET Resource]
  /\ Unguarded \subseteq Node
  /\ LateFailures \in BOOLEAN

Effective(n) == ForNode(ToolOf[n], Declared[n])
Reads(n) == Effective(n).reads
Writes(n) == Effective(n).writes

VARIABLES world,   \* [Resource -> version]
          cache,   \* [Key -> entry], NoEntry when absent
          stage,   \* [Node -> how far it is]
          seen,    \* [Node -> [Resource -> version]]: its output
          begun    \* [Node -> [Resource -> version]]: world when it started

vars == <<world, cache, stage, seen, begun>>

Entry == [seen: [Resource -> Nat], reads: SUBSET Resource]
Active == {"started", "calling", "performed", "returned", "failing"}
Advance(n, to) == stage' = [stage EXCEPT ![n] = to]

\* Mutant of MayOverlap: the lock table lets everybody in.
MayOverlapAlways(m, n) == TRUE
MayOverlap(m, n) == CanRunWith(Effective(m), Effective(n))

\* The scheduler of the node's run admits it.
Start(n) ==
  /\ stage[n] = "pending"
  /\ \A m \in Node : RunOf[m] = RunOf[n] /\ stage[m] \in Active => MayOverlap(m, n)
  /\ Advance(n, "started")
  /\ begun' = [begun EXCEPT ![n] = world]
  /\ UNCHANGED <<world, cache, seen>>

\* SingleFlight::acquire: the guard is held until the result is stored.
Executing(m) == m \notin Unguarded /\ stage[m] \in {"calling", "performed"}
MayLookUp(n) ==
  n \in Unguarded \/ \A m \in Node : Executing(m) => KeyOf[m] # KeyOf[n]

\* The look-up finds an entry.
Hit(n) ==
  /\ stage[n] = "started" /\ KeyOf[n] # NoKey /\ MayLookUp(n)
  /\ cache[KeyOf[n]] # NoEntry
  /\ Advance(n, "returned")
  /\ seen' = [seen EXCEPT ![n] = cache[KeyOf[n]].seen]
  /\ UNCHANGED <<world, cache, begun>>

\* There is none, or the tool is not cacheable: the adapter is called.
Call(n) ==
  /\ stage[n] = "started"
  /\ KeyOf[n] # NoKey => MayLookUp(n) /\ cache[KeyOf[n]] = NoEntry
  /\ Advance(n, "calling")
  /\ UNCHANGED <<world, cache, seen, begun>>

\* The tool does its work, some time between the call and the answer.
Perform(n) ==
  /\ stage[n] = "calling"
  /\ Advance(n, "performed")
  /\ seen' = [seen EXCEPT ![n] = world]
  /\ world' = [r \in Resource |-> IF r \in Touched[n].writes THEN world[r] + 1 ELSE world[r]]
  /\ UNCHANGED <<cache, begun>>

\* The call succeeds and its output is stored, with the reads that were
\* resolved for the node when the plan was validated.
Return(n) ==
  /\ stage[n] = "performed"
  /\ Advance(n, "returned")
  /\ cache' = IF KeyOf[n] = NoKey THEN cache
              ELSE [cache EXCEPT ![KeyOf[n]] = [seen |-> seen[n], reads |-> Reads(n)]]
  /\ UNCHANGED <<world, seen, begun>>

\* The call fails or times out, before or after its effect.
Fail(n) ==
  /\ stage[n] = "calling" \/ (LateFailures /\ stage[n] = "performed")
  /\ Advance(n, "failing")
  /\ UNCHANGED <<world, cache, seen, begun>>

\* Mutant of Invalidates: only entries that read nothing else are dropped.
InvalidatesExact(entry, written) == entry.reads # {} /\ entry.reads \subseteq written
Invalidates(entry, written) == ~Disjoint(entry.reads, written)

\* The run joins the task: locks are released and, if it succeeded, cached
\* reads of what it wrote are dropped before anything else is scheduled.
Join(n) ==
  /\ stage[n] = "returned"
  /\ Advance(n, "ok")
  /\ cache' = [k \in Key |->
       IF cache[k] # NoEntry /\ Invalidates(cache[k], Writes(n))
       THEN NoEntry ELSE cache[k]]
  /\ UNCHANGED <<world, seen, begun>>

JoinFailed(n) ==
  /\ stage[n] = "failing"
  /\ Advance(n, "failed")
  /\ UNCHANGED <<world, cache, seen, begun>>

\* Eviction or expiry.
Lose(k) ==
  /\ cache[k] # NoEntry
  /\ cache' = [cache EXCEPT ![k] = NoEntry]
  /\ UNCHANGED <<world, stage, seen, begun>>

Init ==
  /\ world = [r \in Resource |-> 0]
  /\ cache = [k \in Key |-> NoEntry]
  /\ stage = [n \in Node |-> "pending"]
  /\ seen = [n \in Node |-> [r \in Resource |-> 0]]
  /\ begun = [n \in Node |-> [r \in Resource |-> 0]]

Next ==
  \/ \E n \in Node : \/ Start(n) \/ Hit(n) \/ Call(n) \/ Perform(n)
                     \/ Return(n) \/ Fail(n) \/ Join(n) \/ JoinFailed(n)
  \/ \E k \in Key : Lose(k)

Spec == Init /\ [][Next]_vars

----------------------------------------------------------------------------
(* Properties.                                                             *)

\* Type invariant of the cache and of the calls (dispatch.rs:51-70).
SharedTypeOK ==
  /\ world \in [Resource -> Nat]
  /\ cache \in [Key -> Entry \cup {NoEntry}]
  /\ stage \in [Node -> Active \cup {"pending", "ok", "failed"}]
  /\ seen \in [Node -> [Resource -> Nat]]
  /\ begun \in [Node -> [Resource -> Nat]]

\* A resource is accounted for when every node whose call touches it has it in
\* its resolved effects: no undeclared access, and no template that was left
\* unresolved because its placeholder is a reference or an item.
Accounted(r) ==
  \A n \in Node : /\ r \in Touched[n].reads => r \in Reads(n)
                  /\ r \in Touched[n].writes => r \in Writes(n)

\* Cached reads are coherent with writes (cache.rs:43-45): unless a writer of
\* the resource has acted and is not joined yet, an entry has the present
\* version of every resource that calls with its key read, if the resource is
\* accounted for.
Coherent ==
  \A n \in Node : KeyOf[n] # NoKey /\ cache[KeyOf[n]] # NoEntry =>
    \A r \in Touched[n].reads : Accounted(r) =>
      \/ cache[KeyOf[n]].seen[r] = world[r]
      \/ \E m \in Node : /\ r \in Touched[m].writes
                         /\ stage[m] \in {"performed", "returned", "failing"}

\* "later reads re-execute instead of observing pre-write values"
\* (scheduler.rs:377-379), as far as it goes: what a node reads, from the cache
\* or by a call, is no older than what was there when the node was started, for
\* resources that are accounted for.
FreshReads ==
  \A n \in Node : stage[n] \in {"returned", "ok"} =>
    \A r \in Touched[n].reads : Accounted(r) => seen[n][r] >= begun[n][r]

\* The sentence of scheduler.rs:377-379 as it stands, for everything a node is
\* known to read.  The code breaks it within one run: an entry stored for a read
\* whose template was unresolved records the template, a write of the file it
\* turned into does not drop it, and a later call with the same input is served
\* from it.
NeverPreWrite ==
  \A n \in Node : stage[n] \in {"returned", "ok"} =>
    \A r \in Reads(n) : seen[n][r] >= begun[n][r]
=============================================================================
