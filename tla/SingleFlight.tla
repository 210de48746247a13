---------------------------- MODULE SingleFlight ----------------------------
(***************************************************************************)
(* Single flight (crates/tool-compiler-runtime/src/policy.rs): callers of  *)
(* one cache key take turns, so that the later ones find the result of the *)
(* first in the cache.  A table maps each key in flight to a slot with a   *)
(* lock and a count of the callers that use it; the last one removes the   *)
(* slot, and the next caller of the key makes a new one with a new lock.   *)
(*                                                                         *)
(* acquire registers with the slot and then awaits its lock.  Its future   *)
(* may be dropped there: the tasks of a run are aborted when the run's     *)
(* own future is dropped.  Dropping a guard first updates the table and    *)
(* only then, with its last field, releases the lock.                      *)
(***************************************************************************)
EXTENDS Naturals, FiniteSets

CONSTANTS Caller, Key,
          Lock,       \* identities of Arc<Mutex<()>>
          NoSlot,     \* the table has no slot for a key
          Nothing,    \* a caller that uses no key
          MaxLost     \* bound on dropped acquires, per key

\* Finitely many callers, and the absent values are distinct from the others.
ASSUME FlightAssumption ==
  /\ IsFiniteSet(Caller)
  /\ NoSlot \notin [lock: Lock, guards: Nat]
  /\ Nothing \notin [key: Key, lock: Lock]
  /\ MaxLost \in Nat

VARIABLES inflight,   \* [Key -> Slot], NoSlot when absent
          phase,      \* [Caller -> where it is]
          using,      \* [Caller -> the key and lock it registered with]
          lost        \* [Key -> how many acquires were dropped while waiting]

vars == <<inflight, phase, using, lost>>

Registered(k) ==
  {c \in Caller : phase[c] \in {"waiting", "executing"} /\ using[c].key = k}

\* Who has the lock: executing, or past the table update of its drop.
Owners(l) ==
  {c \in Caller : phase[c] \in {"executing", "dropping"} /\ using[c].lock = l}

\* A lock nobody refers to, as Arc::new returns it.
Fresh(l) ==
  /\ \A k \in Key : inflight[k] # NoSlot => inflight[k].lock # l
  /\ \A c \in Caller : phase[c] # "idle" => using[c].lock # l

\* Mutant of Enter: callers are not counted before they have the lock.
EnterUncounted(c, k, slot) ==
  /\ inflight' = [inflight EXCEPT ![k] =
       [slot EXCEPT !.guards = IF @ = 0 THEN 1 ELSE @]]
  /\ using' = [using EXCEPT ![c] = [key |-> k, lock |-> slot.lock]]
  /\ phase' = [phase EXCEPT ![c] = "waiting"]
  /\ UNCHANGED lost

\* acquire counts the caller in the slot and takes a reference to its lock.
Enter(c, k, slot) ==
  /\ inflight' = [inflight EXCEPT ![k] = [slot EXCEPT !.guards = @ + 1]]
  /\ using' = [using EXCEPT ![c] = [key |-> k, lock |-> slot.lock]]
  /\ phase' = [phase EXCEPT ![c] = "waiting"]
  /\ UNCHANGED lost

\* acquire, up to its await, when the key is in flight ...
JoinSlot(c, k) ==
  /\ phase[c] = "idle" /\ inflight[k] # NoSlot
  /\ Enter(c, k, inflight[k])

\* ... and when it is not.
NewSlot(c, k) ==
  /\ phase[c] = "idle" /\ inflight[k] = NoSlot
  /\ \E l \in Lock : Fresh(l) /\ Enter(c, k, [lock |-> l, guards |-> 0])

\* The await of lock_owned returns.
Locked(c) ==
  /\ phase[c] = "waiting"
  /\ Owners(using[c].lock) = {}
  /\ phase' = [phase EXCEPT ![c] = "executing"]
  /\ UNCHANGED <<inflight, using, lost>>

Left(slot) ==
  IF slot.guards = 1 THEN NoSlot ELSE [slot EXCEPT !.guards = @ - 1]

\* SingleFlightGuard::drop, when the call has ended or was aborted ...
DropGuard(c) ==
  /\ phase[c] = "executing"
  /\ inflight' = [inflight EXCEPT ![using[c].key] =
       IF @ = NoSlot THEN @ ELSE Left(@)]
  /\ phase' = [phase EXCEPT ![c] = "dropping"]
  /\ UNCHANGED <<using, lost>>

\* Mutant of Unlock: the lock is never given back.
UnlockNever(c) == phase[c] = "dropping" /\ UNCHANGED vars

\* ... and then its field _permit.
Unlock(c) ==
  /\ phase[c] = "dropping"
  /\ phase' = [phase EXCEPT ![c] = "idle"]
  /\ using' = [using EXCEPT ![c] = Nothing]
  /\ UNCHANGED <<inflight, lost>>

\* The future of acquire is dropped while it waits: there is no guard yet.
AcquireDropped(c) ==
  /\ phase[c] = "waiting" /\ lost[using[c].key] < MaxLost
  /\ lost' = [lost EXCEPT ![using[c].key] = @ + 1]
  /\ phase' = [phase EXCEPT ![c] = "idle"]
  /\ using' = [using EXCEPT ![c] = Nothing]
  /\ UNCHANGED inflight

Init ==
  /\ inflight = [k \in Key |-> NoSlot]
  /\ phase = [c \in Caller |-> "idle"]
  /\ using = [c \in Caller |-> Nothing]
  /\ lost = [k \in Key |-> 0]

Next ==
  \E c \in Caller :
    \/ \E k \in Key : JoinSlot(c, k) \/ NewSlot(c, k)
    \/ Locked(c) \/ DropGuard(c) \/ Unlock(c) \/ AcquireDropped(c)

\* Calls return or time out, guards are dropped, and the lock is fair: tokio
\* serves waiters in order, so one that waits while the lock becomes free
\* again and again gets it.
Spec ==
  /\ Init /\ [][Next]_vars
  /\ \A c \in Caller : /\ WF_vars(DropGuard(c)) /\ WF_vars(Unlock(c))
                       /\ SF_vars(Locked(c))

----------------------------------------------------------------------------
(* Properties.                                                             *)

\* Type invariant of the table (policy.rs:187-195) and its callers.
FlightTypeOK ==
  /\ inflight \in [Key -> [lock: Lock, guards: Nat] \cup {NoSlot}]
  /\ phase \in [Caller -> {"idle", "waiting", "executing", "dropping"}]
  /\ using \in [Caller -> [key: Key, lock: Lock] \cup {Nothing}]
  /\ lost \in [Key -> Nat]
  /\ \A c \in Caller : phase[c] # "idle" => using[c] # Nothing

\* A slot counts the callers that wait for its lock or execute (policy.rs:206
\* and 234-237), dropped acquires included: it is there as long as one of
\* them needs it, and all callers of a key share one lock.
SlotsMatchCallers ==
  \A k \in Key :
    IF inflight[k] = NoSlot
    THEN Registered(k) = {} /\ lost[k] = 0
    ELSE /\ inflight[k].guards = Cardinality(Registered(k)) + lost[k]
         /\ inflight[k].guards > 0
         /\ \A c \in Registered(k) : using[c].lock = inflight[k].lock

\* "the first caller executes while later callers wait" (policy.rs:180-181):
\* a key is executed by one caller at a time, although slots and their locks
\* come and go, and although a lock is released after its slot has gone.
OneExecution ==
  \A c, d \in Caller :
    phase[c] = "executing" /\ phase[d] = "executing" /\ c # d =>
      using[c].key # using[d].key

\* "the table only ever holds keys that are actually in flight (a long-lived
\* runtime does not accumulate one entry per distinct call)" (policy.rs:183-185).
OnlyKeysInFlight == \A k \in Key : inflight[k] # NoSlot => Registered(k) # {}

\* Every caller that waits gets its turn, or is dropped (policy.rs:209).
EveryCallerServed ==
  \A c \in Caller : phase[c] = "waiting" ~> phase[c] # "waiting"
=============================================================================
