---------------------------- MODULE MemoryCache ----------------------------
(***************************************************************************)
(* The in-memory tool cache (crates/tool-compiler-runtime/src/cache.rs):   *)
(* entries, an index from resources to the keys that read them, and an     *)
(* index from ticks of a logical clock to keys for least-recently-used     *)
(* eviction.                                                               *)
(*                                                                         *)
(* A mutex makes every operation atomic.  insert is split only so that its *)
(* eviction loop is a loop: while inserting is set the mutex is held.      *)
(* Outputs are left out, they travel with their entry.  Time is measured   *)
(* by the clock: horizon is the last tick that lies further back than the  *)
(* time-to-live.                                                           *)
(***************************************************************************)
EXTENDS Naturals, FiniteSets

CONSTANTS Key, Resource,
          NoKey,       \* no key: an empty tick, or no insert going on
          NoEntry,     \* no entry for a key
          Configured,  \* values of max_entries given to with_limits
          MaxClock     \* bound on the clock

\* max_entries is a usize, and the absent values are no keys or entries.
ASSUME CacheAssumption ==
  /\ IsFiniteSet(Key)
  /\ NoKey \notin Key
  /\ Configured \subseteq Nat
  /\ MaxClock \in Nat

Tick == 0 .. MaxClock
Entry == [reads: SUBSET Resource, inserted: Tick, last_used: Tick]

ASSUME NoEntryAssumption == NoEntry \notin Entry

VARIABLES entries,      \* [Key -> Entry], NoEntry when absent
          by_resource,  \* [Resource -> SUBSET Key], {} when absent
          lru,          \* [Tick -> Key], NoKey when absent
          clock,
          max_entries,
          horizon,      \* entries inserted up to this tick have expired
          inserting,    \* the insert inside its eviction loop
          outdated      \* keys last stored before a write to what they read

indexes == <<entries, by_resource, lru>>
vars == <<indexes, clock, max_entries, horizon, inserting, outdated>>

Live == {k \in Key : entries[k] # NoEntry}
NoInsert == [key |-> NoKey, reads |-> {}]
Idle == inserting = NoInsert

----------------------------------------------------------------------------

\* Mutant of Clamped: a limit of zero is taken as it is.
Unclamped(n) == n

\* with_limits.
Clamped(n) == IF n = 0 THEN 1 ELSE n

\* Mutant of RemoveKeys: the entry stays in the eviction index.
RemoveKeysKeepingTicks(K) ==
  /\ entries' = [k \in Key |-> IF k \in K THEN NoEntry ELSE entries[k]]
  /\ by_resource' = [r \in Resource |->
       by_resource[r] \ {k \in K \cap Live : r \in entries[k].reads}]
  /\ UNCHANGED lru

\* Inner::remove, for every key of K.
RemoveKeys(K) ==
  /\ entries' = [k \in Key |-> IF k \in K THEN NoEntry ELSE entries[k]]
  /\ lru' = [t \in Tick |->
       IF \E k \in K \cap Live : entries[k].last_used = t THEN NoKey ELSE lru[t]]
  /\ by_resource' = [r \in Resource |->
       by_resource[r] \ {k \in K \cap Live : r \in entries[k].reads}]

\* The first statements of get and insert.
Begin ==
  /\ Idle /\ clock < MaxClock
  /\ clock' = clock + 1

GetMiss(k) ==
  /\ Begin /\ k \notin Live
  /\ UNCHANGED <<indexes, max_entries, horizon, inserting, outdated>>

GetExpired(k) ==
  /\ Begin /\ k \in Live /\ entries[k].inserted <= horizon
  /\ RemoveKeys({k})
  /\ UNCHANGED <<max_entries, horizon, inserting, outdated>>

GetHit(k) ==
  /\ Begin /\ k \in Live /\ entries[k].inserted > horizon
  /\ lru' = [lru EXCEPT ![entries[k].last_used] = NoKey, ![clock + 1] = k]
  /\ entries' = [entries EXCEPT ![k].last_used = clock + 1]
  /\ UNCHANGED <<by_resource, max_entries, horizon, inserting, outdated>>

InsertBegin(k, reads) ==
  /\ Begin
  /\ RemoveKeys({k})
  /\ inserting' = [key |-> k, reads |-> reads]
  /\ UNCHANGED <<max_entries, horizon, outdated>>

\* Mutant of Oldest: the newest tick.
Newest(t) == lru[t] # NoKey /\ \A s \in Tick : lru[s] # NoKey => s <= t

\* pop_first: the oldest tick of the eviction index.
Oldest(t) == lru[t] # NoKey /\ \A s \in Tick : lru[s] # NoKey => t <= s

\* evict_least_recently_used, inside the loop of insert; it does nothing when
\* the eviction index is empty.
Evict ==
  /\ ~Idle /\ Cardinality(Live) >= max_entries
  /\ IF \A t \in Tick : lru[t] = NoKey THEN UNCHANGED indexes ELSE
     \E t \in Tick :
       /\ Oldest(t)
       /\ lru' = [lru EXCEPT ![t] = NoKey]
       /\ entries' = [entries EXCEPT ![lru[t]] = NoEntry]
       /\ by_resource' = [r \in Resource |->
            IF lru[t] \in Live /\ r \in entries[lru[t]].reads
            THEN by_resource[r] \ {lru[t]} ELSE by_resource[r]]
  /\ UNCHANGED <<clock, max_entries, horizon, inserting, outdated>>

\* Mutant of InsertEnd: the resources read are not indexed.
InsertEndUnindexed ==
  /\ ~Idle /\ Cardinality(Live) < max_entries
  /\ lru' = [lru EXCEPT ![clock] = inserting.key]
  /\ entries' = [entries EXCEPT ![inserting.key] =
       [reads |-> inserting.reads, inserted |-> clock, last_used |-> clock]]
  /\ inserting' = NoInsert
  /\ outdated' = outdated \ {inserting.key}
  /\ UNCHANGED <<by_resource, clock, max_entries, horizon>>

\* The rest of insert.
InsertEnd ==
  /\ ~Idle /\ Cardinality(Live) < max_entries
  /\ by_resource' = [r \in Resource |->
       IF r \in inserting.reads THEN by_resource[r] \cup {inserting.key}
                                ELSE by_resource[r]]
  /\ lru' = [lru EXCEPT ![clock] = inserting.key]
  /\ entries' = [entries EXCEPT ![inserting.key] =
       [reads |-> inserting.reads, inserted |-> clock, last_used |-> clock]]
  /\ inserting' = NoInsert
  /\ outdated' = outdated \ {inserting.key}
  /\ UNCHANGED <<clock, max_entries, horizon>>

\* invalidate_reads.
InvalidateReads(written) ==
  /\ Idle
  /\ RemoveKeys(UNION {by_resource[r] : r \in written})
  /\ outdated' = outdated \cup
       {k \in Live : entries[k].reads \cap written # {}}
  /\ UNCHANGED <<clock, max_entries, horizon, inserting>>

\* clear; the clock goes on.
Clear ==
  /\ Idle
  /\ entries' = [k \in Key |-> NoEntry]
  /\ by_resource' = [r \in Resource |-> {}]
  /\ lru' = [t \in Tick |-> NoKey]
  /\ UNCHANGED <<clock, max_entries, horizon, inserting, outdated>>

\* Instant::elapsed moves past the time-to-live of further entries.
TimePasses ==
  /\ Idle /\ horizon < clock
  /\ horizon' = horizon + 1
  /\ UNCHANGED <<indexes, clock, max_entries, inserting, outdated>>

----------------------------------------------------------------------------

Init ==
  /\ entries = [k \in Key |-> NoEntry]
  /\ by_resource = [r \in Resource |-> {}]
  /\ lru = [t \in Tick |-> NoKey]
  /\ clock = 0
  /\ max_entries \in {Clamped(n) : n \in Configured}
  /\ horizon = 0
  /\ inserting = NoInsert
  /\ outdated = {}

Next ==
  \/ \E k \in Key :
       \/ GetMiss(k) \/ GetExpired(k) \/ GetHit(k)
       \/ \E reads \in SUBSET Resource : InsertBegin(k, reads)
  \/ Evict \/ InsertEnd
  \/ \E written \in SUBSET Resource : InvalidateReads(written)
  \/ Clear \/ TimePasses

\* The thread inside insert runs on; nothing else has to happen.
Spec == Init /\ [][Next]_vars /\ WF_vars(Evict \/ InsertEnd)

----------------------------------------------------------------------------
(* Properties.                                                             *)

\* Type invariant of Inner (cache.rs:72-86); while an insert is under way its
\* key has no entry and no entry has its tick.
CacheTypeOK ==
  /\ entries \in [Key -> Entry \cup {NoEntry}]
  /\ by_resource \in [Resource -> SUBSET Key]
  /\ lru \in [Tick -> Key \cup {NoKey}]
  /\ clock \in Tick
  /\ max_entries \in Nat
  /\ horizon \in Nat
  /\ inserting \in [key: Key \cup {NoKey}, reads: SUBSET Resource]
  /\ outdated \subseteq Key
  /\ ~Idle => inserting.key \in Key

\* The three indexes agree (cache.rs:72-79) through every sequence of hits,
\* replacements, evictions, expiries and invalidations, and "ticks are unique":
\* a resource lists exactly the entries that read it, a tick the one entry
\* last used then, and the tick of a running insert is free.
IndexesAgree ==
  /\ \A r \in Resource : by_resource[r] = {k \in Live : r \in entries[k].reads}
  /\ \A t \in Tick, k \in Key :
       lru[t] = k <=> k \in Live /\ entries[k].last_used = t
  /\ \A k \in Live : /\ entries[k].last_used <= clock
                     /\ ~Idle => k # inserting.key /\ entries[k].last_used < clock

\* "LRU eviction" (cache.rs:60) at the limit: the cache never holds more than
\* max_entries, also when replacing entries and when the limit given was zero.
WithinCapacity == Cardinality(Live) <= max_entries

\* "drop every entry whose reads intersect a written resource" (cache.rs:38-39
\* and 55): an entry that was stored before a write to something it reads is
\* gone for good, whatever happened to the indexes in between.
NoStaleEntry == Live \cap outdated = {}

\* Eviction takes the entry that was used longest ago (cache.rs:76-77), as
\* recorded in the entries themselves and not in the index.
EvictsOldest ==
  [][~Idle /\ ~Idle' =>
       \A k \in Live \ Live', j \in Live' :
         entries[k].last_used < entries[j].last_used]_vars

\* The eviction loop of insert (cache.rs:191-193) ends.
InsertEnds == ~Idle ~> Idle
=============================================================================
