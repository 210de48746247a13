------------------------- MODULE SharedCacheProofs -------------------------
(***************************************************************************)
(* Cache coherence inside one run, for every plan: when all nodes share a  *)
(* lock table and a failed call has had no effect, the cache never serves  *)
(* a value older than the node that asks for it, of any resource that is   *)
(* accounted for.  The model checker refutes it when one of the conditions *)
(* is given up.                                                            *)
(*                                                                         *)
(* The reason is that a node that is known to read a resource overlaps     *)
(* nobody who writes it, if writers are known to write it: what it has     *)
(* seen is still current when it is stored.                                *)
(***************************************************************************)
EXTENDS SharedCache, TLAPS

\* All nodes belong to one run, and calls fail only without effect.
OneRunOnly == (\A m, n \in Node : RunOf[m] = RunOf[n]) /\ ~LateFailures

\* The locks: whatever is active may overlap.
Exclusion ==
  \A m, n \in Node : m # n /\ stage[m] \in Active /\ stage[n] \in Active =>
    MayOverlap(m, n)

\* What a call has seen and not yet stored is current.
SeenIsCurrent ==
  \A n \in Node : stage[n] = "performed" =>
    \A r \in Reads(n) \ Touched[n].writes : Accounted(r) => seen[n][r] = world[r]

\* Versions only grow.
BegunBefore == \A n \in Node, r \in Resource : begun[n][r] <= world[r]

\* A call in progress has seen nothing older than its start.
SeenSinceStart ==
  \A n \in Node : stage[n] \in {"performed", "returned", "ok"} =>
    \A r \in Touched[n].reads : Accounted(r) => seen[n][r] >= begun[n][r]

\* An entry records the reads of a node with its key.
EntriesRecordReads ==
  \A k \in Key : cache[k] # NoEntry =>
    \E m \in Node : KeyOf[m] = k /\ cache[k].reads = Reads(m)

\* Unless its writer has acted and is not joined, a cached version is current.
CacheCurrent ==
  \A k \in Key : cache[k] # NoEntry =>
    \A r \in cache[k].reads : Accounted(r) =>
      \/ cache[k].seen[r] = world[r]
      \/ \E n \in Node : r \in Touched[n].writes /\ stage[n] \in {"performed", "returned"}

SharedInv == /\ SharedTypeOK /\ Exclusion /\ SeenIsCurrent /\ BegunBefore
             /\ SeenSinceStart /\ EntriesRecordReads /\ CacheCurrent

\* can_run_with is symmetric.
LEMMA OverlapSymmetric ==
  \A m, n \in Node : MayOverlap(m, n) => MayOverlap(n, m)
BY DEF MayOverlap, CanRunWith, Disjoint

\* A reader of a resource that is accounted for overlaps no writer of it.
LEMMA ReadersExcludeWriters ==
  ASSUME NEW m \in Node, NEW n \in Node, MayOverlap(m, n), NEW r \in Reads(n), Accounted(r)
  PROVE  r \notin Touched[m].writes
<1>1. CASE Effective(m).pure /\ Effective(n).pure
  <2>1. r \notin Writes(m)
    BY <1>1, SharedAssumption DEF IsContradictory, Effective, ForNode, Writes
  <2> QED
    BY <2>1 DEF Accounted
<1>2. CASE ~(Effective(m).pure /\ Effective(n).pure)
  <2>1. r \notin Writes(m)
    BY <1>2 DEF MayOverlap, CanRunWith, Disjoint, Reads, Writes
  <2> QED
    BY <2>1 DEF Accounted
<1> QED
  BY <1>1, <1>2

\* Resources read and written are resources.
LEMMA ResourceTypes ==
  \A n \in Node : /\ Reads(n) \subseteq Resource /\ Writes(n) \subseteq Resource
                  /\ Touched[n].reads \subseteq Resource /\ Touched[n].writes \subseteq Resource
BY SharedAssumption DEF Reads, Writes, Effective, ForNode, Effects

\* What calls with the key of an entry read is among its recorded reads, as
\* far as it is accounted for.
LEMMA EntryReads ==
  ASSUME EntriesRecordReads, NEW n \in Node, NEW k \in Key, k = KeyOf[n], k # NoKey,
         cache[k] # NoEntry, NEW r \in Touched[n].reads, Accounted(r)
  PROVE  r \in cache[k].reads
<1>1. PICK m \in Node : KeyOf[m] = k /\ cache[k].reads = Reads(m)
  BY DEF EntriesRecordReads
<1>2. Touched[m].reads = Touched[n].reads
  BY <1>1, SharedAssumption
<1> QED
  BY <1>1, <1>2 DEF Accounted

\* Nothing has happened and nothing is cached at first.
LEMMA InitEstablishesSharedInv == Init => SharedInv
<1> SUFFICES ASSUME Init PROVE SharedInv
  OBVIOUS
<1>1. SharedTypeOK
  BY DEF Init, SharedTypeOK
<1>2. Exclusion /\ SeenIsCurrent /\ SeenSinceStart
  BY DEF Init, Exclusion, SeenIsCurrent, SeenSinceStart, Active
<1>3. BegunBefore
  <2> SUFFICES ASSUME NEW n \in Node, NEW r \in Resource
               PROVE  begun[n][r] <= world[r]
    BY DEF BegunBefore
  <2>1. begun[n][r] = 0 /\ world[r] = 0
    BY DEF Init
  <2> QED
    BY <2>1
<1>4. EntriesRecordReads /\ CacheCurrent
  BY DEF Init, EntriesRecordReads, CacheCurrent
<1> QED
  BY <1>1, <1>2, <1>3, <1>4 DEF SharedInv

\* Every step preserves the invariant.
LEMMA NextPreservesSharedInv ==
  ASSUME OneRunOnly
  PROVE  SharedInv /\ [Next]_vars => SharedInv'
<1> SUFFICES ASSUME SharedInv, [Next]_vars PROVE SharedInv'
  OBVIOUS
<1> USE DEF SharedInv
<1>1. CASE UNCHANGED vars
  BY <1>1 DEF vars, SharedTypeOK, Exclusion, SeenIsCurrent, BegunBefore,
              SeenSinceStart, EntriesRecordReads, CacheCurrent
<1>2. ASSUME NEW n \in Node, Start(n) PROVE SharedInv'
  <2>1. /\ stage[n] = "pending" /\ stage' = [stage EXCEPT ![n] = "started"]
        /\ begun' = [begun EXCEPT ![n] = world]
        /\ UNCHANGED <<world, cache, seen>>
    BY <1>2 DEF Start, Advance
  <2>2. \A m \in Node : stage[m] \in Active => MayOverlap(m, n)
    BY <1>2 DEF Start, OneRunOnly
  <2>3. SharedTypeOK'
    BY <2>1 DEF SharedTypeOK, Active
  <2>4. Exclusion'
    BY <2>1, <2>2, OverlapSymmetric DEF Exclusion, SharedTypeOK
  <2>5. SeenIsCurrent' /\ EntriesRecordReads'
    BY <2>1 DEF SeenIsCurrent, EntriesRecordReads, SharedTypeOK
  <2>6. BegunBefore'
    BY <2>1 DEF BegunBefore, SharedTypeOK
  <2>7. SeenSinceStart'
    BY <2>1 DEF SeenSinceStart, SharedTypeOK
  <2>8. CacheCurrent'
    BY <2>1 DEF CacheCurrent, SharedTypeOK
  <2> QED
    BY <2>3, <2>4, <2>5, <2>6, <2>7, <2>8
<1>3. ASSUME NEW n \in Node, Hit(n) PROVE SharedInv'
  <2>0. PICK k \in Key : k = KeyOf[n]
    BY <1>3, SharedAssumption DEF Hit
  <2>1. /\ stage[n] = "started" /\ stage' = [stage EXCEPT ![n] = "returned"]
        /\ seen' = [seen EXCEPT ![n] = cache[k].seen]
        /\ cache[k] # NoEntry /\ KeyOf[n] # NoKey
        /\ UNCHANGED <<world, cache, begun>>
    BY <1>3, <2>0 DEF Hit, Advance
  <2>2. cache[k] \in Entry
    BY <2>1 DEF SharedTypeOK
  <2>3. SharedTypeOK'
    BY <2>1, <2>2 DEF SharedTypeOK, Active, Entry
  <2>4. Exclusion'
    BY <2>1 DEF Exclusion, SharedTypeOK, Active
  <2>5. SeenIsCurrent' /\ EntriesRecordReads' /\ BegunBefore'
    BY <2>1 DEF SeenIsCurrent, EntriesRecordReads, BegunBefore, SharedTypeOK
  <2>6. Touched[n].reads \subseteq Resource
    BY ResourceTypes
  <2>7. ASSUME NEW r \in Touched[n].reads, Accounted(r) PROVE cache[k].seen[r] >= begun[n][r]
    <3>0. r \in Reads(n) /\ r \in cache[k].reads
      BY <2>0, <2>1, <2>7, EntryReads DEF Accounted
    <3>1. \A m \in Node : r \in Touched[m].writes => stage[m] \notin {"performed", "returned"}
      <4> SUFFICES ASSUME NEW m \in Node, r \in Touched[m].writes,
                          stage[m] \in {"performed", "returned"}
                   PROVE  FALSE
        OBVIOUS
      <4>1. m # n /\ stage[m] \in Active /\ stage[n] \in Active
        BY <2>1 DEF Active
      <4>2. MayOverlap(m, n)
        BY <4>1 DEF Exclusion
      <4> QED
        BY <3>0, <4>2, <2>7, ReadersExcludeWriters
    <3>2. cache[k].seen[r] = world[r]
      BY <2>1, <2>7, <3>0, <3>1 DEF CacheCurrent
    <3>3. begun[n][r] <= world[r] /\ begun[n][r] \in Nat /\ world[r] \in Nat
      BY <2>6, <2>7 DEF BegunBefore, SharedTypeOK
    <3> QED
      BY <3>2, <3>3
  <2>8. SeenSinceStart'
    BY <2>1, <2>7 DEF SeenSinceStart, SharedTypeOK
  <2>9. CacheCurrent'
    BY <2>1 DEF CacheCurrent, SharedTypeOK
  <2> QED
    BY <2>3, <2>4, <2>5, <2>8, <2>9
<1>4. ASSUME NEW n \in Node, Call(n) PROVE SharedInv'
  <2>1. /\ stage[n] = "started" /\ stage' = [stage EXCEPT ![n] = "calling"]
        /\ UNCHANGED <<world, cache, seen, begun>>
    BY <1>4 DEF Call, Advance
  <2>2. SharedTypeOK' /\ Exclusion'
    BY <2>1 DEF SharedTypeOK, Exclusion, Active
  <2>3. SeenIsCurrent' /\ EntriesRecordReads' /\ BegunBefore' /\ SeenSinceStart'
    BY <2>1 DEF SeenIsCurrent, EntriesRecordReads, BegunBefore, SeenSinceStart, SharedTypeOK
  <2>4. CacheCurrent'
    BY <2>1 DEF CacheCurrent, SharedTypeOK
  <2> QED
    BY <2>2, <2>3, <2>4
<1>5. ASSUME NEW n \in Node, Perform(n) PROVE SharedInv'
  <2>1. /\ stage[n] = "calling" /\ stage' = [stage EXCEPT ![n] = "performed"]
        /\ seen' = [seen EXCEPT ![n] = world]
        /\ world' = [r \in Resource |-> IF r \in Touched[n].writes THEN world[r] + 1 ELSE world[r]]
        /\ UNCHANGED <<cache, begun>>
    BY <1>5 DEF Perform, Advance
  <2>2. SharedTypeOK'
    BY <2>1 DEF SharedTypeOK, Active
  <2>3. Exclusion'
    BY <2>1 DEF Exclusion, SharedTypeOK, Active
  <2>4. EntriesRecordReads'
    BY <2>1 DEF EntriesRecordReads
  <2>5. \A r \in Resource : world[r] \in Nat /\ world'[r] \in Nat /\ world[r] <= world'[r]
    BY <2>1 DEF SharedTypeOK
  <2>6. BegunBefore'
    <3> SUFFICES ASSUME NEW m \in Node, NEW r \in Resource
                 PROVE  begun'[m][r] <= world'[r]
      BY DEF BegunBefore
    <3>1. begun[m][r] \in Nat /\ begun[m][r] <= world[r]
      BY DEF BegunBefore, SharedTypeOK
    <3> QED
      BY <2>1, <2>5, <3>1
  <2>7. ASSUME NEW m \in Node, stage'[m] = "performed", NEW r \in Reads(m) \ Touched[m].writes,
               Accounted(r)
        PROVE  seen'[m][r] = world'[r]
    <3>1. r \in Resource
      BY <2>7, ResourceTypes
    <3>2. CASE m = n
      BY <2>1, <2>7, <3>1, <3>2 DEF SharedTypeOK
    <3>3. CASE m # n
      <4>1. stage[m] = "performed" /\ seen'[m] = seen[m]
        BY <2>1, <2>7, <3>3 DEF SharedTypeOK
      <4>2. MayOverlap(n, m)
        BY <2>1, <3>3, <4>1 DEF Exclusion, Active
      <4>3. r \notin Touched[n].writes
        BY <2>7, <4>2, ReadersExcludeWriters
      <4>4. seen[m][r] = world[r]
        BY <2>7, <4>1 DEF SeenIsCurrent
      <4> QED
        BY <2>1, <3>1, <4>1, <4>3, <4>4
    <3> QED
      BY <3>2, <3>3
  <2>8. SeenIsCurrent'
    BY <2>7 DEF SeenIsCurrent
  <2>9. SeenSinceStart'
    <3> SUFFICES ASSUME NEW m \in Node, stage'[m] \in {"performed", "returned", "ok"},
                        NEW r \in Touched[m].reads, Accounted(r)
                 PROVE  seen'[m][r] >= begun'[m][r]
      BY DEF SeenSinceStart
    <3>1. r \in Resource
      BY ResourceTypes
    <3>2. CASE m = n
      <4>1. seen'[m][r] = world[r]
        BY <2>1, <3>2 DEF SharedTypeOK
      <4>2. begun[m][r] <= world[r] /\ begun[m][r] \in Nat /\ world[r] \in Nat
        BY <3>1 DEF BegunBefore, SharedTypeOK
      <4> QED
        BY <2>1, <4>1, <4>2
    <3>3. CASE m # n
      BY <2>1, <3>3 DEF SeenSinceStart, SharedTypeOK
    <3> QED
      BY <3>2, <3>3
  <2>10. CacheCurrent'
    <3> SUFFICES ASSUME NEW k \in Key, cache[k] # NoEntry, NEW r \in cache[k].reads, Accounted(r)
                 PROVE  \/ cache[k].seen[r] = world'[r]
                        \/ \E m \in Node : /\ r \in Touched[m].writes
                                           /\ stage'[m] \in {"performed", "returned"}
      BY <2>1 DEF CacheCurrent
    <3>1. r \in Resource
      BY DEF SharedTypeOK, Entry
    <3>2. stage'[n] = "performed"
      BY <2>1 DEF SharedTypeOK
    <3>3. CASE r \in Touched[n].writes
      BY <3>2, <3>3
    <3>4. CASE r \notin Touched[n].writes
      <4>1. world'[r] = world[r]
        BY <2>1, <3>1, <3>4
      <4>2. \A m \in Node : stage[m] \in {"performed", "returned"} =>
                              stage'[m] \in {"performed", "returned"}
        BY <2>1 DEF SharedTypeOK
      <4> QED
        BY <4>1, <4>2 DEF CacheCurrent
    <3> QED
      BY <3>3, <3>4
  <2> QED
    BY <2>2, <2>3, <2>4, <2>6, <2>8, <2>9, <2>10
<1>6. ASSUME NEW n \in Node, Return(n) PROVE SharedInv'
  <2>1. /\ stage[n] = "performed" /\ stage' = [stage EXCEPT ![n] = "returned"]
        /\ cache' = IF KeyOf[n] = NoKey THEN cache
                    ELSE [cache EXCEPT ![KeyOf[n]] = [seen |-> seen[n], reads |-> Reads(n)]]
        /\ UNCHANGED <<world, seen, begun>>
    BY <1>6 DEF Return, Advance
  <2>2. [seen |-> seen[n], reads |-> Reads(n)] \in Entry
    BY ResourceTypes DEF SharedTypeOK, Entry
  <2>3. SharedTypeOK'
    BY <2>1, <2>2, SharedAssumption DEF SharedTypeOK, Active
  <2>4. Exclusion'
    BY <2>1 DEF Exclusion, SharedTypeOK, Active
  <2>5. SeenIsCurrent' /\ BegunBefore' /\ SeenSinceStart'
    BY <2>1 DEF SeenIsCurrent, BegunBefore, SeenSinceStart, SharedTypeOK
  <2>6. ASSUME NEW k \in Key, cache'[k] # NoEntry
        PROVE  \/ cache'[k] = cache[k]
               \/ /\ k = KeyOf[n]
                  /\ cache'[k].seen = seen[n] /\ cache'[k].reads = Reads(n)
    BY <2>1 DEF SharedTypeOK
  <2>7. EntriesRecordReads'
    BY <2>6 DEF EntriesRecordReads
  <2>8. \A m \in Node : stage[m] \in {"performed", "returned"} =>
                          stage'[m] \in {"performed", "returned"}
    BY <2>1 DEF SharedTypeOK
  <2>9. CacheCurrent'
    <3> SUFFICES ASSUME NEW k \in Key, cache'[k] # NoEntry, NEW r \in cache'[k].reads,
                        Accounted(r)
                 PROVE  \/ cache'[k].seen[r] = world[r]
                        \/ \E m \in Node : /\ r \in Touched[m].writes
                                           /\ stage'[m] \in {"performed", "returned"}
      BY <2>1 DEF CacheCurrent
    <3>1. CASE cache'[k] = cache[k]
      BY <2>8, <3>1 DEF CacheCurrent
    <3>2. CASE cache'[k].seen = seen[n] /\ cache'[k].reads = Reads(n)
      <4>1. CASE r \in Touched[n].writes
        BY <2>1, <2>8, <4>1
      <4>2. CASE r \notin Touched[n].writes
        BY <2>1, <3>2, <4>2 DEF SeenIsCurrent
      <4> QED
        BY <4>1, <4>2
    <3> QED
      BY <2>6, <3>1, <3>2
  <2> QED
    BY <2>3, <2>4, <2>5, <2>7, <2>9
<1>7. ASSUME NEW n \in Node, Fail(n) PROVE SharedInv'
  <2>1. /\ stage[n] = "calling" /\ stage' = [stage EXCEPT ![n] = "failing"]
        /\ UNCHANGED <<world, cache, seen, begun>>
    BY <1>7 DEF Fail, Advance, OneRunOnly
  <2>2. SharedTypeOK' /\ Exclusion'
    BY <2>1 DEF SharedTypeOK, Exclusion, Active
  <2>3. SeenIsCurrent' /\ EntriesRecordReads' /\ BegunBefore' /\ SeenSinceStart'
    BY <2>1 DEF SeenIsCurrent, EntriesRecordReads, BegunBefore, SeenSinceStart, SharedTypeOK
  <2>4. CacheCurrent'
    BY <2>1 DEF CacheCurrent, SharedTypeOK
  <2> QED
    BY <2>2, <2>3, <2>4
<1>8. ASSUME NEW n \in Node, Join(n) PROVE SharedInv'
  <2>1. /\ stage[n] = "returned" /\ stage' = [stage EXCEPT ![n] = "ok"]
        /\ cache' = [k \in Key |->
             IF cache[k] # NoEntry /\ Invalidates(cache[k], Writes(n))
             THEN NoEntry ELSE cache[k]]
        /\ UNCHANGED <<world, seen, begun>>
    BY <1>8 DEF Join, Advance
  <2>2. SharedTypeOK' /\ Exclusion'
    BY <2>1 DEF SharedTypeOK, Exclusion, Active
  <2>3. SeenIsCurrent' /\ BegunBefore' /\ SeenSinceStart'
    BY <2>1 DEF SeenIsCurrent, BegunBefore, SeenSinceStart, SharedTypeOK
  <2>4. ASSUME NEW k \in Key, cache'[k] # NoEntry
        PROVE  cache'[k] = cache[k] /\ Disjoint(cache[k].reads, Writes(n))
    BY <2>1, <2>4 DEF Invalidates
  <2>5. EntriesRecordReads'
    BY <2>4 DEF EntriesRecordReads
  <2>6. CacheCurrent'
    <3> SUFFICES ASSUME NEW k \in Key, cache'[k] # NoEntry, NEW r \in cache'[k].reads,
                        Accounted(r)
                 PROVE  \/ cache'[k].seen[r] = world[r]
                        \/ \E m \in Node : /\ r \in Touched[m].writes
                                           /\ stage'[m] \in {"performed", "returned"}
      BY <2>1 DEF CacheCurrent
    <3>1. cache'[k] = cache[k] /\ r \notin Writes(n)
      BY <2>4 DEF Disjoint
    <3>2. \A m \in Node : m # n => stage'[m] = stage[m]
      BY <2>1 DEF SharedTypeOK
    <3> QED
      BY <3>1, <3>2 DEF CacheCurrent, Accounted
  <2> QED
    BY <2>2, <2>3, <2>5, <2>6
<1>9. ASSUME NEW n \in Node, JoinFailed(n) PROVE SharedInv'
  <2>1. /\ stage[n] = "failing" /\ stage' = [stage EXCEPT ![n] = "failed"]
        /\ UNCHANGED <<world, cache, seen, begun>>
    BY <1>9 DEF JoinFailed, Advance
  <2>2. SharedTypeOK' /\ Exclusion'
    BY <2>1 DEF SharedTypeOK, Exclusion, Active
  <2>3. SeenIsCurrent' /\ EntriesRecordReads' /\ BegunBefore' /\ SeenSinceStart'
    BY <2>1 DEF SeenIsCurrent, EntriesRecordReads, BegunBefore, SeenSinceStart, SharedTypeOK
  <2>4. CacheCurrent'
    BY <2>1 DEF CacheCurrent, SharedTypeOK
  <2> QED
    BY <2>2, <2>3, <2>4
<1>10. ASSUME NEW k \in Key, Lose(k) PROVE SharedInv'
  <2>1. cache' = [cache EXCEPT ![k] = NoEntry] /\ UNCHANGED <<world, stage, seen, begun>>
    BY <1>10 DEF Lose
  <2>2. SharedTypeOK'
    BY <2>1 DEF SharedTypeOK
  <2>3. Exclusion' /\ SeenIsCurrent' /\ BegunBefore' /\ SeenSinceStart'
    BY <2>1 DEF Exclusion, SeenIsCurrent, BegunBefore, SeenSinceStart
  <2>4. EntriesRecordReads' /\ CacheCurrent'
    BY <2>1 DEF EntriesRecordReads, CacheCurrent, SharedTypeOK
  <2> QED
    BY <2>2, <2>3, <2>4
<1> QED
  BY <1>1, <1>2, <1>3, <1>4, <1>5, <1>6, <1>7, <1>8, <1>9, <1>10 DEF Next

\* Inside one run cached reads are coherent with writes (cache.rs:43-45), for
\* every plan, of resources that are accounted for, if a call that fails has had
\* no effect.
THEOREM CoherenceTheorem ==
  ASSUME OneRunOnly
  PROVE  Spec => []Coherent
<1>1. SharedInv /\ [Next]_vars => SharedInv'
  BY NextPreservesSharedInv
<1>2. ASSUME SharedInv PROVE Coherent
  <2> SUFFICES ASSUME NEW n \in Node, KeyOf[n] # NoKey, cache[KeyOf[n]] # NoEntry,
                      NEW r \in Touched[n].reads, Accounted(r)
               PROVE  \/ cache[KeyOf[n]].seen[r] = world[r]
                      \/ \E m \in Node : /\ r \in Touched[m].writes
                                         /\ stage[m] \in {"performed", "returned", "failing"}
    BY DEF Coherent
  <2>1. PICK k \in Key : k = KeyOf[n]
    BY SharedAssumption
  <2>2. r \in cache[k].reads
    BY <1>2, <2>1, EntryReads DEF SharedInv
  <2> QED
    BY <1>2, <2>1, <2>2 DEF SharedInv, CacheCurrent
<1> QED
  BY <1>1, <1>2, InitEstablishesSharedInv, PTL DEF Spec

\* Under the same conditions no node observes a value from before a write that
\* was joined when the node started (scheduler.rs:377-379), of resources that
\* are accounted for.
THEOREM FreshReadsTheorem ==
  ASSUME OneRunOnly
  PROVE  Spec => []FreshReads
<1>1. SharedInv /\ [Next]_vars => SharedInv'
  BY NextPreservesSharedInv
<1>2. SharedInv => FreshReads
  BY DEF SharedInv, SeenSinceStart, FreshReads
<1> QED
  BY <1>1, <1>2, InitEstablishesSharedInv, PTL DEF Spec
=============================================================================
