------------------------- MODULE MemoryCacheProofs -------------------------
(***************************************************************************)
(* Proofs about MemoryCache for every set of keys and resources and every  *)
(* limit.  The inductive invariant is the conjunction of the four          *)
(* invariants the model checker looks at: eviction stays within capacity   *)
(* and invalidation finds every reader only because the indexes agree.     *)
(***************************************************************************)
EXTENDS MemoryCache, FiniteSetTheorems, TLAPS

CacheInv == CacheTypeOK /\ IndexesAgree /\ WithinCapacity /\ NoStaleEntry

\* What the two indexes say of the entries.
Indexed ==
  /\ \A r \in Resource : by_resource[r] = {k \in Live : r \in entries[k].reads}
  /\ \A t \in Tick, k \in Key :
       lru[t] = k <=> k \in Live /\ entries[k].last_used = t

IndexTypeOK ==
  /\ entries \in [Key -> Entry \cup {NoEntry}]
  /\ by_resource \in [Resource -> SUBSET Key]
  /\ lru \in [Tick -> Key \cup {NoKey}]

\* A present entry is a record.
LEMMA LiveEntry ==
  ASSUME entries \in [Key -> Entry \cup {NoEntry}], NEW k \in Live
  PROVE  /\ k \in Key
         /\ entries[k] \in Entry
         /\ entries[k].last_used \in Tick
         /\ entries[k].inserted \in Tick
         /\ entries[k].reads \subseteq Resource
BY DEF Live, Entry

\* Removing keys keeps the indexes in agreement (Inner::remove).
LEMMA RemoveKeysIndexed ==
  ASSUME IndexTypeOK, Indexed, NEW K \in SUBSET Key, RemoveKeys(K)
  PROVE  /\ IndexTypeOK' /\ Indexed'
         /\ Live' = Live \ K
         /\ \A k \in Live' : entries'[k] = entries[k]
<1>1. /\ Live' = Live \ K
      /\ \A k \in Live' : entries'[k] = entries[k]
  BY DEF RemoveKeys, Live
<1>2. IndexTypeOK'
  BY DEF IndexTypeOK, RemoveKeys
<1>3. ASSUME NEW r \in Resource
      PROVE  by_resource'[r] = {k \in Live' : r \in entries'[k].reads}
  <2>1. by_resource'[r] = by_resource[r] \ {k \in K \cap Live : r \in entries[k].reads}
    BY DEF RemoveKeys
  <2>2. by_resource[r] = {k \in Live : r \in entries[k].reads}
    BY DEF Indexed
  <2> QED
    BY <1>1, <2>1, <2>2
<1>4. ASSUME NEW t \in Tick, NEW k \in Key
      PROVE  lru'[t] = k <=> k \in Live' /\ entries'[k].last_used = t
  <2>1. lru[t] = k <=> k \in Live /\ entries[k].last_used = t
    BY DEF Indexed
  <2>2. CASE \E j \in K \cap Live : entries[j].last_used = t
    <3>1. PICK j \in K \cap Live : entries[j].last_used = t
      BY <2>2
    <3>2. lru[t] = j
      BY <3>1 DEF Indexed, Live
    <3>3. lru'[t] = NoKey
      BY <2>2 DEF RemoveKeys
    <3>4. lru'[t] # k
      BY <3>3, CacheAssumption
    <3> QED
      BY <1>1, <2>1, <3>1, <3>2, <3>4
  <2>3. CASE ~ \E j \in K \cap Live : entries[j].last_used = t
    <3>1. lru'[t] = lru[t]
      BY <2>3 DEF RemoveKeys
    <3> QED
      BY <1>1, <2>1, <2>3, <3>1
  <2> QED
    BY <2>2, <2>3
<1> QED
  BY <1>1, <1>2, <1>3, <1>4 DEF Indexed

\* The entries present are finitely many.
LEMMA LiveFinite == IsFiniteSet(Live) /\ Cardinality(Live) \in Nat
<1>1. Live \subseteq Key
  BY DEF Live
<1> QED
  BY <1>1, CacheAssumption, FS_Subset, FS_CardinalityType

\* So are the ones present after a step.
LEMMA LiveFiniteNext == IsFiniteSet(Live') /\ Cardinality(Live') \in Nat
<1>1. Live' \subseteq Key
  BY DEF Live
<1> QED
  BY <1>1, CacheAssumption, FS_Subset, FS_CardinalityType

\* Fewer entries keep the limit.
LEMMA ShrinkingKeepsCapacity ==
  ASSUME WithinCapacity, max_entries \in Nat, UNCHANGED max_entries,
         Live' \subseteq Live
  PROVE  WithinCapacity'
<1>1. Cardinality(Live') <= Cardinality(Live)
  BY LiveFinite, FS_Subset
<1> QED
  BY <1>1, LiveFinite, LiveFiniteNext DEF WithinCapacity

\* A new cache is empty and has room for an entry (with_limits).
LEMMA InitEstablishesCacheInv == Init => CacheInv
<1> SUFFICES ASSUME Init PROVE CacheInv
  OBVIOUS
<1>1. Live = {}
  BY DEF Init, Live
<1>2. max_entries \in Nat \ {0}
  <2>1. PICK n \in Configured : max_entries = Clamped(n)
    BY DEF Init
  <2> QED
    BY <2>1, CacheAssumption DEF Clamped
<1>3. CacheTypeOK
  BY <1>2, CacheAssumption DEF Init, CacheTypeOK, NoInsert, Idle, Tick
<1>4. IndexesAgree
  BY <1>1, CacheAssumption DEF Init, IndexesAgree
<1>5. WithinCapacity
  BY <1>1, <1>2, FS_EmptySet DEF WithinCapacity
<1>6. NoStaleEntry
  BY <1>1 DEF NoStaleEntry
<1> QED
  BY <1>3, <1>4, <1>5, <1>6 DEF CacheInv

\* Every operation preserves the invariant.
LEMMA NextPreservesCacheInv == CacheInv /\ [Next]_vars => CacheInv'
<1> SUFFICES ASSUME CacheInv, [Next]_vars PROVE CacheInv'
  OBVIOUS
<1> USE DEF CacheInv
<1>a. IndexTypeOK /\ Indexed
  BY DEF CacheTypeOK, IndexTypeOK, IndexesAgree, Indexed
<1>b. MaxClock \in Nat /\ clock \in Nat /\ clock <= MaxClock
  BY CacheAssumption DEF CacheTypeOK, Tick
<1>c. \A k \in Live : entries[k].last_used \in Nat
  BY LiveEntry DEF CacheTypeOK, Tick
<1>d. \A k \in Live : entries[k].last_used <= clock
  BY DEF IndexesAgree
<1>1. CASE UNCHANGED vars
  <2>1. Live' = Live /\ (Idle' <=> Idle)
    BY <1>1 DEF vars, indexes, Live, Idle
  <2> QED
    BY <1>1, <2>1
    DEF vars, indexes, CacheTypeOK, IndexesAgree, WithinCapacity, NoStaleEntry
<1>2. ASSUME NEW k \in Key, GetMiss(k) PROVE CacheInv'
  <2>1. Live' = Live /\ Idle' /\ Idle
    BY <1>2 DEF GetMiss, Begin, indexes, Live, Idle
  <2>2. clock' = clock + 1 /\ clock' \in Tick
    BY <1>2, <1>b DEF GetMiss, Begin, Tick
  <2>3. CacheTypeOK'
    BY <1>2, <2>1, <2>2 DEF GetMiss, indexes, CacheTypeOK
  <2>4. IndexesAgree'
    BY <1>2, <2>1, <2>2, <1>b, <1>c DEF GetMiss, indexes, IndexesAgree
  <2>5. WithinCapacity' /\ NoStaleEntry'
    BY <1>2, <2>1 DEF GetMiss, WithinCapacity, NoStaleEntry
  <2> QED
    BY <2>3, <2>4, <2>5
<1>3. ASSUME NEW k \in Key, GetExpired(k) PROVE CacheInv'
  <2>1. /\ IndexTypeOK' /\ Indexed' /\ Live' = Live \ {k}
        /\ \A j \in Live' : entries'[j] = entries[j]
    BY <1>3, <1>a, RemoveKeysIndexed DEF GetExpired
  <2>2. clock' = clock + 1 /\ clock' \in Tick /\ Idle /\ Idle'
    BY <1>3, <1>b DEF GetExpired, Begin, Tick, Idle
  <2>3. CacheTypeOK'
    BY <1>3, <2>1, <2>2 DEF GetExpired, CacheTypeOK, IndexTypeOK
  <2>4. IndexesAgree'
    <3>1. \A j \in Live' : entries'[j].last_used <= clock'
      BY <2>1, <2>2, <1>b, <1>c, <1>d
    <3> QED
      BY <2>1, <2>2, <3>1 DEF IndexesAgree, Indexed
  <2>5. WithinCapacity'
    BY <1>3, <2>1, ShrinkingKeepsCapacity DEF GetExpired, CacheTypeOK
  <2>6. NoStaleEntry'
    BY <1>3, <2>1 DEF GetExpired, NoStaleEntry
  <2> QED
    BY <2>3, <2>4, <2>5, <2>6
<1>4. ASSUME NEW k \in Key, GetHit(k) PROVE CacheInv'
  <2>1. clock' = clock + 1 /\ clock + 1 \in Tick /\ Idle /\ Idle' /\ k \in Live
    BY <1>4, <1>b DEF GetHit, Begin, Tick, Idle
  <2>2. entries[k] \in Entry /\ entries[k].last_used \in Tick
    BY <2>1, LiveEntry DEF CacheTypeOK
  <2>3. entries' = [entries EXCEPT ![k] = [entries[k] EXCEPT !.last_used = clock + 1]]
    BY <1>4 DEF GetHit
  <2>4. [entries[k] EXCEPT !.last_used = clock + 1] \in Entry
    BY <2>1, <2>2 DEF Entry
  <2>5. Live' = Live
    BY <2>1, <2>3, <2>4, NoEntryAssumption DEF Live, CacheTypeOK
  <2>6. /\ \A j \in Key : entries'[j].reads = entries[j].reads \/ j \notin Live
        /\ \A j \in Live : j # k => entries'[j] = entries[j]
        /\ entries'[k].last_used = clock + 1
        /\ entries'[k].reads = entries[k].reads
    BY <2>1, <2>2, <2>3 DEF CacheTypeOK, Live, Entry
  <2>7. lru' = [lru EXCEPT ![entries[k].last_used] = NoKey, ![clock + 1] = k]
    BY <1>4 DEF GetHit
  <2>8. CacheTypeOK'
    BY <1>4, <2>1, <2>2, <2>3, <2>4, <2>7 DEF GetHit, CacheTypeOK
  <2>9. \A r \in Resource : by_resource'[r] = {j \in Live' : r \in entries'[j].reads}
    BY <1>4, <2>5, <2>6 DEF GetHit, IndexesAgree
  <2>10. ASSUME NEW t \in Tick, NEW j \in Key
         PROVE  lru'[t] = j <=> j \in Live' /\ entries'[j].last_used = t
    <3>1. lru[t] = j <=> j \in Live /\ entries[j].last_used = t
      BY DEF IndexesAgree
    <3>2. lru[t] = k <=> entries[k].last_used = t
      BY <2>1 DEF IndexesAgree
    <3>3. CASE t = clock + 1
      <4>1. lru'[t] = k
        BY <2>1, <2>7, <3>3 DEF CacheTypeOK
      <4>2. j # k => ~(j \in Live' /\ entries'[j].last_used = t)
        BY <2>5, <2>6, <3>3, <1>b, <1>c, <1>d
      <4> QED
        BY <2>1, <2>5, <2>6, <3>3, <4>1, <4>2
    <3>4. CASE t # clock + 1 /\ t = entries[k].last_used
      <4>1. lru'[t] = NoKey
        BY <2>1, <2>2, <2>7, <3>4 DEF CacheTypeOK
      <4>2. j # k => lru[t] # j
        BY <3>2, <3>4
      <4> QED
        BY <2>1, <2>5, <2>6, <3>1, <3>4, <4>1, <4>2, CacheAssumption
    <3>5. CASE t # clock + 1 /\ t # entries[k].last_used
      <4>1. lru'[t] = lru[t]
        BY <2>1, <2>2, <2>7, <3>5 DEF CacheTypeOK
      <4> QED
        BY <2>1, <2>5, <2>6, <3>1, <3>5, <4>1
    <3> QED
      BY <3>3, <3>4, <3>5
  <2>11. \A j \in Live' : entries'[j].last_used <= clock'
    BY <2>1, <2>5, <2>6, <1>b, <1>c, <1>d
  <2>12. IndexesAgree'
    BY <2>1, <2>9, <2>10, <2>11 DEF IndexesAgree
  <2>13. WithinCapacity' /\ NoStaleEntry'
    BY <1>4, <2>5 DEF GetHit, WithinCapacity, NoStaleEntry
  <2> QED
    BY <2>8, <2>12, <2>13
<1>5. ASSUME NEW k \in Key, NEW reads \in SUBSET Resource, InsertBegin(k, reads)
      PROVE  CacheInv'
  <2>1. /\ IndexTypeOK' /\ Indexed' /\ Live' = Live \ {k}
        /\ \A j \in Live' : entries'[j] = entries[j]
    BY <1>5, <1>a, RemoveKeysIndexed DEF InsertBegin
  <2>2. clock' = clock + 1 /\ clock' \in Tick
    BY <1>5, <1>b DEF InsertBegin, Begin, Tick
  <2>3. inserting' = [key |-> k, reads |-> reads]
    BY <1>5 DEF InsertBegin
  <2>4. CacheTypeOK'
    BY <1>5, <2>1, <2>2, <2>3 DEF InsertBegin, CacheTypeOK, IndexTypeOK
  <2>5. IndexesAgree'
    BY <2>1, <2>2, <2>3, <1>b, <1>c, <1>d DEF IndexesAgree, Indexed
  <2>6. WithinCapacity'
    BY <1>5, <2>1, ShrinkingKeepsCapacity DEF InsertBegin, CacheTypeOK
  <2>7. NoStaleEntry'
    BY <1>5, <2>1 DEF InsertBegin, NoStaleEntry
  <2> QED
    BY <2>4, <2>5, <2>6, <2>7
<1>6. ASSUME Evict PROVE CacheInv'
  <2>1. CASE UNCHANGED indexes
    <3>1. Live' = Live /\ (Idle' <=> Idle)
      BY <1>6, <2>1 DEF Evict, indexes, Live, Idle
    <3> QED
      BY <1>6, <2>1, <3>1
      DEF Evict, indexes, CacheTypeOK, IndexesAgree, WithinCapacity, NoStaleEntry
  <2>2. CASE ~(UNCHANGED indexes)
    <3>1. PICK t \in Tick :
            /\ Oldest(t)
            /\ lru' = [lru EXCEPT ![t] = NoKey]
            /\ entries' = [entries EXCEPT ![lru[t]] = NoEntry]
            /\ by_resource' = [r \in Resource |->
                 IF lru[t] \in Live /\ r \in entries[lru[t]].reads
                 THEN by_resource[r] \ {lru[t]} ELSE by_resource[r]]
      BY <1>6, <2>2 DEF Evict
    <3>2. lru[t] \in Key /\ lru[t] \in Live /\ entries[lru[t]].last_used = t
      BY <3>1 DEF Oldest, CacheTypeOK, IndexesAgree
    <3>3. RemoveKeys({lru[t]})
      <4>1. entries' = [j \in Key |-> IF j \in {lru[t]} THEN NoEntry ELSE entries[j]]
        BY <3>1, <3>2 DEF CacheTypeOK
      <4>2. lru' = [s \in Tick |->
              IF \E j \in {lru[t]} \cap Live : entries[j].last_used = s
              THEN NoKey ELSE lru[s]]
        BY <3>1, <3>2 DEF CacheTypeOK
      <4>3. by_resource' = [r \in Resource |->
              by_resource[r] \ {j \in {lru[t]} \cap Live : r \in entries[j].reads}]
        <5>1. \A r \in Resource :
                (IF lru[t] \in Live /\ r \in entries[lru[t]].reads
                 THEN by_resource[r] \ {lru[t]} ELSE by_resource[r])
                = by_resource[r] \ {j \in {lru[t]} \cap Live : r \in entries[j].reads}
          BY <3>2
        <5> QED
          BY <3>1, <5>1
      <4> QED
        BY <4>1, <4>2, <4>3 DEF RemoveKeys
    <3>4. /\ IndexTypeOK' /\ Indexed' /\ Live' = Live \ {lru[t]}
          /\ \A j \in Live' : entries'[j] = entries[j]
      BY <1>a, <3>2, <3>3, RemoveKeysIndexed
    <3>5. (Idle' <=> Idle) /\ UNCHANGED <<clock, max_entries, inserting, outdated>>
      BY <1>6 DEF Evict, Idle
    <3>6. CacheTypeOK'
      BY <1>6, <3>4, <3>5 DEF Evict, CacheTypeOK, IndexTypeOK
    <3>7. IndexesAgree'
      BY <3>4, <3>5 DEF IndexesAgree, Indexed
    <3>8. WithinCapacity'
      BY <3>4, <3>5, ShrinkingKeepsCapacity DEF CacheTypeOK
    <3>9. NoStaleEntry'
      BY <3>4, <3>5 DEF NoStaleEntry
    <3> QED
      BY <3>6, <3>7, <3>8, <3>9
  <2> QED
    BY <2>1, <2>2
<1>7. ASSUME InsertEnd PROVE CacheInv'
  <2> DEFINE key == inserting.key
             new == [reads |-> inserting.reads, inserted |-> clock,
                     last_used |-> clock]
  <2>1. ~Idle /\ Idle' /\ key \in Key /\ key \notin Live
    BY <1>7 DEF InsertEnd, Idle, CacheTypeOK, IndexesAgree
  <2>2. new \in Entry
    BY DEF CacheTypeOK, Entry
  <2>3. /\ entries' = [entries EXCEPT ![key] = new]
        /\ lru' = [lru EXCEPT ![clock] = key]
        /\ clock' = clock /\ max_entries' = max_entries
        /\ outdated' = outdated \ {key}
    BY <1>7 DEF InsertEnd
  <2>4. Live' = Live \cup {key}
    BY <2>1, <2>2, <2>3, NoEntryAssumption DEF Live, CacheTypeOK
  <2>5. /\ \A j \in Live : entries'[j] = entries[j]
        /\ entries'[key].reads = inserting.reads
        /\ entries'[key].last_used = clock
    BY <2>1, <2>3 DEF CacheTypeOK, Live
  <2>6. CacheTypeOK'
    BY <1>7, <2>1, <2>2, <2>3 DEF InsertEnd, CacheTypeOK, NoInsert
  <2>7. ASSUME NEW r \in Resource
        PROVE  by_resource'[r] = {j \in Live' : r \in entries'[j].reads}
    <3>1. by_resource'[r] = IF r \in inserting.reads
                            THEN by_resource[r] \cup {key} ELSE by_resource[r]
      BY <1>7 DEF InsertEnd
    <3>2. by_resource[r] = {j \in Live : r \in entries[j].reads}
      BY DEF IndexesAgree
    <3> HIDE DEF key, new
    <3> QED
      BY <2>1, <2>4, <2>5, <3>1, <3>2
  <2>8. ASSUME NEW t \in Tick, NEW j \in Key
        PROVE  lru'[t] = j <=> j \in Live' /\ entries'[j].last_used = t
    <3>1. lru[t] = j <=> j \in Live /\ entries[j].last_used = t
      BY DEF IndexesAgree
    <3>2. \A i \in Live : entries[i].last_used < clock
      BY <2>1 DEF IndexesAgree
    <3>3. CASE t = clock
      <4>1. lru'[t] = key
        BY <2>3, <3>3 DEF CacheTypeOK
      <4> HIDE DEF key, new
      <4>2. \A i \in Live : entries[i].last_used # clock
        BY <3>2, <1>b, <1>c
      <4> QED
        BY <2>4, <2>5, <3>3, <4>1, <4>2
    <3>4. CASE t # clock
      <4>1. lru'[t] = lru[t]
        BY <2>3, <3>4 DEF CacheTypeOK
      <4> HIDE DEF key, new
      <4> QED
        BY <2>1, <2>4, <2>5, <3>1, <3>4, <4>1
    <3> QED
      BY <3>3, <3>4
  <2>9. \A j \in Live' : entries'[j].last_used <= clock'
    <3> HIDE DEF key, new
    <3> QED
      BY <2>3, <2>4, <2>5, <1>b, <1>c, <1>d
  <2>10. IndexesAgree'
    BY <2>1, <2>7, <2>8, <2>9 DEF IndexesAgree
  <2>11. WithinCapacity'
    <3>1. Cardinality(Live) < max_entries
      BY <1>7 DEF InsertEnd
    <3>2. Cardinality(Live') = Cardinality(Live) + 1
      BY <2>1, <2>4, LiveFinite, FS_AddElement
    <3> QED
      BY <2>3, <3>1, <3>2, LiveFinite DEF WithinCapacity, CacheTypeOK
  <2>12. NoStaleEntry'
    BY <2>3, <2>4 DEF NoStaleEntry
  <2> QED
    BY <2>6, <2>10, <2>11, <2>12
<1>8. ASSUME NEW written \in SUBSET Resource, InvalidateReads(written)
      PROVE  CacheInv'
  <2> DEFINE victims == UNION {by_resource[r] : r \in written}
  <2>1. victims \in SUBSET Key
    BY DEF CacheTypeOK
  <2>2. /\ IndexTypeOK' /\ Indexed' /\ Live' = Live \ victims
        /\ \A j \in Live' : entries'[j] = entries[j]
    BY <1>8, <1>a, <2>1, RemoveKeysIndexed DEF InvalidateReads
  <2>3. /\ Idle /\ Idle' /\ clock' = clock /\ max_entries' = max_entries
        /\ outdated' = outdated \cup {k \in Live : entries[k].reads \cap written # {}}
    BY <1>8 DEF InvalidateReads, Idle
  <2>4. CacheTypeOK'
    BY <1>8, <2>2, <2>3 DEF InvalidateReads, CacheTypeOK, IndexTypeOK, Live
  <2>5. IndexesAgree'
    BY <2>2, <2>3, <1>d DEF IndexesAgree, Indexed
  <2>6. WithinCapacity'
    BY <2>2, <2>3, ShrinkingKeepsCapacity DEF CacheTypeOK
  <2>7. \A k \in Live : entries[k].reads \cap written # {} => k \in victims
    <3> SUFFICES ASSUME NEW k \in Live, NEW r \in entries[k].reads \cap written
                 PROVE  k \in victims
      OBVIOUS
    <3>1. k \in by_resource[r]
      BY DEF IndexesAgree
    <3> QED
      BY <3>1
  <2>8. NoStaleEntry'
    BY <2>2, <2>3, <2>7 DEF NoStaleEntry
  <2> QED
    BY <2>4, <2>5, <2>6, <2>8
<1>9. ASSUME Clear PROVE CacheInv'
  <2>1. Live' = {} /\ Idle /\ Idle'
    BY <1>9 DEF Clear, Live, Idle
  <2>2. CacheTypeOK'
    BY <1>9, <2>1 DEF Clear, CacheTypeOK
  <2>3. IndexesAgree'
    BY <1>9, <2>1, CacheAssumption DEF Clear, IndexesAgree
  <2>4. WithinCapacity'
    BY <1>9, <2>1, ShrinkingKeepsCapacity DEF Clear, CacheTypeOK
  <2>5. NoStaleEntry'
    BY <2>1 DEF NoStaleEntry
  <2> QED
    BY <2>2, <2>3, <2>4, <2>5
<1>10. ASSUME TimePasses PROVE CacheInv'
  <2>1. Live' = Live /\ (Idle' <=> Idle)
    BY <1>10 DEF TimePasses, indexes, Live, Idle
  <2> QED
    BY <1>10, <2>1
    DEF TimePasses, indexes, CacheTypeOK, IndexesAgree, WithinCapacity, NoStaleEntry
<1> QED
  BY <1>1, <1>2, <1>3, <1>4, <1>5, <1>6, <1>7, <1>8, <1>9, <1>10 DEF Next

\* Through every sequence of cache operations (cache.rs:123-230) the three
\* indexes agree, for every set of keys and every limit.
THEOREM CacheIndexTheorem == Spec => []IndexesAgree
<1>1. Init => CacheInv
  BY InitEstablishesCacheInv
<1>2. CacheInv /\ [Next]_vars => CacheInv'
  BY NextPreservesCacheInv
<1>3. CacheInv => IndexesAgree
  BY DEF CacheInv
<1> QED
  BY <1>1, <1>2, <1>3, PTL DEF Spec

\* No entry outlives a write to what it reads (cache.rs:38-39), and the limit
\* holds.
THEOREM CacheFreshTheorem == Spec => [](NoStaleEntry /\ WithinCapacity)
<1>1. Init => CacheInv
  BY InitEstablishesCacheInv
<1>2. CacheInv /\ [Next]_vars => CacheInv'
  BY NextPreservesCacheInv
<1>3. CacheInv => NoStaleEntry /\ WithinCapacity
  BY DEF CacheInv
<1> QED
  BY <1>1, <1>2, <1>3, PTL DEF Spec

\* Eviction takes the entry used longest ago (cache.rs:138-152).
THEOREM EvictionTheorem == Spec => EvictsOldest
<1>1. Init => CacheInv
  BY InitEstablishesCacheInv
<1>2. CacheInv /\ [Next]_vars => CacheInv'
  BY NextPreservesCacheInv
<1>3. ASSUME CacheInv, [Next]_vars
      PROVE  [~Idle /\ ~Idle' =>
                \A k \in Live \ Live', j \in Live' :
                  entries[k].last_used < entries[j].last_used]_vars
  <2>1. SUFFICES ASSUME ~Idle, ~Idle', NEW k \in Live \ Live', NEW j \in Live'
                 PROVE  entries[k].last_used < entries[j].last_used
    OBVIOUS
  <2>2. Evict \/ UNCHANGED vars
    BY <1>3, <2>1
    DEF Next, GetMiss, GetExpired, GetHit, InsertBegin, InsertEnd, Begin,
        InvalidateReads, Clear, TimePasses, Idle
  <2>3. CASE UNCHANGED vars
    BY <2>1, <2>3 DEF vars, indexes, Live
  <2>4. CASE Evict
    <3>0. ~(UNCHANGED indexes)
      BY <2>1 DEF indexes, Live
    <3>1. PICK t \in Tick : Oldest(t) /\ entries' = [entries EXCEPT ![lru[t]] = NoEntry]
      BY <2>4, <3>0 DEF Evict
    <3>2. lru[t] \in Key /\ lru[t] \in Live /\ entries[lru[t]].last_used = t
      BY <1>3, <3>1 DEF CacheInv, Oldest, CacheTypeOK, IndexesAgree
    <3>3. k = lru[t] /\ j \in Live /\ j # lru[t]
      BY <1>3, <2>1, <3>1, <3>2 DEF Live, CacheInv, CacheTypeOK
    <3>4. entries[j].last_used \in Tick /\ j \in Key
      BY <1>3, <3>3, LiveEntry DEF CacheInv, CacheTypeOK
    <3>5. lru[entries[j].last_used] = j
      BY <1>3, <3>3, <3>4 DEF CacheInv, IndexesAgree
    <3>6. t <= entries[j].last_used /\ t # entries[j].last_used
      BY <3>1, <3>2, <3>3, <3>4, <3>5, CacheAssumption DEF Oldest
    <3> QED
      BY <3>2, <3>3, <3>4, <3>6, CacheAssumption DEF Tick
  <2> QED
    BY <2>2, <2>3, <2>4
<1> QED
  BY <1>1, <1>2, <1>3, PTL DEF Spec, EvictsOldest
=============================================================================
