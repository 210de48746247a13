-------------------------- MODULE LockTableProofs --------------------------
(***************************************************************************)
(* Proofs about LockTable for every set of units, resources and tools.     *)
(*                                                                         *)
(* The inductive invariant is LockTypeOK together with                     *)
(* TableMatchesHolders: what the counters say is exactly what the holders  *)
(* asked for.  Everything the scheduler relies on follows from it.         *)
(***************************************************************************)
EXTENDS LockTable, FiniteSetTheorems, TLAPS

\* Engine::new gives every unit a well-formed request.
LEMMA RequestType == \A u \in Unit : Request(u) \in LockRequest
<1> SUFFICES ASSUME NEW u \in Unit PROVE Request(u) \in LockRequest
  OBVIOUS
<1>1. ASSUME NEW n \in Node PROVE ForEffects(Effective(n)) \in LockRequest
  <2> DEFINE e == Effective(n)
  <2>1. e.reads \subseteq Resource /\ e.writes \subseteq Resource /\ e.tool \in Tool
    BY UnitAssumption DEF Effective, ForNode, Effects
  <2> HIDE DEF e
  <2>2. ASSUME e.declared PROVE ForEffects(e) \in LockRequest
    <3>1. PICK t \in Tool \cup {NoTool} :
            ForEffects(e) = [reads |-> e.reads, writes |-> e.writes, world |-> FALSE, commutative_tool |-> t]
      BY <2>1, <2>2 DEF ForEffects
    <3> QED
      BY <2>1, <3>1 DEF LockRequest
  <2>3. ASSUME ~e.declared PROVE ForEffects(e) \in LockRequest
    <3>1. ForEffects(e) = [reads |-> {}, writes |-> {}, commutative_tool |-> NoTool, world |-> TRUE]
      BY <2>3 DEF ForEffects, DefaultRequest
    <3> QED
      BY <3>1 DEF LockRequest
  <2> QED
    BY <2>2, <2>3 DEF e
<1>2. Members[u] \subseteq Node /\ Members[u] # {}
  BY UnitAssumption
<1>3. CASE u \in Batch
  <2>1. UNION {ForEffects(Effective(n)).reads : n \in Members[u]} \subseteq Resource
    BY <1>1, <1>2 DEF LockRequest
  <2>2. UNION {ForEffects(Effective(n)).writes : n \in Members[u]} \subseteq Resource
    BY <1>1, <1>2 DEF LockRequest
  <2> QED
    BY <1>3, <2>1, <2>2 DEF Request, BatchRequest, LockRequest
<1>4. CASE u \notin Batch
  BY <1>1, <1>2, <1>4 DEF Request
<1> QED
  BY <1>3, <1>4

\* A unit that is no batch group asks for what its one node declares.
LEMMA SingleRequest ==
  ASSUME NEW u \in Unit, u \notin Batch, NEW n, Members[u] = {n}
  PROVE  Request(u) = ForEffects(Effective(n))
BY DEF Request

\* A unit's request covers what each of its nodes declares.
LEMMA RequestCovers ==
  ASSUME NEW u \in Unit, ~Request(u).world, NEW n \in Members[u]
  PROVE  /\ Effective(n).declared
         /\ Effective(n).reads \subseteq Request(u).reads
         /\ Effective(n).writes \subseteq Request(u).writes
         /\ Request(u).commutative_tool # NoTool =>
              /\ Effective(n).commutative
              /\ Effective(n).tool = Request(u).commutative_tool
<1>1. CASE u \in Batch
  <2>1. ~ForEffects(Effective(n)).world
    BY <1>1 DEF Request, BatchRequest
  <2>2. Effective(n).declared
    BY <2>1 DEF ForEffects, DefaultRequest
  <2>3. /\ ForEffects(Effective(n)).reads = Effective(n).reads
        /\ ForEffects(Effective(n)).writes = Effective(n).writes
    BY <2>2 DEF ForEffects
  <2>4. /\ Request(u).reads = UNION {ForEffects(Effective(m)).reads : m \in Members[u]}
        /\ Request(u).writes = UNION {ForEffects(Effective(m)).writes : m \in Members[u]}
        /\ Request(u).commutative_tool = NoTool
    BY <1>1 DEF Request, BatchRequest
  <2> QED
    BY <2>2, <2>3, <2>4
<1>2. CASE u \notin Batch
  <2>1. Members[u] = {n}
    BY <1>2, UnitAssumption
  <2>2. Request(u) = ForEffects(Effective(n))
    BY <1>2, <2>1, SingleRequest
  <2> QED
    BY <2>2 DEF ForEffects, DefaultRequest
<1> QED
  BY <1>1, <1>2

----------------------------------------------------------------------------
(* The inductive invariant.                                                *)

LockInv == LockTypeOK /\ TableMatchesHolders

\* The holders of a resource are finitely many.
LEMMA HoldersFinite ==
  ASSUME LockTypeOK
  PROVE  /\ IsFiniteSet(held)
         /\ \A r : IsFiniteSet(Readers(r)) /\ IsFiniteSet(Writers(r))
<1>1. IsFiniteSet(held)
  BY UnitAssumption, FS_Subset DEF LockTypeOK
<1>2. \A r : Readers(r) \in SUBSET held /\ Writers(r) \in SUBSET held
  BY DEF Readers, Writers
<1> QED
  BY <1>1, <1>2, FS_Subset

\* The mode of an entry tells who holds the resource.
LEMMA EntryByMode ==
  ASSUME NEW r, EntryMatches(r)
  PROVE  \/ /\ resources[r].mode = "free"
            /\ Readers(r) = {} /\ Writers(r) = {} /\ resources[r] = Free
         \/ /\ resources[r].mode = "read"
            /\ Readers(r) # {} /\ Writers(r) = {}
            /\ resources[r] = Read(Cardinality(Readers(r)))
         \/ /\ resources[r].mode = "write"
            /\ Readers(r) = {} /\ resources[r] = Write
            /\ \E u \in held : /\ Writers(r) = {u}
                              /\ Request(u).commutative_tool = NoTool
         \/ /\ resources[r].mode = "commutative"
            /\ Readers(r) = {} /\ Writers(r) # {}
            /\ \E t \in Tool :
                 /\ \A u \in Writers(r) : Request(u).commutative_tool = t
                 /\ resources[r] = Commutative(t, Cardinality(Writers(r)))
<1>1. Free.mode = "free" /\ Write.mode = "write"
  BY DEF Free, Write
<1>2. \A n : Read(n).mode = "read"
  BY DEF Read
<1>3. \A t, n : Commutative(t, n).mode = "commutative"
  BY DEF Commutative
<1> QED
  BY <1>1, <1>2, <1>3 DEF EntryMatches

LEMMA InitEstablishesInv == LockInit => LockInv
<1> SUFFICES ASSUME LockInit PROVE LockInv
  OBVIOUS
<1>1. LockTypeOK
  BY DEF LockInit, LockTypeOK, LockState, Free
<1>2. \A r \in Resource : EntryMatches(r)
  BY DEF LockInit, EntryMatches, Readers, Writers
<1>3. Cardinality(held) = 0
  BY FS_EmptySet DEF LockInit
<1> QED
  BY <1>1, <1>2, <1>3 DEF LockInit, LockInv, TableMatchesHolders

\* try_acquire of a unit that demands to run alone.
LEMMA WorldAcquirePreservesInv ==
  ASSUME LockInv, NEW u \in Unit, u \notin held, held' = held \cup {u},
         GrantsWorld(Request(u)), exclusive' = TRUE, running' = 1,
         UNCHANGED <<resources, panicked>>
  PROVE  LockInv'
<1> USE DEF LockInv
<1>1. held = {}
  <2>1. Cardinality(held) = 0
    BY DEF GrantsWorld, TableMatchesHolders
  <2> QED
    BY <2>1, HoldersFinite, FS_EmptySet
<1>2. LockTypeOK'
  BY DEF LockTypeOK
<1>3. held' = {u} /\ Cardinality(held') = 1
  BY <1>1, FS_Singleton
<1>4. ASSUME NEW r \in Resource PROVE EntryMatches(r)'
  <2>1. resources[r] = Free
    BY <1>1 DEF TableMatchesHolders, EntryMatches, Readers, Writers
  <2>2. Readers(r)' = {} /\ Writers(r)' = {}
    BY <1>3 DEF Readers, Writers, GrantsWorld
  <2> QED
    BY <2>1, <2>2 DEF EntryMatches
<1> QED
  BY <1>2, <1>3, <1>4 DEF TableMatchesHolders, GrantsWorld

\* try_acquire of a unit with declared effects.
LEMMA SharedAcquirePreservesInv ==
  ASSUME LockInv, NEW u \in Unit, u \notin held, held' = held \cup {u},
         GrantsShared(Request(u)), resources' = AfterAcquire(Request(u)),
         running' = running + 1, UNCHANGED <<exclusive, panicked>>
  PROVE  LockInv'
<1> USE DEF LockInv
<1> DEFINE req == Request(u)
<1>1. /\ req \in LockRequest
      /\ ~req.world /\ ~exclusive
      /\ IsCompatible(req)
      /\ \A r : ~(r \in req.reads /\ r \in req.writes)
  BY RequestType DEF GrantsShared, PassesChecks, Disjoint
<1>2. ASSUME NEW r \in Resource
      PROVE  /\ resources'[r] \in LockState
             /\ EntryMatches(r)'
  <2>0. /\ IsFiniteSet(Readers(r)) /\ IsFiniteSet(Writers(r))
        /\ u \notin Readers(r) /\ u \notin Writers(r)
    BY HoldersFinite DEF Readers, Writers
  <2>1. Readers(r)' = IF r \in req.reads THEN Readers(r) \cup {u} ELSE Readers(r)
    BY <1>1 DEF Readers
  <2>2. Writers(r)' = IF r \in req.writes THEN Writers(r) \cup {u} ELSE Writers(r)
    BY <1>1 DEF Writers
  <2>3. resources[r] \in LockState /\ EntryMatches(r)
    BY DEF LockTypeOK, TableMatchesHolders
  <2>4. CASE r \in req.writes
    <3>1. Readers(r)' = Readers(r) /\ Writers(r)' = Writers(r) \cup {u}
      BY <1>1, <2>1, <2>2, <2>4
    <3>2. \/ resources[r].mode = "free"
          \/ /\ resources[r].mode = "commutative"
             /\ resources[r].tool = req.commutative_tool
      BY <1>1, <2>4 DEF IsCompatible
    <3>3. CASE resources[r].mode = "free"
      <4>1. Readers(r) = {} /\ Writers(r) = {} /\ resources[r] = Free
        BY <2>3, <3>3, EntryByMode
      <4>2. Writers(r)' = {u} /\ Readers(r)' = {}
        BY <3>1, <4>1
      <4>3. CASE req.commutative_tool = NoTool
        <5>1. resources'[r] = Write
          BY <2>4, <4>3 DEF AfterAcquire
        <5> QED
          BY <4>2, <4>3, <5>1 DEF EntryMatches, Write, LockState
      <4>4. CASE req.commutative_tool # NoTool
        <5>1. resources'[r] = Commutative(req.commutative_tool, 1)
          BY <2>4, <4>1, <4>4 DEF AfterAcquire, Free
        <5>2. req.commutative_tool \in Tool
          BY <1>1, <4>4 DEF LockRequest
        <5>3. Cardinality(Writers(r)') = 1
          BY <4>2, FS_Singleton
        <5>4. EntryMatches(r)'
          BY <4>2, <5>1, <5>2, <5>3 DEF EntryMatches
        <5>5. resources'[r] \in LockState
          BY <5>1, <5>2 DEF Commutative, LockState
        <5> QED
          BY <5>4, <5>5
      <4> QED
        BY <4>3, <4>4
    <3>4. CASE /\ resources[r].mode = "commutative"
               /\ resources[r].tool = req.commutative_tool
      <4>1. /\ Readers(r) = {}
            /\ \E t \in Tool :
                 /\ \A v \in Writers(r) : Request(v).commutative_tool = t
                 /\ resources[r] = Commutative(t, Cardinality(Writers(r)))
        BY <2>3, <3>4, EntryByMode
      <4>2. PICK t \in Tool :
              /\ \A v \in Writers(r) : Request(v).commutative_tool = t
              /\ resources[r] = Commutative(t, Cardinality(Writers(r)))
        BY <4>1
      <4>3. req.commutative_tool = t /\ t # NoTool
        BY <3>4, <4>2, UnitAssumption DEF Commutative
      <4>4. Cardinality(Writers(r)') = Cardinality(Writers(r)) + 1
        BY <2>0, <3>1, FS_AddElement
      <4>5. resources'[r] = Commutative(t, Cardinality(Writers(r)) + 1)
        BY <2>4, <4>2, <4>3 DEF AfterAcquire, Commutative
      <4>6. EntryMatches(r)'
        BY <3>1, <4>1, <4>2, <4>3, <4>4, <4>5 DEF EntryMatches
      <4>7. resources'[r] \in LockState
        BY <2>0, <4>5, FS_CardinalityType DEF Commutative, LockState
      <4> QED
        BY <4>6, <4>7
    <3> QED
      BY <3>2, <3>3, <3>4
  <2>5. CASE r \in req.reads /\ r \notin req.writes
    <3>1. Readers(r)' = Readers(r) \cup {u} /\ Writers(r)' = Writers(r)
      BY <2>1, <2>2, <2>5
    <3>2. resources[r].mode \in {"free", "read"}
      BY <1>1, <2>5 DEF IsCompatible
    <3>3. Writers(r) = {} /\ resources[r].count = Cardinality(Readers(r))
      <4>1. CASE resources[r].mode = "free"
        <5>1. Readers(r) = {} /\ Writers(r) = {} /\ resources[r] = Free
          BY <2>3, <4>1, EntryByMode
        <5> QED
          BY <5>1, FS_EmptySet DEF Free
      <4>2. CASE resources[r].mode = "read"
        <5>1. Writers(r) = {} /\ resources[r] = Read(Cardinality(Readers(r)))
          BY <2>3, <4>2, EntryByMode
        <5> QED
          BY <5>1 DEF Read
      <4> QED
        BY <3>2, <4>1, <4>2
    <3>4. Cardinality(Readers(r)') = Cardinality(Readers(r)) + 1
      BY <2>0, <3>1, FS_AddElement
    <3>5. resources'[r] = Read(Cardinality(Readers(r)'))
      BY <2>5, <3>3, <3>4 DEF AfterAcquire
    <3>6. resources'[r] \in LockState
      BY <2>0, <3>4, <3>5, FS_CardinalityType DEF Read, LockState
    <3> QED
      BY <3>1, <3>3, <3>5, <3>6 DEF EntryMatches
  <2>6. CASE r \notin req.reads /\ r \notin req.writes
    <3>1. resources'[r] = resources[r]
      BY <2>6 DEF AfterAcquire
    <3>2. Readers(r)' = Readers(r) /\ Writers(r)' = Writers(r)
      BY <2>1, <2>2, <2>6
    <3> QED
      BY <2>3, <3>1, <3>2 DEF EntryMatches
  <2> QED
    BY <2>4, <2>5, <2>6
<1>3. LockTypeOK'
  BY <1>2 DEF LockTypeOK, AfterAcquire
<1>4. running' = Cardinality(held')
  BY HoldersFinite, FS_AddElement DEF TableMatchesHolders
<1> QED
  BY <1>1, <1>2, <1>3, <1>4 DEF TableMatchesHolders

\* release of a unit that ran alone.
LEMMA WorldReleasePreservesInv ==
  ASSUME LockInv, NEW u \in held, held' = held \ {u}, Request(u).world,
         ReleaseRequest(Request(u)), UNCHANGED panicked
  PROVE  LockInv'
<1> USE DEF LockInv
<1>1. held = {u} /\ held' = {}
  BY DEF TableMatchesHolders
<1>2. running = 1 /\ running' = 0 /\ ~exclusive' /\ resources' = resources
  <2>1. running = 1
    BY <1>1, FS_Singleton DEF TableMatchesHolders
  <2>2. running' = 0
    BY <2>1 DEF ReleaseRequest
  <2>3. ~exclusive' /\ resources' = resources
    BY DEF ReleaseRequest
  <2> QED
    BY <2>1, <2>2, <2>3
<1>3. LockTypeOK'
  BY <1>1, <1>2 DEF LockTypeOK, ReleaseRequest
<1>4. ASSUME NEW r \in Resource PROVE EntryMatches(r)'
  <2>1. Readers(r) = {} /\ Writers(r) = {}
    BY <1>1 DEF Readers, Writers
  <2>2. resources[r] = Free
    BY <2>1 DEF TableMatchesHolders, EntryMatches
  <2>3. Readers(r)' = {} /\ Writers(r)' = {}
    BY <1>1 DEF Readers, Writers
  <2> QED
    BY <1>2, <2>2, <2>3 DEF EntryMatches
<1>5. Cardinality(held') = 0
  BY <1>1, FS_EmptySet
<1> QED
  BY <1>1, <1>2, <1>3, <1>4, <1>5 DEF TableMatchesHolders

\* release of a unit with declared effects.
LEMMA SharedReleasePreservesInv ==
  ASSUME LockInv, NEW u \in held, held' = held \ {u}, ~Request(u).world,
         ReleaseRequest(Request(u)), UNCHANGED panicked
  PROVE  LockInv'
<1> USE DEF LockInv
<1> DEFINE req == Request(u)
<1>1. /\ u \in Unit /\ req \in LockRequest
      /\ resources' = AfterRelease(req)
      /\ exclusive' = exclusive
  BY RequestType DEF LockTypeOK, ReleaseRequest
<1>2. ASSUME NEW r \in Resource
      PROVE  /\ resources'[r] \in LockState
             /\ EntryMatches(r)'
  <2>0. IsFiniteSet(Readers(r)) /\ IsFiniteSet(Writers(r))
    BY HoldersFinite
  <2>1. Readers(r)' = Readers(r) \ {u} /\ Writers(r)' = Writers(r) \ {u}
    BY DEF Readers, Writers
  <2>2. /\ u \in Readers(r) <=> r \in req.reads
        /\ u \in Writers(r) <=> r \in req.writes
    BY DEF Readers, Writers
  <2>3. resources[r] \in LockState /\ EntryMatches(r)
    BY DEF LockTypeOK, TableMatchesHolders
  <2>4. CASE r \in req.reads
    <3>1. /\ resources[r].mode = "read" /\ Writers(r) = {}
          /\ resources[r] = Read(Cardinality(Readers(r)))
      BY <2>2, <2>3, <2>4, EntryByMode
    <3>2. Cardinality(Readers(r)') = Cardinality(Readers(r)) - 1
      BY <2>0, <2>1, <2>2, <2>4, FS_RemoveElement
    <3>3. resources'[r] = Dropped(Read(Cardinality(Readers(r))))
      BY <1>1, <2>4, <3>1 DEF AfterRelease
    <3>4. IsFiniteSet(Readers(r)') /\ Cardinality(Readers(r)') \in Nat
      BY <2>0, <2>1, FS_RemoveElement, FS_CardinalityType
    <3>5. Cardinality(Readers(r)) \in Nat
      BY <2>0, FS_CardinalityType
    <3>6. CASE Cardinality(Readers(r)) = 1
      <4>1. Readers(r)' = {} /\ Writers(r)' = {}
        BY <2>1, <3>1, <3>2, <3>4, <3>6, FS_EmptySet
      <4>2. resources'[r] = Free
        BY <3>3, <3>6 DEF Dropped, Read
      <4> QED
        BY <4>1, <4>2 DEF EntryMatches, Free, LockState
    <3>7. CASE Cardinality(Readers(r)) # 1
      <4>1. Readers(r)' # {} /\ Writers(r)' = {}
        BY <2>1, <3>1, <3>2, <3>5, <3>7, FS_EmptySet
      <4>2. resources'[r] = Read(Cardinality(Readers(r)'))
        BY <3>2, <3>3, <3>7 DEF Dropped, Read
      <4> QED
        BY <3>4, <4>1, <4>2 DEF EntryMatches, Read, LockState
    <3> QED
      BY <3>6, <3>7
  <2>5. CASE r \in req.writes /\ resources[r].mode = "write"
    <3>1. Readers(r) = {} /\ Writers(r) = {u} /\ resources[r] = Write
      BY <2>2, <2>3, <2>5, EntryByMode
    <3>2. resources'[r] = Free
      BY <1>1, <2>5, <3>1 DEF AfterRelease, Dropped, Write
    <3> QED
      BY <2>1, <3>1, <3>2 DEF EntryMatches, Free, LockState
  <2>6. CASE r \in req.writes /\ resources[r].mode = "commutative"
    <3>1. PICK t \in Tool :
            /\ \A v \in Writers(r) : Request(v).commutative_tool = t
            /\ resources[r] = Commutative(t, Cardinality(Writers(r)))
            /\ Readers(r) = {}
      BY <2>3, <2>6, EntryByMode
    <3>2. Cardinality(Writers(r)') = Cardinality(Writers(r)) - 1
      BY <2>0, <2>1, <2>2, <2>6, FS_RemoveElement
    <3>3. resources'[r] = Dropped(Commutative(t, Cardinality(Writers(r))))
      BY <1>1, <2>6, <3>1 DEF AfterRelease
    <3>4. IsFiniteSet(Writers(r)') /\ Cardinality(Writers(r)') \in Nat
      <4>1. IsFiniteSet(Writers(r) \ {u})
        BY <2>0, FS_RemoveElement
      <4> QED
        BY <2>1, <4>1, FS_CardinalityType
    <3>5. Cardinality(Writers(r)) \in Nat
      BY <2>0, FS_CardinalityType
    <3>6. CASE Cardinality(Writers(r)) = 1
      <4>1. Readers(r)' = {} /\ Writers(r)' = {}
        BY <2>1, <3>1, <3>2, <3>4, <3>6, FS_EmptySet
      <4>2. resources'[r] = Free
        BY <3>3, <3>6 DEF Dropped, Commutative
      <4> QED
        BY <4>1, <4>2 DEF EntryMatches, Free, LockState
    <3>7. CASE Cardinality(Writers(r)) # 1
      <4>1. Writers(r)' # {} /\ Readers(r)' = {}
        <5>1. Cardinality(Writers(r)') # 0
          BY <3>2, <3>5, <3>7
        <5> QED
          BY <2>1, <3>1, <5>1, FS_EmptySet
      <4>2. resources'[r] = Commutative(t, Cardinality(Writers(r)'))
        BY <3>2, <3>3, <3>7 DEF Dropped, Commutative
      <4>3. EntryMatches(r)'
        BY <2>1, <3>1, <4>1, <4>2 DEF EntryMatches
      <4>4. resources'[r] \in LockState
        BY <3>4, <4>2 DEF Commutative, LockState
      <4> QED
        BY <4>3, <4>4
    <3> QED
      BY <3>6, <3>7
  <2>7. CASE r \notin req.reads /\ r \notin req.writes
    <3>1. resources'[r] = resources[r]
      BY <1>1, <2>7 DEF AfterRelease
    <3>2. Readers(r)' = Readers(r) /\ Writers(r)' = Writers(r)
      BY <2>1, <2>2, <2>7
    <3>3. \A v : (\E w \in held : Writers(r) = {w} /\ w = v) => v # u
      BY <2>2, <2>7
    <3> QED
      BY <2>3, <3>1, <3>2, <3>3 DEF EntryMatches
  <2>8. r \in req.writes => resources[r].mode \in {"write", "commutative"}
    BY <2>2, <2>3, EntryByMode
  <2> QED
    BY <2>4, <2>5, <2>6, <2>7, <2>8
<1>3. running' = Cardinality(held')
  <2>1. Cardinality(held') = Cardinality(held) - 1 /\ running = Cardinality(held)
    BY HoldersFinite, FS_RemoveElement DEF TableMatchesHolders
  <2>2. Cardinality(held) # 0
    BY HoldersFinite, FS_EmptySet
  <2> QED
    BY <2>1, <2>2 DEF ReleaseRequest
<1>4. LockTypeOK'
  <2>1. running' \in Nat
    BY DEF ReleaseRequest, LockTypeOK
  <2>2. resources' \in [Resource -> LockState]
    BY <1>1, <1>2 DEF AfterRelease
  <2> QED
    BY <1>1, <2>1, <2>2 DEF LockTypeOK
<1>5. ~exclusive
  BY DEF TableMatchesHolders
<1> QED
  BY <1>1, <1>2, <1>3, <1>4, <1>5 DEF TableMatchesHolders

LEMMA NextPreservesInv == LockInv /\ [LockNext]_lockVars => LockInv'
<1> SUFFICES ASSUME LockInv, [LockNext]_lockVars PROVE LockInv'
  OBVIOUS
<1>1. ASSUME NEW u \in Unit, Acquire(u) PROVE LockInv'
  BY <1>1, WorldAcquirePreservesInv, SharedAcquirePreservesInv
  DEF Acquire, TryAcquire
<1>2. ASSUME NEW u \in Unit, AcquirePanics(u) PROVE LockInv'
  BY <1>2
  DEF AcquirePanics, LockInv, LockTypeOK, TableMatchesHolders, EntryMatches,
      Readers, Writers
<1>3. ASSUME NEW u \in Unit, Release(u) PROVE LockInv'
  BY <1>3, WorldReleasePreservesInv, SharedReleasePreservesInv DEF Release
<1>4. CASE UNCHANGED lockVars
  BY <1>4
  DEF lockVars, LockInv, LockTypeOK, TableMatchesHolders, EntryMatches,
      Readers, Writers
<1> QED
  BY <1>1, <1>2, <1>3, <1>4 DEF LockNext

\* Every reachable table of locks.rs is well formed and its counters agree
\* with the units that hold requests.
THEOREM TableInvariant == LockSpec => [](LockTypeOK /\ TableMatchesHolders)
<1>1. LockSpec => []LockInv
  BY InitEstablishesInv, NextPreservesInv, PTL DEF LockSpec
<1> QED
  BY <1>1, PTL DEF LockInv

----------------------------------------------------------------------------
(* What the invariant gives the scheduler.                                 *)

\* Two holders of which one writes a resource: the other does not read it,
\* and writes it only as a commutative call of the same tool.
LEMMA HoldersCompatible ==
  ASSUME LockInv, NEW u \in held, NEW v \in held, u # v
  PROVE  /\ ~Request(u).world /\ ~Request(v).world
         /\ Disjoint(Request(u).writes, Request(v).reads)
         /\ ~Disjoint(Request(u).writes, Request(v).writes) =>
              /\ Request(u).commutative_tool = Request(v).commutative_tool
              /\ Request(u).commutative_tool # NoTool
<1>1. ~Request(u).world /\ ~Request(v).world
  BY DEF LockInv, TableMatchesHolders
<1>2. Request(u) \in LockRequest /\ Request(v) \in LockRequest
  BY RequestType DEF LockInv, LockTypeOK
<1>3. ASSUME NEW r \in Request(u).writes
      PROVE  /\ r \in Resource /\ EntryMatches(r)
             /\ u \in Writers(r)
  BY <1>1, <1>2 DEF LockRequest, LockInv, TableMatchesHolders, Writers
<1>4. ASSUME NEW r \in Request(u).writes, r \in Request(v).reads PROVE FALSE
  <2>1. v \in Readers(r)
    BY <1>1, <1>4 DEF Readers
  <2> QED
    BY <1>3, <2>1, EntryByMode
<1>5. ASSUME NEW r \in Request(u).writes, r \in Request(v).writes
      PROVE  /\ Request(u).commutative_tool = Request(v).commutative_tool
             /\ Request(u).commutative_tool # NoTool
  <2>1. v \in Writers(r)
    BY <1>1, <1>5 DEF Writers
  <2> QED
    BY <1>3, <2>1, EntryByMode, UnitAssumption
<1> QED
  BY <1>1, <1>4, <1>5 DEF Disjoint

\* Any two nodes running at the same time may run together by the effect
\* rules of the graph crate, whatever the plan and the order of events.
THEOREM ExclusionTheorem == LockSpec => []EffectExclusion
<1>1. LockInv => EffectExclusion
  <2> SUFFICES ASSUME LockInv, NEW u \in held, NEW v \in held, u # v,
                      NEW m \in Members[u], NEW n \in Members[v]
               PROVE  CanRunWith(Effective(m), Effective(n))
    BY DEF EffectExclusion
  <2>1. u \in Unit /\ v \in Unit
    BY DEF LockInv, LockTypeOK
  <2>2. ~Request(u).world /\ ~Request(v).world
    BY HoldersCompatible
  <2>3. /\ Effective(m).declared /\ Effective(n).declared
        /\ Effective(m).reads \subseteq Request(u).reads
        /\ Effective(m).writes \subseteq Request(u).writes
        /\ Effective(n).reads \subseteq Request(v).reads
        /\ Effective(n).writes \subseteq Request(v).writes
    BY <2>1, <2>2, RequestCovers
  <2>4. /\ Disjoint(Effective(m).writes, Effective(n).reads)
        /\ Disjoint(Effective(n).writes, Effective(m).reads)
    BY <2>3, HoldersCompatible DEF Disjoint
  <2>5. ASSUME ~Disjoint(Effective(m).writes, Effective(n).writes)
        PROVE  /\ Effective(m).tool = Effective(n).tool
               /\ Effective(m).commutative /\ Effective(n).commutative
    <3>1. ~Disjoint(Request(u).writes, Request(v).writes)
      BY <2>3, <2>5 DEF Disjoint
    <3>2. /\ Request(u).commutative_tool = Request(v).commutative_tool
          /\ Request(u).commutative_tool # NoTool
      BY <3>1, HoldersCompatible
    <3> QED
      BY <2>1, <2>2, <3>2, RequestCovers
  <2> QED
    BY <2>3, <2>4, <2>5 DEF CanRunWith
<1> QED
  BY <1>1, TableInvariant, PTL DEF LockInv

\* When every holder has released, the table refuses nobody: the retry of the
\* run loop at scheduler.rs:74-86 is never refused by the locks.
THEOREM IdleTheorem == LockSpec => []IdleGrantsEverything
<1>1. LockInv => IdleGrantsEverything
  <2> SUFFICES ASSUME LockInv, held = {}, NEW u \in Unit
               PROVE  Grants(Request(u)) \/ Panics(Request(u))
    BY DEF IdleGrantsEverything
  <2>1. running = 0 /\ ~exclusive
    BY FS_EmptySet DEF LockInv, TableMatchesHolders
  <2>2. \A r \in Resource : resources[r].mode = "free"
    BY EntryByMode DEF LockInv, TableMatchesHolders, Readers, Writers
  <2>3. Request(u) \in LockRequest
    BY RequestType
  <2>4. IsCompatible(Request(u))
    BY <2>2, <2>3 DEF IsCompatible, LockRequest
  <2> QED
    BY <2>1, <2>4
    DEF Grants, GrantsWorld, GrantsShared, Panics, PassesChecks
<1> QED
  BY <1>1, TableInvariant, PTL DEF LockInv

\* Among units of one node, try_acquire decides exactly as can_run_with would
\* against every holder: the counters lose nothing and add nothing.
THEOREM MirrorTheorem == LockSpec => []MirrorsEffectRules
<1>1. LockInv => MirrorsEffectRules
  <2> SUFFICES ASSUME LockInv, held \cap Batch = {},
                      NEW u \in Unit \ (held \cup Batch), NEW m \in Node,
                      Members[u] = {m},
                      Disjoint(Effective(m).reads, Effective(m).writes)
               PROVE  Grants(Request(u)) <=>
                        \A v \in held, n \in Node :
                          Members[v] = {n} => CanRunWith(Effective(m), Effective(n))
    BY DEF MirrorsEffectRules
  <2> DEFINE a == Effective(m)
             req == Request(u)
  <2>1. /\ req = ForEffects(a) /\ req \in LockRequest
        /\ a.pure => a.writes = {}
        /\ a.declared \in BOOLEAN
    BY SingleRequest, RequestType, UnitAssumption
    DEF Effective, ForNode, IsContradictory, DeclaresSideEffects, Effects
  <2>2. /\ req.world <=> ~a.declared
        /\ a.declared => /\ req.reads = a.reads /\ req.writes = a.writes
                         /\ req.commutative_tool =
                              IF a.commutative THEN a.tool ELSE NoTool
    BY <2>1 DEF ForEffects, DefaultRequest
  <2>3. ASSUME NEW v \in held
        PROVE  \E n \in Node :
                 /\ Members[v] = {n} /\ Request(v) = ForEffects(Effective(n))
                 /\ Effective(n).pure => Effective(n).writes = {}
    <3>1. v \in Unit /\ v \notin Batch
      BY DEF LockInv, LockTypeOK
    <3>2. PICK n \in Node : Members[v] = {n}
      BY <3>1, UnitAssumption
    <3> QED
      BY <3>1, <3>2, SingleRequest, UnitAssumption
      DEF Effective, ForNode, IsContradictory, Effects
  <2>4. ASSUME Grants(req), NEW v \in held, NEW n \in Node, Members[v] = {n}
        PROVE  CanRunWith(a, Effective(n))
    <3> DEFINE b == Effective(n)
    <3>1. Request(v) = ForEffects(b)
      BY <2>3, <2>4
    <3>2. running # 0
      BY HoldersFinite, FS_EmptySet DEF LockInv, TableMatchesHolders
    <3>3. ~req.world /\ ~exclusive /\ IsCompatible(req)
      BY <2>4, <3>2 DEF Grants, GrantsWorld, GrantsShared, PassesChecks
    <3>4. ~Request(v).world
      BY <3>3 DEF LockInv, TableMatchesHolders
    <3>5. /\ b.declared /\ a.declared
          /\ Request(v).reads = b.reads /\ Request(v).writes = b.writes
          /\ Request(v).commutative_tool =
               IF b.commutative THEN b.tool ELSE NoTool
      BY <2>2, <3>1, <3>3, <3>4 DEF ForEffects, DefaultRequest
    <3>6. \A r : /\ r \in b.reads => v \in Readers(r)
                 /\ r \in b.writes => v \in Writers(r)
      BY <3>4, <3>5 DEF Readers, Writers
    <3>7. \A r \in Resource : EntryMatches(r)
      BY DEF LockInv, TableMatchesHolders
    <3>8. a.reads \subseteq Resource /\ a.writes \subseteq Resource
      BY <2>1, <2>2, <3>5 DEF LockRequest
    <3>9. Disjoint(a.writes, b.reads)
      BY <2>2, <3>3, <3>5, <3>6, <3>7, <3>8, EntryByMode
      DEF Disjoint, IsCompatible
    <3>10. Disjoint(b.writes, a.reads)
      BY <2>2, <3>3, <3>5, <3>6, <3>7, <3>8, EntryByMode
      DEF Disjoint, IsCompatible
    <3>11. ASSUME NEW r \in a.writes, r \in b.writes
           PROVE  a.tool = b.tool /\ a.commutative /\ b.commutative
      <4>1. v \in Writers(r) /\ EntryMatches(r)
        BY <3>6, <3>7, <3>8, <3>11
      <4>2. /\ resources[r].mode = "commutative"
            /\ resources[r].tool = req.commutative_tool
        BY <2>2, <3>3, <3>5, <3>11, <4>1, EntryByMode DEF IsCompatible
      <4>3. PICK t \in Tool : /\ Request(v).commutative_tool = t
                              /\ resources[r] = Commutative(t, Cardinality(Writers(r)))
        BY <4>1, <4>2, EntryByMode
      <4>4. req.commutative_tool = t /\ t # NoTool
        BY <4>2, <4>3, UnitAssumption DEF Commutative
      <4> QED
        BY <2>2, <3>5, <4>3, <4>4
    <3> QED
      BY <3>5, <3>9, <3>10, <3>11 DEF CanRunWith, Disjoint
  <2>5. ASSUME \A v \in held, n \in Node :
                 Members[v] = {n} => CanRunWith(a, Effective(n))
        PROVE  Grants(req)
    <3>1. CASE ~a.declared
      <4>1. held = {}
        BY <2>3, <2>5, <3>1 DEF CanRunWith
      <4>2. running = 0 /\ ~exclusive
        BY <4>1, FS_EmptySet DEF LockInv, TableMatchesHolders
      <4> QED
        BY <2>2, <3>1, <4>2 DEF Grants, GrantsWorld
    <3>2. CASE a.declared
      <4>1. ASSUME NEW v \in held
            PROVE  /\ ~Request(v).world
                   /\ Disjoint(a.writes, Request(v).reads)
                   /\ Disjoint(Request(v).writes, a.reads)
                   /\ \/ Disjoint(a.writes, Request(v).writes)
                      \/ /\ a.commutative
                         /\ Request(v).commutative_tool = a.tool
        <5>1. PICK n \in Node :
                 /\ Members[v] = {n} /\ Request(v) = ForEffects(Effective(n))
                 /\ Effective(n).pure => Effective(n).writes = {}
          BY <2>3
        <5>2. CanRunWith(a, Effective(n))
          BY <2>5, <5>1
        <5>3. /\ ~Request(v).world
              /\ Request(v).reads = Effective(n).reads
              /\ Request(v).writes = Effective(n).writes
              /\ Request(v).commutative_tool =
                   IF Effective(n).commutative THEN Effective(n).tool ELSE NoTool
          BY <5>1, <5>2 DEF ForEffects, CanRunWith
        <5>4. CASE a.pure /\ Effective(n).pure
          BY <2>1, <5>1, <5>3, <5>4 DEF Disjoint
        <5>5. CASE ~(a.pure /\ Effective(n).pure)
          BY <5>2, <5>3, <5>5 DEF CanRunWith
        <5> QED
          BY <5>4, <5>5
      <4>2. ~exclusive
        BY <4>1 DEF LockInv, TableMatchesHolders
      <4>3. a.reads \subseteq Resource /\ a.writes \subseteq Resource
        BY <2>1, <2>2, <3>2 DEF LockRequest
      <4>4. \A r \in Resource : EntryMatches(r)
        BY DEF LockInv, TableMatchesHolders
      <4>5. ASSUME NEW r \in a.reads
            PROVE  resources[r].mode \in {"free", "read"}
        <5>1. Writers(r) = {}
          BY <4>1 DEF Writers, Disjoint
        <5> QED
          BY <4>3, <4>4, <5>1, EntryByMode
      <4>6. ASSUME NEW r \in a.writes, resources[r].mode # "free"
            PROVE  /\ resources[r].mode = "commutative"
                   /\ resources[r].tool = req.commutative_tool
        <5>1. Readers(r) = {}
          BY <4>1 DEF Readers, Disjoint
        <5>2. \A v \in Writers(r) : /\ a.commutative
                                    /\ Request(v).commutative_tool = a.tool
          BY <4>1 DEF Writers, Disjoint
        <5>3. a.tool # NoTool
          BY UnitAssumption DEF Effective, ForNode
        <5>4. \/ /\ resources[r].mode = "write"
                 /\ \E v \in held : /\ Writers(r) = {v}
                                    /\ Request(v).commutative_tool = NoTool
              \/ /\ resources[r].mode = "commutative"
                 /\ Writers(r) # {}
                 /\ \E t \in Tool :
                      /\ \A v \in Writers(r) : Request(v).commutative_tool = t
                      /\ resources[r] = Commutative(t, Cardinality(Writers(r)))
          BY <4>3, <4>4, <4>6, <5>1, EntryByMode
        <5>5. PICK t \in Tool :
                 /\ resources[r].mode = "commutative"
                 /\ Writers(r) # {}
                 /\ \A v \in Writers(r) : Request(v).commutative_tool = t
                 /\ resources[r] = Commutative(t, Cardinality(Writers(r)))
          BY <5>2, <5>3, <5>4
        <5>6. a.tool = t /\ a.commutative
          BY <5>2, <5>5
        <5> QED
          BY <2>2, <3>2, <5>5, <5>6 DEF Commutative
      <4>7. IsCompatible(req)
        BY <2>2, <3>2, <4>5, <4>6 DEF IsCompatible
      <4> QED
        BY <2>2, <3>2, <4>2, <4>7
        DEF Grants, GrantsShared, PassesChecks, Disjoint
    <3> QED
      BY <2>1, <3>1, <3>2
  <2> QED
    BY <2>4, <2>5
<1> QED
  BY <1>1, TableInvariant, PTL DEF LockInv
=============================================================================
