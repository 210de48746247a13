-------------------------- MODULE SchedulerProofs --------------------------
(***************************************************************************)
(* Proofs about Scheduler for every plan, every set of limits and every    *)
(* run configuration: no unit is lost or queued twice, permits stay in     *)
(* step with the tasks, and the engine drives its lock table as LockTable  *)
(* allows.  With the theorems of LockTableProofs it follows that only      *)
(* compatible nodes ever run at the same time.                             *)
(*                                                                         *)
(* A unit is queued when its count of open dependencies reaches zero.      *)
(* That this happens once rests on the count being exact, so QueueInv      *)
(* ties it to the set of dependencies that have not been retired.          *)
(***************************************************************************)
EXTENDS Scheduler, LockTableProofs

Open(u) == {v \in UnitDeps(u) : ~Retired(v)}

\* The fields of the engine the proofs are about.
EngineType ==
  /\ ready \in [Unit -> Nat] /\ blocked \in [Unit -> Nat]
  /\ in_flight \in [Unit -> Nat] /\ remaining \in [Unit -> Nat]
  /\ prepared \in [Unit -> SUBSET Node]
  /\ \A u \in Unit : prepared[u] \subseteq Members[u]
  /\ total_in_flight \in Nat
  /\ tool_in_flight \in [Tool -> Nat]
  /\ preparation \in [Node -> {"run", "condition", "error"}]
  /\ config \in Config
  /\ panicked => pc = "unwound"

\* A unit is in one place at most, in none while it has open dependencies,
\* and its count of them is exact.
QueueInv ==
  \A u \in Unit :
    /\ Places(u) <= 1
    /\ remaining[u] > 0 => Places(u) = 0
    /\ pc # "unwound" => remaining[u] = Cardinality(Open(u))

\* The members of a unit that is done, and those its task leaves out, have
\* their verdict.
SettledInv ==
  \A u \in Unit :
    /\ pc # "unwound" /\ Retired(u) => \A n \in Members[u] : IsSettled(n)
    /\ in_flight[u] > 0 => \A n \in Members[u] \ prepared[u] : IsSettled(n)

EngineInv == EngineType /\ QueueInv /\ SettledInv /\ LimitsRespected

----------------------------------------------------------------------------
(* Units and their dependencies.                                           *)

LEMMA UnitToolType == \A u \in Unit : UnitTool(u) \in Tool
BY UnitAssumption DEF UnitTool

LEMMA UnitsFinite == IsFiniteSet(Unit) /\ \A S \in SUBSET Unit : IsFiniteSet(S)
BY UnitAssumption, FS_Subset

LEMMA UnitOfType == \A n \in Node : UnitOf(n) \in Unit
BY EngineAssumption DEF UnitOf

LEMMA UnitDepsType == \A u \in Unit : UnitDeps(u) \in SUBSET Unit /\ u \notin UnitDeps(u)
<1> SUFFICES ASSUME NEW u \in Unit PROVE UnitDeps(u) \in SUBSET Unit /\ u \notin UnitDeps(u)
  OBVIOUS
<1>1. \A n \in Members[u] : Deps[n] \subseteq Node
  BY UnitAssumption, EngineAssumption
<1> QED
  BY <1>1, UnitOfType DEF UnitDeps

\* One more member, or one less, of a finite set.
LEMMA CountUp ==
  ASSUME NEW S, IsFiniteSet(S), NEW x, x \notin S
  PROVE  Cardinality(S \cup {x}) = Cardinality(S) + 1
BY FS_AddElement

LEMMA CountDown ==
  ASSUME NEW S, IsFiniteSet(S), NEW x \in S
  PROVE  /\ Cardinality(S) \in Nat /\ Cardinality(S) > 0
         /\ Cardinality(S \ {x}) = Cardinality(S) - 1
<1>1. /\ Cardinality(S) \in Nat /\ IsFiniteSet(S \ {x})
      /\ Cardinality(S \ {x}) = Cardinality(S) - 1
  BY FS_RemoveElement, FS_CardinalityType
<1>2. Cardinality(S \ {x}) \in Nat
  BY <1>1, FS_CardinalityType
<1> QED
  BY <1>1, <1>2

----------------------------------------------------------------------------
(* Moving units between the queues.                                        *)

\* unblock: a unit leaves its last place, and its dependents are counted
\* down and queued when they have no open dependency left.
LEMMA RetireKeepsQueueInv ==
  ASSUME EngineType, QueueInv, pc # "unwound", NEW u \in Unit, Places(u) > 0,
         remaining' = Unblocked(u),
         \A w \in Unit : Places(w)' = IF w = u THEN 0
                                      ELSE Places(w) + (IF w \in Freed(u) THEN 1 ELSE 0)
  PROVE  /\ QueueInv'
         /\ \A w \in Unit : Retired(w)' <=> Retired(w) \/ w = u
<1> DEFINE Left(w) == IF w \in Dependents(u) THEN remaining[w] - 1 ELSE remaining[w]
<1>1. \A w \in Unit : Places(w) \in Nat
  BY DEF EngineType, Places
<1>2. ~Retired(u) /\ remaining[u] = 0
  BY <1>1 DEF QueueInv, Retired, EngineType
<1>3. ASSUME NEW w \in Dependents(u)
      PROVE  w \in Unit /\ w # u /\ u \in Open(w) /\ remaining[w] > 0
  <2>1. w \in Unit /\ w # u /\ u \in Open(w)
    BY <1>2, <1>3, UnitDepsType DEF Dependents, Open
  <2>2. IsFiniteSet(Open(w))
    BY <2>1, UnitDepsType, UnitsFinite DEF Open
  <2> QED
    BY <2>1, <2>2, CountDown DEF QueueInv
<1>4. \A w \in Unit : remaining'[w] = Left(w) /\ remaining'[w] \in Nat
  BY <1>3 DEF Unblocked, EngineType
<1>5. \A w \in Unit : w \in Freed(u) <=> w \in Dependents(u) /\ remaining[w] = 1
  BY <1>3 DEF Freed, Unblocked, EngineType
<1>6. \A w \in Unit : w \in Dependents(u) => Places(w) = 0
  BY <1>3 DEF QueueInv
<1>7. ASSUME NEW w \in Unit PROVE Retired(w)' <=> Retired(w) \/ w = u
  <2>1. CASE w = u
    BY <1>2, <1>3, <1>4, <2>1 DEF Retired
  <2>2. CASE w # u /\ w \in Dependents(u)
    BY <1>1, <1>3, <1>4, <1>5, <1>6, <2>2 DEF Retired, EngineType
  <2>3. CASE w # u /\ w \notin Dependents(u)
    BY <1>1, <1>4, <1>5, <2>3 DEF Retired
  <2> QED
    BY <2>1, <2>2, <2>3
<1>8. ASSUME NEW w \in Unit PROVE Places(w)' <= 1 /\ (remaining'[w] > 0 => Places(w)' = 0)
  <2>1. CASE w = u
    BY <2>1
  <2>2. CASE w # u /\ w \in Dependents(u)
    BY <1>1, <1>3, <1>4, <1>5, <1>6, <2>2 DEF EngineType
  <2>3. CASE w # u /\ w \notin Dependents(u)
    BY <1>1, <1>4, <1>5, <2>3 DEF QueueInv
  <2> QED
    BY <2>1, <2>2, <2>3
<1>9. ASSUME NEW w \in Unit PROVE remaining'[w] = Cardinality(Open(w)')
  <2>1. Open(w)' = Open(w) \ {u}
    BY <1>7, UnitDepsType DEF Open
  <2>2. IsFiniteSet(Open(w)) /\ remaining[w] = Cardinality(Open(w))
    BY UnitDepsType, UnitsFinite DEF Open, QueueInv
  <2>3. CASE w \in Dependents(u)
    BY <1>3, <1>4, <2>1, <2>2, <2>3, CountDown
  <2>4. CASE w \notin Dependents(u)
    <3>1. u \notin Open(w)
      BY <2>4 DEF Dependents, Open
    <3> QED
      BY <1>4, <2>1, <2>2, <2>4, <3>1
  <2> QED
    BY <2>3, <2>4
<1> QED
  BY <1>7, <1>8, <1>9 DEF QueueInv

\* A unit goes from one queue to another.
LEMMA MoveKeepsQueueInv ==
  ASSUME QueueInv, pc # "unwound", UNCHANGED remaining,
         \A w \in Unit : Places(w)' = Places(w)
  PROVE  QueueInv' /\ \A w \in Unit : Retired(w)' <=> Retired(w)
<1>1. \A w \in Unit : Retired(w)' <=> Retired(w)
  BY DEF Retired
<1>2. \A w \in Unit : Open(w)' = Open(w)
  BY <1>1, UnitDepsType DEF Open
<1> QED
  BY <1>1, <1>2 DEF QueueInv

----------------------------------------------------------------------------
(* Verdicts.                                                               *)

LEMMA RecordSettles ==
  ASSUME NEW oks, NEW fails, NEW skips, \A n \in DOMAIN skips : skips[n] # "none",
         Record(oks, fails, skips)
  PROVE  \A n \in Node : IsSettled(n)' <=>
           IsSettled(n) \/ n \in oks \cup fails \cup DOMAIN skips
BY DEF Record, IsSettled

LEMMA SettleUnitSettles ==
  ASSUME NEW u \in Unit, NEW fallback, fallback # "none", SettleUnit(u, fallback)
  PROVE  \A n \in Node : IsSettled(n)' <=> IsSettled(n) \/ n \in Members[u]
<1> DEFINE S == {n \in Members[u] : ~IsSettled(n)}
<1>1. /\ DOMAIN SkipAll(S, fallback) = S
      /\ \A n \in S : SkipAll(S, fallback)[n] # "none"
  BY DEF SkipAll, SkipReason
<1>2. Record({}, {}, SkipAll(S, fallback))
  BY DEF SettleUnit
<1>3. \A n \in Node : IsSettled(n)' <=> IsSettled(n) \/ n \in {} \cup {} \cup S
  <2> HIDE DEF S
  <2> QED
    BY <1>1, <1>2, RecordSettles
<1> QED
  BY <1>3

LEMMA PrepareSettles ==
  ASSUME EngineType, NEW u \in Unit, Prepare(u)
  PROVE  \A n \in Node : IsSettled(n)' <=>
           IsSettled(n) \/ n \in Members[u] \ Survivors(u)
<1>1. \A n \in DOMAIN PrepSkips(u) : PrepSkips(u)[n] # "none"
  BY DEF PrepSkips, SkipReason
<1>2. \A n \in Node : IsSettled(n)' <=>
        IsSettled(n) \/ n \in {} \cup PrepFails(u) \cup DOMAIN PrepSkips(u)
  BY <1>1, RecordSettles DEF Prepare
<1>3. Members[u] \subseteq Node
  BY UnitAssumption
<1>4. PrepFails(u) \cup DOMAIN PrepSkips(u) = Members[u] \ Survivors(u)
  BY <1>3 DEF PrepFails, PrepSkips, Survivors, EngineType
<1> QED
  BY <1>2, <1>4

\* Verdicts stay, so only units that end or start can disturb SettledInv.
LEMMA SettledStep ==
  ASSUME SettledInv, pc # "unwound",
         \A n \in Node : IsSettled(n) => IsSettled(n)',
         \A w \in Unit : Retired(w)' => Retired(w) \/ \A n \in Members[w] : IsSettled(n)',
         \A w \in Unit : in_flight'[w] > 0 =>
           \/ in_flight[w] > 0 /\ prepared'[w] = prepared[w]
           \/ \A n \in Members[w] \ prepared'[w] : IsSettled(n)'
  PROVE  SettledInv'
<1>1. \A w \in Unit : Members[w] \subseteq Node
  BY UnitAssumption
<1> QED
  BY <1>1 DEF SettledInv

----------------------------------------------------------------------------
(* Permits.                                                                *)

LEMMA RunningType ==
  ASSUME NEW t
  PROVE  /\ IsFiniteSet(Running) /\ IsFiniteSet({u \in Running : UnitTool(u) = t})
         /\ Cardinality(Running) \in Nat
         /\ Cardinality({u \in Running : UnitTool(u) = t}) \in Nat
BY UnitsFinite, FS_CardinalityType DEF Running

LEMMA LimitsUntouched ==
  ASSUME LimitsRespected, UNCHANGED <<admission, held, config>>
  PROVE  LimitsRespected'
BY DEF LimitsRespected, admission, Running, GlobalLimit

\* try_admit, for a unit that is not running.
LEMMA AdmitKeepsLimits ==
  ASSUME EngineType, LimitsRespected, NEW u \in Unit, in_flight[u] = 0,
         WithinLimits(u), held' = held \cup {u},
         total_in_flight' = total_in_flight + 1,
         tool_in_flight' = [tool_in_flight EXCEPT ![UnitTool(u)] = @ + 1],
         in_flight' = Plus(in_flight, {u}), UNCHANGED config
  PROVE  LimitsRespected'
<1>1. u \notin Running /\ Running' = Running \cup {u}
  BY DEF Running, Plus, EngineType
<1>2. Cardinality(Running') = Cardinality(Running) + 1
  BY <1>1, RunningType, CountUp
<1>3. GlobalLimit' = GlobalLimit /\ GlobalLimit \in Nat \cup {NoLimit}
  BY DEF GlobalLimit, EngineType, Config
<1>4. GlobalLimit' # NoLimit => total_in_flight' <= GlobalLimit'
  BY <1>3 DEF WithinLimits, Below, EngineType
<1>5. ASSUME NEW t \in Tool
      PROVE  /\ tool_in_flight'[t] = Cardinality({w \in Running' : UnitTool(w) = t})
             /\ ToolLimit[t] # NoLimit => tool_in_flight'[t] <= ToolLimit[t]
  <2> DEFINE S == {w \in Running : UnitTool(w) = t}
             T == {w \in Running' : UnitTool(w) = t}
  <2>1. tool_in_flight[t] = Cardinality(S) /\ IsFiniteSet(S) /\ Cardinality(S) \in Nat
    BY RunningType DEF LimitsRespected
  <2>2. CASE t = UnitTool(u)
    <3>1. T = S \cup {u} /\ u \notin S
      BY <1>1, <2>2
    <3>2. Cardinality(T) = Cardinality(S) + 1
      <4> HIDE DEF S, T
      <4> QED
        BY <2>1, <3>1, CountUp
    <3>3. tool_in_flight'[t] = tool_in_flight[t] + 1
      BY <2>2 DEF EngineType
    <3>4. ToolLimit[t] # NoLimit => tool_in_flight[t] < ToolLimit[t] /\ ToolLimit[t] \in Nat
      BY <2>2, EngineAssumption DEF WithinLimits, Below
    <3>5. tool_in_flight[t] \in Nat
      BY DEF EngineType
    <3> QED
      BY <2>1, <3>2, <3>3, <3>4, <3>5
  <2>3. CASE t # UnitTool(u)
    <3>1. T = S
      BY <1>1, <2>3
    <3>2. tool_in_flight'[t] = tool_in_flight[t]
      BY <2>3 DEF EngineType
    <3> QED
      BY <2>1, <3>1, <3>2 DEF LimitsRespected
  <2> QED
    BY <2>2, <2>3
<1> QED
  BY <1>1, <1>2, <1>4, <1>5 DEF LimitsRespected

\* Engine::release, for a unit that runs.
LEMMA ReleaseKeepsLimits ==
  ASSUME EngineType, LimitsRespected, NEW u \in Unit, in_flight[u] = 1,
         held' = held \ {u},
         total_in_flight' = IF total_in_flight = 0 THEN 0 ELSE total_in_flight - 1,
         tool_in_flight' =
           [tool_in_flight EXCEPT ![UnitTool(u)] = IF @ = 0 THEN 0 ELSE @ - 1],
         in_flight' = Minus(in_flight, u), UNCHANGED config
  PROVE  LimitsRespected'
<1>1. u \in Running /\ Running' = Running \ {u}
  BY DEF Running, Minus, EngineType
<1>2. Cardinality(Running') = Cardinality(Running) - 1 /\ Cardinality(Running) > 0
  BY <1>1, RunningType, CountDown
<1>3. total_in_flight' = total_in_flight - 1
  BY <1>2 DEF LimitsRespected, EngineType
<1>4. GlobalLimit' = GlobalLimit /\ GlobalLimit \in Nat \cup {NoLimit}
  BY DEF GlobalLimit, EngineType, Config
<1>5. GlobalLimit' # NoLimit => total_in_flight' <= GlobalLimit'
  BY <1>3, <1>4 DEF LimitsRespected, EngineType
<1>6. ASSUME NEW t \in Tool
      PROVE  /\ tool_in_flight'[t] = Cardinality({w \in Running' : UnitTool(w) = t})
             /\ ToolLimit[t] # NoLimit => tool_in_flight'[t] <= ToolLimit[t]
  <2> DEFINE S == {w \in Running : UnitTool(w) = t}
             T == {w \in Running' : UnitTool(w) = t}
  <2>1. tool_in_flight[t] = Cardinality(S) /\ IsFiniteSet(S) /\ Cardinality(S) \in Nat
    BY RunningType DEF LimitsRespected
  <2>2. ToolLimit[t] # NoLimit => tool_in_flight[t] <= ToolLimit[t] /\ ToolLimit[t] \in Nat
    BY EngineAssumption DEF LimitsRespected
  <2>3. CASE t = UnitTool(u)
    <3>1. T = S \ {u} /\ u \in S
      BY <1>1, <2>3
    <3>2. Cardinality(T) = Cardinality(S) - 1 /\ Cardinality(S) > 0
      <4> HIDE DEF S, T
      <4> QED
        BY <2>1, <3>1, CountDown
    <3>3. tool_in_flight'[t] = tool_in_flight[t] - 1
      BY <2>1, <2>3, <3>2 DEF EngineType
    <3> QED
      BY <2>1, <2>2, <3>2, <3>3
  <2>4. CASE t # UnitTool(u)
    <3>1. T = S
      BY <1>1, <2>4
    <3>2. tool_in_flight'[t] = tool_in_flight[t]
      BY <2>4 DEF EngineType
    <3> QED
      BY <2>1, <2>2, <3>1, <3>2
  <2> QED
    BY <2>3, <2>4
<1> QED
  BY <1>1, <1>2, <1>3, <1>5, <1>6 DEF LimitsRespected

----------------------------------------------------------------------------
(* The invariant.                                                          *)

LEMMA InitEstablishesEngineInv == Init => EngineInv
<1> SUFFICES ASSUME Init PROVE EngineInv
  OBVIOUS
<1> USE DEF Init
<1>1. \A u \in Unit : /\ IsFiniteSet(UnitDeps(u)) /\ Cardinality(UnitDeps(u)) \in Nat
                      /\ Cardinality(UnitDeps(u)) = 0 <=> UnitDeps(u) = {}
  BY UnitDepsType, UnitsFinite, FS_CardinalityType, FS_EmptySet
<1>2. EngineType
  BY <1>1, RunAssumption DEF EngineType, LockInit
<1>3. \A u \in Unit : Places(u) = IF UnitDeps(u) = {} THEN 1 ELSE 0
  BY DEF Places
<1>4. \A u \in Unit : ~Retired(u)
  BY <1>1, <1>3 DEF Retired
<1>5. QueueInv
  <2>1. \A u \in Unit : Open(u) = UnitDeps(u)
    BY <1>4, UnitDepsType DEF Open
  <2> QED
    BY <1>1, <1>3, <2>1 DEF QueueInv
<1>6. SettledInv
  BY <1>4 DEF SettledInv
<1>7. LimitsRespected
  <2>1. Running = {}
    BY DEF Running
  <2>2. \A t \in Tool : {u \in Running : UnitTool(u) = t} = {}
    BY <2>1
  <2>3. Cardinality({}) = 0
    BY FS_EmptySet
  <2>4. GlobalLimit \in Nat \cup {NoLimit}
    BY <1>2 DEF GlobalLimit, EngineType, Config
  <2> QED
    BY <2>1, <2>2, <2>3, <2>4, EngineAssumption DEF LimitsRespected, LockInit
<1> QED
  BY <1>2, <1>5, <1>6, <1>7 DEF EngineInv

\* A popped unit is only in the heap, and has no open dependency.
LEMMA PoppedUnit ==
  ASSUME EngineInv, NEW u \in Unit, ready[u] > 0
  PROVE  ready[u] = 1 /\ blocked[u] = 0 /\ in_flight[u] = 0 /\ remaining[u] = 0
<1>1. {ready[u], blocked[u], in_flight[u], remaining[u]} \subseteq Nat
  BY DEF EngineInv, EngineType
<1>2. /\ ready[u] + blocked[u] + in_flight[u] <= 1
      /\ remaining[u] > 0 => ready[u] + blocked[u] + in_flight[u] = 0
  BY DEF EngineInv, QueueInv, Places
<1> QED
  BY <1>1, <1>2

\* Where the units are once a unit has left the heap for good.
LEMMA RetiringPopPlaces ==
  ASSUME EngineInv, NEW u \in Unit, ready[u] > 0,
         ready' = Plus(Minus(ready, u), Freed(u)), UNCHANGED <<blocked, in_flight>>
  PROVE  /\ Places(u) > 0
         /\ \A w \in Unit : Places(w)' = IF w = u THEN 0
                              ELSE Places(w) + (IF w \in Freed(u) THEN 1 ELSE 0)
<1>1. u \notin Freed(u)
  BY UnitDepsType DEF Freed, Dependents
<1>2. Places(u) > 0
  BY PoppedUnit DEF Places
<1>3. \A w \in Unit : Places(w)' = IF w = u THEN 0
                                   ELSE Places(w) + (IF w \in Freed(u) THEN 1 ELSE 0)
  BY <1>1, PoppedUnit DEF EngineInv, EngineType, Plus, Minus, Places
<1> QED
  BY <1>2, <1>3

\* A unit that leaves the heap for good: settled because the engine stops, or
\* with no member left to run.
LEMMA RetiringPop ==
  ASSUME EngineInv, NEW u \in Unit, pc # "unwound", ready[u] > 0,
         \A n \in Node : IsSettled(n)' <=> IsSettled(n) \/ n \in Members[u],
         remaining' = Unblocked(u), ready' = Plus(Minus(ready, u), Freed(u)),
         UNCHANGED <<pc, blocked, admission, config, preparation, held, panicked>>
  PROVE  EngineInv'
<1> USE DEF EngineInv
<1>1. Members[u] \subseteq Node /\ u \notin Freed(u)
  BY UnitAssumption, UnitDepsType DEF Freed, Dependents
<1>2. EngineType'
  BY PoppedUnit DEF EngineType, Plus, Minus, Unblocked, admission
<1>3. QueueInv' /\ \A w \in Unit : Retired(w)' <=> Retired(w) \/ w = u
  BY RetiringPopPlaces, RetireKeepsQueueInv DEF admission
<1>4. SettledInv'
  BY <1>1, <1>3, SettledStep DEF admission
<1>5. LimitsRespected'
  BY LimitsUntouched
<1> QED
  BY <1>2, <1>3, <1>4, <1>5

LEMMA PopPreservesInv ==
  ASSUME EngineInv, NEW u \in Unit, Pop(u)
  PROVE  EngineInv'
<1> USE DEF EngineInv
<1>1. Members[u] \subseteq Node /\ Survivors(u) \subseteq Members[u]
  BY UnitAssumption DEF Survivors
<1>2. CASE PopStopped(u)
  BY <1>1, <1>2, SettleUnitSettles, RetiringPop
  DEF PopStopped, Popping, Top, world, lockVars
<1>3. CASE PopNoSurvivor(u)
  BY <1>1, <1>3, PrepareSettles, RetiringPop
  DEF PopNoSurvivor, Preparing, Popping, Top, world, lockVars
<1>4. CASE PopRefused(u)
  <2> USE <1>4 DEF PopRefused, Preparing, Popping, Top, world, lockVars, admission
  <2>1. ready[u] = 1 /\ blocked[u] = 0 /\ in_flight[u] = 0
    BY PoppedUnit
  <2>2. EngineType'
    BY <2>1 DEF EngineType, Plus, Minus
  <2>3. \A w \in Unit : Places(w)' = Places(w)
    BY <2>1 DEF EngineType, Plus, Minus, Places
  <2>4. QueueInv' /\ \A w \in Unit : Retired(w)' <=> Retired(w)
    BY <2>3, MoveKeepsQueueInv
  <2>5. SettledInv'
    BY <2>4, PrepareSettles, SettledStep
  <2>6. LimitsRespected'
    BY LimitsUntouched
  <2> QED
    BY <2>2, <2>4, <2>5, <2>6
<1>5. CASE PopSpawned(u)
  <2> USE <1>5 DEF PopSpawned, Preparing, Popping, Top, world
  <2>1. ready[u] = 1 /\ blocked[u] = 0 /\ in_flight[u] = 0
    BY PoppedUnit
  <2>2. EngineType'
    BY <1>1, <2>1, UnitToolType DEF EngineType, Plus, Minus, Admit
  <2>3. \A w \in Unit : Places(w)' = Places(w)
    BY <2>1 DEF EngineType, Plus, Minus, Places
  <2>4. QueueInv' /\ \A w \in Unit : Retired(w)' <=> Retired(w)
    BY <2>3, MoveKeepsQueueInv
  <2>5. \A n \in Members[u] \ prepared'[u] : IsSettled(n)'
    BY <1>1, PrepareSettles DEF EngineType
  <2>6. \A w \in Unit : w # u => in_flight'[w] = in_flight[w] /\ prepared'[w] = prepared[w]
    BY DEF EngineType, Plus
  <2>7. SettledInv'
    BY <2>4, <2>5, <2>6, PrepareSettles, SettledStep
  <2>8. LimitsRespected'
    BY <2>1, AdmitKeepsLimits DEF Admit
  <2> QED
    BY <2>2, <2>4, <2>7, <2>8
<1>6. CASE PopUnwinds(u)
  <2> USE <1>6 DEF PopUnwinds, Preparing, Popping, Top, world, admission
  <2>1. ready[u] = 1 /\ blocked[u] = 0 /\ in_flight[u] = 0 /\ remaining[u] = 0
    BY PoppedUnit
  <2>2. EngineType'
    BY <2>1 DEF EngineType, Minus
  <2>3. QueueInv'
    BY <2>1 DEF QueueInv, EngineType, Minus, Places
  <2>4. SettledInv'
    BY <1>1, PrepareSettles, UnitAssumption DEF SettledInv
  <2>5. LimitsRespected'
    BY LimitsUntouched
  <2> QED
    BY <2>2, <2>3, <2>4, <2>5
<1> QED
  BY <1>2, <1>3, <1>4, <1>5, <1>6 DEF Pop

\* The same once a task has been joined and the refused units are queued again.
LEMMA JoinedPlaces ==
  ASSUME EngineInv, NEW u \in Unit, in_flight[u] > 0, in_flight' = Minus(in_flight, u),
         Requeue(Plus(ready, Freed(u)))
  PROVE  /\ in_flight[u] = 1 /\ Places(u) > 0
         /\ \A w \in Unit : Places(w)' = IF w = u THEN 0
                              ELSE Places(w) + (IF w \in Freed(u) THEN 1 ELSE 0)
<1> USE DEF EngineInv
<1>1. {ready[u], blocked[u], in_flight[u], remaining[u]} \subseteq Nat
  BY DEF EngineType
<1>2. ready[u] + blocked[u] + in_flight[u] <= 1
  BY DEF QueueInv, Places
<1>3. in_flight[u] = 1 /\ ready[u] = 0 /\ blocked[u] = 0
  BY <1>1, <1>2
<1>4. u \notin Freed(u)
  BY UnitDepsType DEF Freed, Dependents
<1>5. \A w \in Unit : Places(w)' = IF w = u THEN 0
                                   ELSE Places(w) + (IF w \in Freed(u) THEN 1 ELSE 0)
  <2> SUFFICES ASSUME NEW w \in Unit
               PROVE  Places(w)' = IF w = u THEN 0
                        ELSE Places(w) + (IF w \in Freed(u) THEN 1 ELSE 0)
    OBVIOUS
  <2>1. {ready[w], blocked[w], in_flight[w]} \subseteq Nat
    BY DEF EngineType
  <2>2. /\ ready'[w] = ready[w] + (IF w \in Freed(u) THEN 1 ELSE 0) + blocked[w]
        /\ blocked'[w] = 0
        /\ in_flight'[w] = IF w = u THEN in_flight[w] - 1 ELSE in_flight[w]
    BY DEF EngineType, Requeue, Plus, Minus
  <2>3. /\ Places(w) = ready[w] + blocked[w] + in_flight[w]
        /\ Places(w)' = ready'[w] + blocked'[w] + in_flight'[w]
    BY DEF Places
  <2> HIDE DEF EngineInv
  <2>4. CASE w = u
    BY <1>3, <1>4, <2>2, <2>3, <2>4
  <2>5. CASE w # u
    BY <2>1, <2>2, <2>3, <2>5
  <2> QED
    BY <2>4, <2>5
<1>6. Places(u) > 0
  BY <1>3 DEF Places
<1> QED
  BY <1>3, <1>5, <1>6

LEMMA JoinedPreservesInv ==
  ASSUME EngineInv, NEW u \in Unit, NEW oks, NEW fails, Joined(u, oks, fails),
         prepared[u] \subseteq oks \cup fails
  PROVE  EngineInv'
<1> USE DEF EngineInv, Joined, world
<1>1. in_flight[u] = 1
  BY JoinedPlaces
<1>2. Members[u] \subseteq Node
  BY UnitAssumption
<1>3. EngineType'
  BY <1>1, UnitToolType
  DEF EngineType, Requeue, Plus, Minus, Unblocked, ReleaseUnit
<1>4. QueueInv' /\ \A w \in Unit : Retired(w)' <=> Retired(w) \/ w = u
  BY JoinedPlaces, RetireKeepsQueueInv
<1>5. \A n \in Node : IsSettled(n)' <=> IsSettled(n) \/ n \in oks \cup fails
  BY DEF Record, IsSettled
<1>6. \A n \in Members[u] : IsSettled(n)'
  BY <1>1, <1>2, <1>5 DEF SettledInv
<1>7. \A w \in Unit : in_flight'[w] > 0 =>
         in_flight[w] > 0 /\ prepared'[w] = prepared[w]
  BY <1>1 DEF EngineType, Minus
<1>8. SettledInv'
  BY <1>4, <1>5, <1>6, <1>7, SettledStep
<1>9. LimitsRespected'
  BY <1>1, ReleaseKeepsLimits DEF ReleaseUnit
<1> QED
  BY <1>3, <1>4, <1>8, <1>9

\* The same once a unit that was refused for good has been settled.
LEMMA LeftoverPlaces ==
  ASSUME EngineInv, NEW u \in Unit, blocked[u] > 0, blocked' = Minus(blocked, u),
         ready' = Plus(ready, Freed(u)), UNCHANGED in_flight
  PROVE  /\ blocked[u] = 1 /\ Places(u) > 0
         /\ \A w \in Unit : Places(w)' = IF w = u THEN 0
                              ELSE Places(w) + (IF w \in Freed(u) THEN 1 ELSE 0)
<1> USE DEF EngineInv
<1>1. {ready[u], blocked[u], in_flight[u], remaining[u]} \subseteq Nat
  BY DEF EngineType
<1>2. ready[u] + blocked[u] + in_flight[u] <= 1
  BY DEF QueueInv, Places
<1>3. in_flight[u] = 0 /\ ready[u] = 0 /\ blocked[u] = 1
  BY <1>1, <1>2
<1>4. u \notin Freed(u)
  BY UnitDepsType DEF Freed, Dependents
<1>5. \A w \in Unit : Places(w)' = IF w = u THEN 0
                                   ELSE Places(w) + (IF w \in Freed(u) THEN 1 ELSE 0)
  BY <1>3, <1>4 DEF EngineType, Plus, Minus, Places
<1>6. Places(u) > 0
  BY <1>3 DEF Places
<1> QED
  BY <1>3, <1>5, <1>6

LEMMA SettleLeftoverPreservesInv ==
  ASSUME EngineInv, NEW u \in Unit, SettleLeftover(u)
  PROVE  EngineInv'
<1> USE DEF EngineInv, SettleLeftover, world, admission, lockVars
<1>1. blocked[u] = 1
  BY LeftoverPlaces
<1>2. Members[u] \subseteq Node
  BY UnitAssumption
<1>3. EngineType'
  BY <1>1 DEF EngineType, Plus, Minus, Unblocked
<1>4. QueueInv' /\ \A w \in Unit : Retired(w)' <=> Retired(w) \/ w = u
  BY LeftoverPlaces, RetireKeepsQueueInv
<1>5. \A n \in Node : IsSettled(n)' <=> IsSettled(n) \/ n \in Members[u]
  BY SettleUnitSettles
<1>6. SettledInv'
  BY <1>2, <1>4, <1>5, SettledStep
<1>7. LimitsRespected'
  BY LimitsUntouched
<1> QED
  BY <1>3, <1>4, <1>6, <1>7

\* A step of the loop that only moves units between the heap and the list of
\* refused ones, and takes no verdict back.
LEMMA LoopStepPreservesInv ==
  ASSUME EngineInv, pc # "unwound", pc' # "unwound", ready' \in [Unit -> Nat],
         blocked' \in [Unit -> Nat],
         \A w \in Unit : ready'[w] + blocked'[w] = ready[w] + blocked[w],
         \A n \in Node : IsSettled(n) => IsSettled(n)',
         UNCHANGED <<remaining, admission, config, preparation, held, panicked>>
  PROVE  EngineInv'
<1> USE DEF EngineInv, admission
<1>1. EngineType'
  BY DEF EngineType
<1>2. \A w \in Unit : Places(w)' = Places(w)
  BY DEF Places, EngineType
<1>3. QueueInv' /\ \A w \in Unit : Retired(w)' <=> Retired(w)
  BY <1>2, MoveKeepsQueueInv
<1>4. SettledInv'
  BY <1>3, SettledStep
<1>5. LimitsRespected'
  BY LimitsUntouched
<1> QED
  BY <1>1, <1>3, <1>4, <1>5

LEMMA FinishPreservesInv ==
  ASSUME EngineInv, Finish
  PROVE  EngineInv'
<1> DEFINE S == {n \in Node : ~IsSettled(n)}
           reason == IF stop = "none" THEN "NotRun" ELSE stop
<1>1. /\ DOMAIN SkipAll(S, reason) = S
      /\ \A n \in S : SkipAll(S, reason)[n] # "none"
  BY DEF SkipAll, SkipReason
<1>2. Record({}, {}, SkipAll(S, reason))
  BY DEF Finish
<1>3. \A n \in Node : IsSettled(n) => IsSettled(n)'
  <2> HIDE DEF S, reason
  <2> QED
    BY <1>1, <1>2, RecordSettles
<1>4. UNCHANGED <<queues, admission, world, lockVars>> /\ pc = "finish" /\ pc' = "done"
  BY DEF Finish
<1>5. ready \in [Unit -> Nat] /\ blocked \in [Unit -> Nat]
  BY DEF EngineInv, EngineType
<1> QED
  BY <1>3, <1>4, <1>5, LoopStepPreservesInv DEF queues, world, lockVars

LEMMA NextPreservesEngineInv == EngineInv /\ [Next]_vars => EngineInv'
<1> SUFFICES ASSUME EngineInv, [Next]_vars PROVE EngineInv'
  OBVIOUS
<1>1. ready \in [Unit -> Nat] /\ blocked \in [Unit -> Nat]
  BY DEF EngineInv, EngineType
<1>2. ASSUME NEW u \in Unit, JoinOutcome(u) \/ JoinPanicked(u) PROVE EngineInv'
  <2>1. CASE JoinOutcome(u)
    <3>1. PICK oks \in SUBSET prepared[u] : Joined(u, oks, prepared[u] \ oks)
      BY <2>1 DEF JoinOutcome
    <3> QED
      BY <3>1, JoinedPreservesInv
  <2>2. CASE JoinPanicked(u)
    <3>1. Joined(u, {}, Members[u])
      BY <2>2 DEF JoinPanicked
    <3>2. prepared[u] \subseteq Members[u]
      BY DEF EngineInv, EngineType
    <3> QED
      BY <3>1, <3>2, JoinedPreservesInv
  <2> QED
    BY <1>2, <2>1, <2>2
<1>3. CASE EndSchedule
  <2>1. \/ Requeue(ready)
        \/ UNCHANGED <<ready, blocked>>
    BY <1>3 DEF EndSchedule
  <2>2. /\ ready' \in [Unit -> Nat] /\ blocked' \in [Unit -> Nat]
        /\ \A w \in Unit : ready'[w] + blocked'[w] = ready[w] + blocked[w]
    BY <1>1, <2>1 DEF Requeue
  <2> QED
    BY <1>3, <2>2, LoopStepPreservesInv
    DEF EndSchedule, verdicts, IsSettled, world, lockVars
<1>4. CASE EndRetry
  BY <1>1, <1>4, LoopStepPreservesInv
  DEF EndRetry, queues, verdicts, IsSettled, world, lockVars
<1>5. CASE EndLeftovers
  BY <1>1, <1>5, LoopStepPreservesInv
  DEF EndLeftovers, queues, verdicts, IsSettled, world, lockVars
<1>6. CASE SeeCancel
  BY <1>1, <1>6, LoopStepPreservesInv
  DEF SeeCancel, queues, IsSettled, world, lockVars
<1>7. CASE Cancel \/ UNCHANGED vars
  <2>1. UNCHANGED <<pc, queues, admission, verdicts, config, preparation, held, panicked>>
    BY <1>7 DEF Cancel, vars, world, lockVars
  <2> USE <2>1 DEF queues, admission, verdicts, EngineInv
  <2>2. EngineType'
    BY DEF EngineType
  <2>3. \A w \in Unit : Places(w)' = Places(w) /\ (Retired(w)' <=> Retired(w))
    BY DEF Places, Retired
  <2>4. \A w \in Unit : Open(w)' = Open(w)
    BY <2>3, UnitDepsType DEF Open
  <2>5. QueueInv'
    BY <2>3, <2>4 DEF QueueInv
  <2>6. SettledInv'
    BY <2>3 DEF SettledInv, IsSettled
  <2>7. LimitsRespected'
    BY LimitsUntouched
  <2> QED
    BY <2>2, <2>5, <2>6, <2>7
<1> QED
  BY <1>2, <1>3, <1>4, <1>5, <1>6, <1>7, PopPreservesInv, SettleLeftoverPreservesInv,
     FinishPreservesInv
  DEF Next, EngineStep, Stopped

----------------------------------------------------------------------------
(* The theorems.                                                           *)

LEMMA EngineInvariant == Spec => []EngineInv
BY InitEstablishesEngineInv, NextPreservesEngineInv, PTL DEF Spec

\* No unit is queued twice or forgotten, for every plan (scheduler.rs:141-145
\* and 461-474).
THEOREM UnitsTheorem == Spec => []NoUnitLostOrDoubled
<1>1. EngineInv => NoUnitLostOrDoubled
  BY DEF EngineInv, QueueInv, SettledInv, NoUnitLostOrDoubled, Open
<1> QED
  BY <1>1, EngineInvariant, PTL

\* Permits stay in step with the tasks and no limit is ever exceeded
\* (scheduler.rs:313-351).
THEOREM LimitsTheorem == Spec => []LimitsRespected
<1>1. EngineInv => LimitsRespected
  BY DEF EngineInv
<1> QED
  BY <1>1, EngineInvariant, PTL

LEMMA StepImplementsLockNext ==
  EngineInv /\ EngineInv' /\ [Next]_vars => [LockNext]_lockVars
<1> SUFFICES ASSUME EngineInv, [Next]_vars PROVE [LockNext]_lockVars
  OBVIOUS
<1>1. \A u \in Unit : u \in held <=> in_flight[u] > 0
  BY DEF EngineInv, LimitsRespected, Running
<1>2. pc # "unwound" => ~panicked
  BY DEF EngineInv, EngineType
<1>3. ASSUME NEW u \in Unit, Pop(u) PROVE [LockNext]_lockVars
  <2>1. ready[u] > 0 /\ pc # "unwound"
    BY <1>3
    DEF Pop, PopStopped, PopNoSurvivor, PopRefused, PopSpawned, PopUnwinds,
        Preparing, Popping, Top
  <2>2. u \notin held /\ ~panicked
    BY <1>1, <1>2, <2>1, PoppedUnit
  <2>3. CASE PopSpawned(u)
    BY <2>2, <2>3 DEF PopSpawned, Admit, LockNext, Acquire
  <2>4. CASE PopUnwinds(u)
    BY <2>2, <2>4 DEF PopUnwinds, LockNext, AcquirePanics
  <2> QED
    BY <1>3, <2>3, <2>4 DEF Pop, PopStopped, PopNoSurvivor, PopRefused
<1>4. ASSUME NEW u \in Unit, JoinOutcome(u) \/ JoinPanicked(u) PROVE [LockNext]_lockVars
  <2>1. PICK oks, fails : Joined(u, oks, fails)
    BY <1>4 DEF JoinOutcome, JoinPanicked
  <2> QED
    BY <1>1, <1>2, <2>1 DEF Joined, ReleaseUnit, LockNext, Release
<1>5. CASE UNCHANGED lockVars
  BY <1>5
<1> QED
  BY <1>3, <1>4, <1>5
  DEF Next, EngineStep, SettleLeftover, EndSchedule, EndRetry, EndLeftovers, SeeCancel,
      Finish, Cancel, Stopped, vars

\* The engine drives its lock table as LockTable allows (scheduler.rs:336 and
\* 346): it acquires for a unit that holds nothing and releases what is held.
THEOREM LockRefinement == Spec => ImplementsLockTable
<1>1. Init => LockInit
  BY DEF Init
<1> QED
  BY <1>1, EngineInvariant, StepImplementsLockNext, PTL
  DEF Spec, ImplementsLockTable, LockSpec

\* The purpose of the engine (scheduler.rs:4-7): for every plan, any two nodes
\* of different units that run at the same time may run together.
THEOREM RunningCompatible == Spec => []EffectExclusion
BY LockRefinement, ExclusionTheorem, PTL DEF ImplementsLockTable

----------------------------------------------------------------------------
(* Waking up and ending.                                                   *)

\* What each place of the loop of Engine::run may rely on.
PhaseInv ==
  /\ pc = "join" => ~Empty(in_flight) /\ Empty(ready)
  /\ pc \in {"leftovers", "finish"} => Empty(in_flight)
  /\ pc = "finish" => Empty(ready) /\ Empty(blocked)
  /\ pc \in {"schedule", "retry", "join"} /\ stop = "none" =>
       \A u \in Unit : blocked[u] > 0 => ~Admissible(u)

\* Admitting one unit never makes another one admissible.
LEMMA AdmitOnlyRefuses ==
  ASSUME EngineType, LockInv, NEW u \in Unit, NEW v \in Unit, Admit(v),
         UNCHANGED config, Admissible(u)'
  PROVE  Admissible(u)
<1>1. Request(u) \in LockRequest /\ Request(v) \in LockRequest
  BY RequestType
<1>2. GlobalLimit' = GlobalLimit /\ GlobalLimit \in Nat \cup {NoLimit}
  BY DEF GlobalLimit, EngineType, Config
<1>3. \A t \in Tool : tool_in_flight[t] \in Nat /\ tool_in_flight'[t] >= tool_in_flight[t]
  BY UnitToolType DEF Admit, EngineType
<1>4. total_in_flight \in Nat /\ total_in_flight' >= total_in_flight
  BY DEF Admit, EngineType
<1>5. UnitTool(u) \in Tool /\ ToolLimit[UnitTool(u)] \in Nat \cup {NoLimit}
  BY UnitToolType, EngineAssumption
<1>6. Below(total_in_flight, GlobalLimit)
  <2>1. total_in_flight' \in Nat
    BY DEF Admit, EngineType
  <2>2. Below(total_in_flight', GlobalLimit)
    BY <1>2 DEF Admissible, WithinLimits
  <2> QED
    BY <1>2, <1>4, <2>1, <2>2 DEF Below
<1>7. Below(tool_in_flight[UnitTool(u)], ToolLimit[UnitTool(u)])
  <2>1. tool_in_flight'[UnitTool(u)] \in Nat
    BY <1>5, UnitToolType DEF Admit, EngineType
  <2>2. Below(tool_in_flight'[UnitTool(u)], ToolLimit[UnitTool(u)])
    BY DEF Admissible, WithinLimits
  <2> QED
    BY <1>3, <1>5, <2>1, <2>2 DEF Below
<1>8. ~exclusive' /\ running' > 0
  BY DEF Admissible, Grants, GrantsWorld, GrantsShared, PassesChecks, Admit,
         TryAcquire, LockInv, LockTypeOK
<1>9. /\ GrantsShared(Request(v)) /\ resources' = AfterAcquire(Request(v))
      /\ GrantsShared(Request(u))'
  BY <1>8 DEF Admissible, Grants, GrantsWorld, Admit, TryAcquire
<1>10. /\ IsCompatible(Request(v)) /\ IsCompatible(Request(u))'
       /\ ~Request(u).world /\ Disjoint(Request(u).reads, Request(u).writes) /\ ~exclusive
  BY <1>9 DEF GrantsShared, PassesChecks
<1>11. ASSUME NEW r \in Request(u).reads PROVE resources[r].mode \in {"free", "read"}
  <2>1. r \in Resource /\ resources'[r].mode \in {"free", "read"}
    BY <1>1, <1>10 DEF LockRequest, IsCompatible
  <2> QED
    BY <1>9, <1>10, <2>1
    DEF AfterAcquire, Write, Commutative, Read, IsCompatible
<1>12. ASSUME NEW r \in Request(u).writes
       PROVE  \/ resources[r].mode = "free"
              \/ /\ resources[r].mode = "commutative"
                 /\ resources[r].tool = Request(u).commutative_tool
  <2>1. /\ r \in Resource
        /\ \/ resources'[r].mode = "free"
           \/ /\ resources'[r].mode = "commutative"
              /\ resources'[r].tool = Request(u).commutative_tool
    BY <1>1, <1>10 DEF LockRequest, IsCompatible
  <2> QED
    BY <1>9, <1>10, <2>1
    DEF AfterAcquire, Write, Commutative, Read, IsCompatible
<1> QED
  BY <1>6, <1>7, <1>10, <1>11, <1>12
  DEF Admissible, WithinLimits, Grants, GrantsShared, PassesChecks, IsCompatible

LEMMA LockInvariant == Spec => []LockInv
BY LockRefinement, TableInvariant, PTL DEF ImplementsLockTable, LockInv

LEMMA InitEstablishesPhaseInv == Init => PhaseInv
BY DEF Init, PhaseInv, Empty

\* The permits, the locks and the refused units are left alone, and stop is
\* never taken back.
LEMMA PhaseUntouched ==
  ASSUME PhaseInv, pc \in {"schedule", "retry"}, pc' = pc, stop' = "none" => stop = "none",
         UNCHANGED <<blocked, in_flight, total_in_flight, tool_in_flight, config,
                     resources, running, exclusive>>
  PROVE  PhaseInv'
<1>1. \A u \in Unit : Admissible(u)' <=> Admissible(u)
  BY DEF Admissible, WithinLimits, GlobalLimit, Below, Grants, GrantsWorld, GrantsShared,
         PassesChecks, IsCompatible
<1> QED
  BY <1>1 DEF PhaseInv

LEMMA PopPreservesPhase ==
  ASSUME EngineInv, LockInv, PhaseInv, NEW u \in Unit, Pop(u)
  PROVE  PhaseInv'
<1>1. pc \in {"schedule", "retry"} /\ ready[u] > 0
  BY DEF Pop, PopStopped, PopNoSurvivor, PopRefused, PopSpawned, PopUnwinds,
         Preparing, Popping, Top
<1>2. stop' = "none" => stop = "none"
  BY DEF Pop, PopStopped, PopNoSurvivor, PopRefused, PopSpawned, PopUnwinds,
         SettleUnit, Prepare, Record
<1>3. CASE PopStopped(u) \/ PopNoSurvivor(u)
  BY <1>1, <1>2, <1>3, PhaseUntouched
  DEF PopStopped, PopNoSurvivor, admission, world, lockVars
<1>4. CASE PopRefused(u)
  <2>1. \A v \in Unit : Admissible(v)' <=> Admissible(v)
    BY <1>4
    DEF PopRefused, admission, world, lockVars, Admissible, WithinLimits, GlobalLimit,
        Below, Grants, GrantsWorld, GrantsShared, PassesChecks, IsCompatible
  <2>2. ~Admissible(u)
    BY <1>4 DEF PopRefused, Admissible
  <2>3. \A v \in Unit : v # u => blocked'[v] = blocked[v]
    BY <1>4 DEF PopRefused, Plus, EngineInv, EngineType
  <2>4. pc' = pc
    BY <1>4 DEF PopRefused
  <2> QED
    BY <1>1, <1>2, <2>1, <2>2, <2>3, <2>4 DEF PhaseInv
<1>5. CASE PopSpawned(u)
  <2>1. \A v \in Unit : Admissible(v)' => Admissible(v)
    BY <1>5, AdmitOnlyRefuses DEF PopSpawned, world, EngineInv
  <2> QED
    BY <1>1, <1>2, <1>5, <2>1 DEF PopSpawned, PhaseInv
<1>6. CASE PopUnwinds(u)
  BY <1>6 DEF PopUnwinds, PhaseInv
<1> QED
  BY <1>3, <1>4, <1>5, <1>6 DEF Pop

LEMMA NextPreservesPhase ==
  EngineInv /\ LockInv /\ PhaseInv /\ [Next]_vars => PhaseInv'
<1> SUFFICES ASSUME EngineInv, LockInv, PhaseInv, [Next]_vars PROVE PhaseInv'
  OBVIOUS
<1>1. ready \in [Unit -> Nat] /\ blocked \in [Unit -> Nat] /\ in_flight \in [Unit -> Nat]
  BY DEF EngineInv, EngineType
<1>2. ASSUME NEW u \in Unit, JoinOutcome(u) \/ JoinPanicked(u) PROVE PhaseInv'
  <2>1. PICK oks, fails : Joined(u, oks, fails)
    BY <1>2 DEF JoinOutcome, JoinPanicked
  <2>2. pc' = "schedule" /\ blocked' = [v \in Unit |-> 0]
    BY <2>1 DEF Joined, Requeue
  <2> QED
    BY <2>2 DEF PhaseInv
<1>3. ASSUME NEW u \in Unit, SettleLeftover(u) PROVE PhaseInv'
  BY <1>3 DEF SettleLeftover, PhaseInv, admission, Empty
<1>4. CASE EndSchedule
  <2>1. CASE pc' = "retry"
    BY <1>4, <2>1 DEF EndSchedule, Requeue, PhaseInv
  <2>2. CASE pc' # "retry"
    <3>1. \A v \in Unit : Admissible(v)' <=> Admissible(v)
      BY <1>4
      DEF EndSchedule, admission, world, lockVars, Admissible, WithinLimits, GlobalLimit,
          Below, Grants, GrantsWorld, GrantsShared, PassesChecks, IsCompatible
    <3> QED
      BY <1>4, <2>2, <3>1 DEF EndSchedule, PhaseInv, Empty, admission, verdicts
  <2> QED
    BY <2>1, <2>2
<1>5. CASE EndRetry
  <2>1. \A v \in Unit : Admissible(v)' <=> Admissible(v)
    BY <1>5
    DEF EndRetry, admission, world, lockVars, Admissible, WithinLimits, GlobalLimit,
        Below, Grants, GrantsWorld, GrantsShared, PassesChecks, IsCompatible
  <2> QED
    BY <1>5, <2>1 DEF EndRetry, PhaseInv, Empty, admission, verdicts, queues
<1>6. CASE EndLeftovers
  BY <1>1, <1>6 DEF EndLeftovers, PhaseInv, Empty, admission, queues
<1>7. CASE SeeCancel
  BY <1>7 DEF SeeCancel, PhaseInv
<1>8. CASE Finish
  BY <1>8 DEF Finish, PhaseInv
<1>9. CASE Cancel \/ UNCHANGED vars
  <2>1. UNCHANGED <<pc, queues, admission, verdicts, config, lockVars>>
    BY <1>9 DEF Cancel, vars, world
  <2>2. \A v \in Unit : Admissible(v)' <=> Admissible(v)
    BY <2>1
    DEF admission, lockVars, Admissible, WithinLimits, GlobalLimit,
        Below, Grants, GrantsWorld, GrantsShared, PassesChecks, IsCompatible
  <2> QED
    BY <2>1, <2>2 DEF PhaseInv, Empty, admission, queues, verdicts
<1> QED
  BY <1>2, <1>3, <1>4, <1>5, <1>6, <1>7, <1>8, <1>9, PopPreservesPhase
  DEF Next, EngineStep, Stopped

LEMMA PhaseInvariant == Spec => []PhaseInv
BY InitEstablishesPhaseInv, NextPreservesPhase, EngineInvariant, LockInvariant, PTL DEF Spec

\* No lost wakeup, for every plan and every set of limits (scheduler.rs:101-111).
THEOREM WakeupTheorem == Spec => []NoMissedWakeup
<1>1. EngineInv /\ PhaseInv => NoMissedWakeup
  <2> SUFFICES ASSUME EngineInv, PhaseInv, pc = "join"
               PROVE  Running # {} /\ Empty(ready)
    BY DEF PhaseInv, NoMissedWakeup
  <2>1. \E u \in Unit : in_flight[u] # 0
    BY DEF PhaseInv, Empty
  <2> QED
    BY <2>1 DEF PhaseInv, Running, EngineInv, EngineType
<1> QED
  BY <1>1, EngineInvariant, PhaseInvariant, PTL

\* When nothing is queued or running every unit is done: a unit that is not
\* waits for another one that is not, and there is no cycle of such units.
LEMMA NothingLeft ==
  ASSUME EngineInv, PhaseInv, pc = "finish"
  PROVE  (\A u \in Unit : Retired(u)) /\ \A n \in Node : IsSettled(n)
<1>1. \A u \in Unit : Places(u) = 0
  BY DEF PhaseInv, Empty, Places
<1>2. ASSUME NEW S, S = {u \in Unit : ~Retired(u)}, S # {} PROVE FALSE
  <2>1. PICK u \in S : Disjoint(UnitDeps(u), S)
    BY <1>2, AcyclicAssumption
  <2>2. Open(u) = {}
    BY <1>2, <2>1, UnitDepsType DEF Open, Disjoint
  <2>3. remaining[u] = 0
    BY <1>2, <2>2, FS_EmptySet DEF EngineInv, QueueInv
  <2> QED
    BY <1>1, <1>2, <2>3 DEF Retired
<1>3. \A u \in Unit : Retired(u)
  BY <1>2
<1>4. \A n \in Node : \E u \in Unit : n \in Members[u]
  BY EngineAssumption
<1> QED
  BY <1>3, <1>4 DEF EngineInv, SettledInv

\* The safety net of finish() (finish.rs:18) is never needed, and no permit or
\* lock is left, for every plan.
THEOREM SafetyNetTheorem == Spec => []SafetyNetIdle
<1>1. EngineInv /\ PhaseInv /\ LockInv => SafetyNetIdle
  <2> SUFFICES ASSUME EngineInv, PhaseInv, LockInv, pc = "finish"
               PROVE  /\ Running = {} /\ running = 0 /\ ~exclusive
                      /\ \A r \in Resource : resources[r] = Free
    BY NothingLeft DEF SafetyNetIdle
  <2>1. Running = {} /\ held = {}
    BY DEF PhaseInv, Empty, Running, EngineInv, LimitsRespected
  <2>2. running = 0 /\ ~exclusive
    BY <2>1, FS_EmptySet DEF LockInv, TableMatchesHolders
  <2>3. \A r \in Resource : resources[r] = Free
    BY <2>1, EntryByMode DEF LockInv, TableMatchesHolders, Readers, Writers
  <2> QED
    BY <2>1, <2>2, <2>3
<1> QED
  BY <1>1, EngineInvariant, PhaseInvariant, LockInvariant, PTL

----------------------------------------------------------------------------
(* Invalidation.                                                           *)

OutputsInvalidated == \A n \in Node : n \in outputs => Effective(n).writes \subseteq invalidated

LEMMA JoinInvalidates ==
  ASSUME OutputsInvalidated, NEW u \in Unit, NEW oks, NEW fails, Joined(u, oks, fails)
  PROVE  OutputsInvalidated'
<1>1. outputs' = outputs \cup oks /\ invalidated' = invalidated \cup Written(u, oks)
  BY DEF Joined, Record
<1>2. \A n \in oks : Effective(n).writes \subseteq Written(u, oks)
  BY DEF Written
<1> QED
  BY <1>1, <1>2 DEF OutputsInvalidated

\* Reads cached before a write are dropped before any dependent is scheduled
\* (scheduler.rs:377-379), for every plan and whichever members succeed.
THEOREM WritesTheorem == Spec => []WritesInvalidated
<1>1. Init => OutputsInvalidated
  BY DEF Init, OutputsInvalidated
<1>2. OutputsInvalidated /\ [Next]_vars => OutputsInvalidated'
  <2> SUFFICES ASSUME OutputsInvalidated, [Next]_vars PROVE OutputsInvalidated'
    OBVIOUS
  <2>1. ASSUME NEW u \in Unit, JoinOutcome(u) \/ JoinPanicked(u) PROVE OutputsInvalidated'
    <3>1. PICK oks, fails : Joined(u, oks, fails)
      BY <2>1 DEF JoinOutcome, JoinPanicked
    <3> QED
      BY <3>1, JoinInvalidates
  <2>2. ASSUME NEW u \in Unit, Pop(u) \/ SettleLeftover(u) PROVE OutputsInvalidated'
    <3>1. outputs' = outputs /\ invalidated' = invalidated
      BY <2>2
      DEF Pop, PopStopped, PopNoSurvivor, PopRefused, PopSpawned, PopUnwinds, SettleLeftover,
          SettleUnit, Prepare, Record
    <3> QED
      BY <3>1 DEF OutputsInvalidated
  <2>3. CASE EndSchedule \/ EndRetry \/ EndLeftovers \/ SeeCancel \/ Finish \/ Cancel
             \/ UNCHANGED vars
    <3>1. outputs' = outputs /\ invalidated' = invalidated
      BY <2>3
      DEF EndSchedule, EndRetry, EndLeftovers, SeeCancel, Finish, Record, Cancel, vars, verdicts
    <3> QED
      BY <3>1 DEF OutputsInvalidated
  <2> QED
    BY <2>1, <2>2, <2>3 DEF Next, EngineStep, Stopped
<1>3. OutputsInvalidated => WritesInvalidated
  <2>1. \A u \in Unit : \A m \in Members[u] : Deps[m] \subseteq Node
    BY UnitAssumption, EngineAssumption
  <2> QED
    BY <2>1 DEF OutputsInvalidated, WritesInvalidated
<1> QED
  BY <1>1, <1>2, <1>3, PTL DEF Spec

=============================================================================
