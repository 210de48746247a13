--------------------------- MODULE PlanRunProofs ---------------------------
(***************************************************************************)
(* The engine of Scheduler implements PlanRun, for every plan, unless a    *)
(* panic of the adapter meets a batch group: panicked_outcome then fails   *)
(* members that were already skipped.                                      *)
(*                                                                         *)
(* A refused unit is prepared again, so the argument is about time: the    *)
(* verdict a member got the first time must be the one it gets again.  It  *)
(* is, since a unit is popped only after everything it depends on is done, *)
(* and the verdicts of units that are done never change.                   *)
(*                                                                         *)
(* On the same invariants rest the theorems on what a run reports: events  *)
(* and counters, the reasons of skips, the status, and what a stop means.  *)
(* Their hypotheses are the cases the code gets wrong otherwise: a group   *)
(* that is prepared again reports its skipped members again (Batch = {}),  *)
(* a limit of zero gives units up without an error (LimitsPositive).       *)
(***************************************************************************)
EXTENDS SchedulerProofs

\* No adapter call panics, or a panic can only meet units of one node.
PanicsAlone == Batch = {} \/ \A c \in Configs : ~c.panics

\* The members of a unit that waits have no verdict, those of a unit that is
\* queued or runs have at most the one their preparation gives.
UnitVerdicts(u) ==
  /\ remaining[u] > 0 => \A n \in Members[u] : ~IsSettled(n)
  /\ Places(u) > 0 => \A n \in Members[u] : IsSettled(n) =>
       /\ n \notin outputs /\ n \notin Survivors(u)
       /\ n \in errors <=> n \in PrepFails(u)
  /\ in_flight[u] > 0 => prepared[u] = Survivors(u) /\ prepared[u] # {}

VerdictInv ==
  pc # "unwound" =>
    /\ config \in Configs
    /\ OneVerdict
    /\ \A u \in Unit : UnitVerdicts(u)

----------------------------------------------------------------------------
(* What a step may do to the verdict of a node.                            *)

SameVerdict(n) ==
  /\ n \in outputs' <=> n \in outputs
  /\ n \in errors' <=> n \in errors
  /\ n \in dead' <=> n \in dead
  /\ skipped'[n] = "none" <=> skipped[n] = "none"

NewVerdict(n) ==
  /\ ~IsSettled(n)
  /\ \/ n \in outputs' /\ n \notin errors' /\ skipped'[n] = "none" /\ n \notin dead'
     \/ n \notin outputs' /\ n \in errors' /\ skipped'[n] = "none" /\ n \in dead'
     \/ n \notin outputs' /\ n \notin errors' /\ skipped'[n] # "none" /\ n \in dead'

\* The step settles members of one unit at most.
VerdictsOf(a) ==
  /\ \A n \in Node : n \notin Members[a] => SameVerdict(n)
  /\ \A n \in Members[a] : SameVerdict(n) \/ NewVerdict(n)

LEMMA MembersType ==
  /\ \A u \in Unit : Members[u] \subseteq Node /\ Members[u] # {}
  /\ \A u, v \in Unit : u # v => \A n \in Members[u] : n \notin Members[v]
BY UnitAssumption, EngineAssumption DEF Disjoint

LEMMA OneVerdictKept ==
  ASSUME OneVerdict, NEW a \in Unit, VerdictsOf(a)
  PROVE  OneVerdict'
<1>1. \A n \in Node : SameVerdict(n) \/ NewVerdict(n)
  BY DEF VerdictsOf
<1> QED
  BY <1>1 DEF OneVerdict, SameVerdict, NewVerdict, IsSettled

\* A unit without open dependencies: all it depends on is done, so whether a
\* reference of its members is dead does not change any more.
LEMMA DependenciesDone ==
  ASSUME EngineInv, pc # "unwound", NEW u \in Unit, remaining[u] = 0,
         NEW n \in Members[u], NEW d \in Deps[n]
  PROVE  d \in Node /\ IsSettled(d) /\ \E v \in Unit : d \in Members[v] /\ Retired(v)
<1>1. n \in Node /\ d \in Node /\ d \notin Members[u]
  BY MembersType, EngineAssumption
<1>2. UnitOf(d) \in Unit /\ d \in Members[UnitOf(d)]
  BY <1>1, EngineAssumption DEF UnitOf
<1>3. UnitOf(d) \in UnitDeps(u)
  BY <1>1, <1>2 DEF UnitDeps
<1>4. IsFiniteSet(Open(u)) /\ Cardinality(Open(u)) = 0
  BY UnitDepsType, UnitsFinite DEF Open, EngineInv, QueueInv
<1>5. Open(u) = {}
  BY <1>4, FS_EmptySet
<1>6. Retired(UnitOf(d))
  BY <1>3, <1>5 DEF Open
<1> QED
  BY <1>1, <1>2, <1>6 DEF EngineInv, SettledInv

LEMMA DeadKept ==
  ASSUME EngineInv, pc # "unwound", NEW a \in Unit, ~Retired(a), VerdictsOf(a),
         NEW u \in Unit, remaining[u] = 0, NEW n \in Members[u]
  PROVE  DependencyDead(n)' <=> DependencyDead(n)
<1>1. ASSUME NEW d \in DataDeps[n] PROVE d \in dead' <=> d \in dead
  <2>1. d \in Deps[n]
    BY <1>1, MembersType, EngineAssumption
  <2>2. d \in Node /\ d \notin Members[a]
    BY <2>1, DependenciesDone, MembersType
  <2> QED
    BY <2>2 DEF VerdictsOf, SameVerdict
<1> QED
  BY <1>1 DEF DependencyDead

LEMMA DeadStable ==
  ASSUME EngineInv, pc # "unwound", NEW a \in Unit, ~Retired(a), VerdictsOf(a),
         NEW u \in Unit, remaining[u] = 0, UNCHANGED preparation
  PROVE  Survivors(u)' = Survivors(u) /\ PrepFails(u)' = PrepFails(u)
<1>1. \A n \in Members[u] : DependencyDead(n)' <=> DependencyDead(n)
  BY DeadKept
<1> QED
  BY <1>1 DEF Survivors, PrepFails

\* A unit that the step is not about.
LEMMA OtherUnit ==
  ASSUME EngineInv, pc # "unwound", NEW a \in Unit, ~Retired(a), VerdictsOf(a),
         UNCHANGED preparation, NEW w \in Unit, w # a, UnitVerdicts(w),
         in_flight'[w] = in_flight[w], prepared'[w] = prepared[w],
         remaining'[w] > 0 => remaining[w] > 0,
         Places(w)' > 0 => Places(w) > 0 \/ remaining[w] > 0
  PROVE  UnitVerdicts(w)'
<1>1. \A n \in Members[w] : n \in Node /\ SameVerdict(n)
  BY MembersType DEF VerdictsOf
<1>2. \A n \in Members[w] : IsSettled(n)' <=> IsSettled(n)
  BY <1>1 DEF SameVerdict, IsSettled
<1>3. remaining[w] \in Nat /\ Places(w) \in Nat /\ in_flight[w] \in Nat /\ blocked[w] \in Nat
      /\ ready[w] \in Nat
  BY DEF EngineInv, EngineType, Places
<1>4. remaining[w] > 0 => Places(w) = 0
  BY DEF EngineInv, QueueInv
<1>5. CASE remaining[w] > 0
  <2>1. in_flight[w] = 0
    BY <1>3, <1>4, <1>5 DEF Places
  <2> QED
    BY <1>2, <1>5, <2>1 DEF UnitVerdicts
<1>6. CASE remaining[w] = 0
  <2>1. Survivors(w)' = Survivors(w) /\ PrepFails(w)' = PrepFails(w)
    BY <1>6, DeadStable
  <2> QED
    BY <1>1, <1>2, <1>6, <2>1 DEF UnitVerdicts, SameVerdict
<1> QED
  BY <1>3, <1>5, <1>6

----------------------------------------------------------------------------
(* The three ways a step settles nodes.                                    *)

LEMMA SettleUnitVerdicts ==
  ASSUME NEW u \in Unit, NEW fallback, fallback # "none", SettleUnit(u, fallback)
  PROVE  VerdictsOf(u) /\ outputs' = outputs
<1> DEFINE S == {n \in Members[u] : ~IsSettled(n)}
<1>1. /\ DOMAIN SkipAll(S, fallback) = S
      /\ \A n \in S : SkipAll(S, fallback)[n] # "none"
  BY DEF SkipAll, SkipReason
<1>2. Record({}, {}, SkipAll(S, fallback))
  BY DEF SettleUnit
<1>3. /\ outputs' = outputs /\ errors' = errors /\ dead' = dead \cup S
      /\ \A n \in Node : skipped'[n] = IF n \in S THEN SkipAll(S, fallback)[n] ELSE skipped[n]
  <2> HIDE DEF S
  <2> QED
    BY <1>1, <1>2 DEF Record
<1>4. \A n \in Node : n \notin S => SameVerdict(n)
  BY <1>3 DEF SameVerdict
<1>5. \A n \in S : n \in Node /\ NewVerdict(n)
  BY <1>1, <1>3, MembersType DEF NewVerdict, IsSettled
<1> QED
  BY <1>3, <1>4, <1>5, MembersType DEF VerdictsOf

LEMMA PrepareVerdicts ==
  ASSUME EngineType, OneVerdict, NEW u \in Unit, UnitVerdicts(u), Places(u) > 0, Prepare(u)
  PROVE  /\ VerdictsOf(u) /\ outputs' = outputs
         /\ \A n \in Members[u] : n \in errors' <=> n \in PrepFails(u)
         /\ \A n \in Survivors(u) : ~IsSettled(n) /\ ~IsSettled(n)'
<1> DEFINE D == DOMAIN PrepSkips(u)
<1>1. /\ \A n \in D : PrepSkips(u)[n] # "none"
      /\ D \subseteq Members[u] /\ PrepFails(u) \subseteq Members[u]
      /\ \A n \in Members[u] : /\ n \in D \/ n \in PrepFails(u) \/ n \in Survivors(u)
                               /\ ~(n \in D /\ n \in PrepFails(u))
      /\ \A n \in Survivors(u) : n \in Members[u] /\ n \notin D /\ n \notin PrepFails(u)
  BY MembersType DEF PrepSkips, PrepFails, Survivors, SkipReason, EngineType
<1>2. /\ outputs' = outputs /\ errors' = errors \cup PrepFails(u)
      /\ dead' = dead \cup PrepFails(u) \cup D
      /\ \A n \in Node : skipped'[n] = IF n \in D THEN PrepSkips(u)[n] ELSE skipped[n]
  BY DEF Prepare, Record
<1>3. \A n \in Members[u] : /\ n \in Node
                            /\ IsSettled(n) => /\ n \notin outputs /\ n \notin Survivors(u)
                                               /\ n \in errors <=> n \in PrepFails(u)
  BY MembersType DEF UnitVerdicts
<1> HIDE DEF D
<1>4. \A n \in Node : n \notin Members[u] => SameVerdict(n)
  BY <1>1, <1>2 DEF SameVerdict
<1>5. ASSUME NEW n \in Members[u] PROVE SameVerdict(n) \/ NewVerdict(n)
  <2>1. CASE n \in D /\ IsSettled(n)
    BY <1>1, <1>2, <1>3, <2>1 DEF SameVerdict, OneVerdict, IsSettled
  <2>2. CASE n \in D /\ ~IsSettled(n)
    BY <1>1, <1>2, <1>3, <2>2 DEF NewVerdict, IsSettled
  <2>3. CASE n \in PrepFails(u) /\ IsSettled(n)
    BY <1>1, <1>2, <1>3, <2>3 DEF SameVerdict, OneVerdict
  <2>4. CASE n \in PrepFails(u) /\ ~IsSettled(n)
    BY <1>1, <1>2, <1>3, <2>4 DEF NewVerdict, IsSettled
  <2>5. CASE n \in Survivors(u)
    BY <1>1, <1>2, <1>3, <2>5 DEF SameVerdict
  <2> QED
    BY <1>1, <2>1, <2>2, <2>3, <2>4, <2>5
<1>6. \A n \in Members[u] : n \in errors' <=> n \in PrepFails(u)
  BY <1>2, <1>3 DEF IsSettled
<1>7. \A n \in Survivors(u) : ~IsSettled(n) /\ ~IsSettled(n)'
  BY <1>1, <1>2, <1>3 DEF IsSettled
<1> QED
  BY <1>2, <1>4, <1>5, <1>6, <1>7 DEF VerdictsOf

LEMMA JoinedVerdicts ==
  ASSUME EngineInv, OneVerdict, NEW u \in Unit, UnitVerdicts(u), in_flight[u] > 0,
         NEW oks, oks \subseteq prepared[u], Record(oks, prepared[u] \ oks, <<>>)
  PROVE  /\ VerdictsOf(u)
         /\ \A n \in prepared[u] : n \in Members[u] /\ ~IsSettled(n)
         /\ \A n \in Node : n \notin prepared[u] => SameVerdict(n)
         /\ \A n \in prepared[u] : n \in outputs' \cup errors'
<1>1. Places(u) > 0
  BY DEF EngineInv, EngineType, Places
<1>2. \A n \in prepared[u] : n \in Node /\ n \in Members[u] /\ ~IsSettled(n)
  BY <1>1, MembersType DEF UnitVerdicts, EngineInv, EngineType
<1>3. /\ outputs' = outputs \cup oks /\ errors' = errors \cup (prepared[u] \ oks)
      /\ dead' = dead \cup (prepared[u] \ oks)
      /\ \A n \in Node : skipped'[n] = skipped[n]
  BY DEF Record
<1>4. \A n \in Node : n \notin prepared[u] => SameVerdict(n)
  BY <1>3 DEF SameVerdict
<1>5. \A n \in prepared[u] : NewVerdict(n)
  BY <1>2, <1>3 DEF NewVerdict, IsSettled, OneVerdict
<1> QED
  BY <1>2, <1>3, <1>4, <1>5, MembersType DEF VerdictsOf

\* A panic fails exactly the members that were dispatched.
LEMMA PanickedVerdicts ==
  ASSUME PanicsAlone, EngineInv, VerdictInv, pc # "unwound", NEW u \in Unit, JoinPanicked(u)
  PROVE  prepared[u] = Members[u]
<1>1. Batch = {}
  BY DEF PanicsAlone, JoinPanicked, VerdictInv
<1>2. PICK n \in Node : Members[u] = {n}
  BY <1>1, UnitAssumption
<1>3. prepared[u] # {} /\ prepared[u] \subseteq Members[u]
  BY DEF JoinPanicked, Joined, VerdictInv, UnitVerdicts, EngineInv, EngineType
<1> QED
  BY <1>2, <1>3

----------------------------------------------------------------------------
(* Every step keeps VerdictInv.                                            *)

\* A unit leaves its last place.
LEMMA RetiringKeepsVerdicts ==
  ASSUME EngineInv, EngineInv', VerdictInv, pc # "unwound", NEW u \in Unit, Places(u) > 0,
         VerdictsOf(u), remaining' = Unblocked(u),
         \A w \in Unit : Places(w)' = IF w = u THEN 0
                                      ELSE Places(w) + (IF w \in Freed(u) THEN 1 ELSE 0),
         \A w \in Unit : w # u => in_flight'[w] = in_flight[w] /\ prepared'[w] = prepared[w],
         UNCHANGED <<config, preparation>>
  PROVE  VerdictInv'
<1>1. \A w \in Unit : /\ Places(w) \in Nat /\ remaining[w] \in Nat
                      /\ Places(w)' \in Nat /\ remaining'[w] \in Nat /\ in_flight'[w] \in Nat
                      /\ in_flight'[w] <= Places(w)'
  BY DEF EngineInv, EngineType, Places
<1>2. \A w \in Unit : Retired(w)' <=> Retired(w) \/ w = u
  BY RetireKeepsQueueInv DEF EngineInv
<1>3. ~Retired(u)
  BY <1>1 DEF Retired
<1>4. ASSUME NEW w \in Unit, w # u PROVE UnitVerdicts(w)'
  <2>1. remaining'[w] > 0 => remaining[w] > 0
    BY <1>1 DEF Unblocked
  <2>2. Places(w)' > 0 => Places(w) > 0 \/ remaining[w] > 0
    BY <1>1, <1>2, <1>4 DEF Retired
  <2>3. UnitVerdicts(w)
    BY DEF VerdictInv
  <2> QED
    BY <1>3, <1>4, <2>1, <2>2, <2>3, OtherUnit
<1>5. UnitVerdicts(u)'
  <2>1. remaining'[u] = 0 /\ Places(u)' = 0 /\ in_flight'[u] = 0
    BY <1>1, <1>2 DEF Retired
  <2> QED
    BY <2>1 DEF UnitVerdicts
<1>6. OneVerdict'
  BY OneVerdictKept DEF VerdictInv
<1> QED
  BY <1>4, <1>5, <1>6 DEF VerdictInv

\* A unit is prepared, and refused or spawned.
LEMMA PreparedKeepsVerdicts ==
  ASSUME EngineInv, VerdictInv, pc # "unwound", NEW u \in Unit, ready[u] > 0,
         Prepare(u), UNCHANGED <<remaining, config, preparation>>,
         \A w \in Unit : Places(w)' = Places(w),
         \A w \in Unit : w # u => in_flight'[w] = in_flight[w] /\ prepared'[w] = prepared[w],
         in_flight'[u] > 0 => prepared'[u] = Survivors(u) /\ Survivors(u) # {}
  PROVE  VerdictInv'
<1>1. Places(u) > 0 /\ remaining[u] = 0 /\ ~Retired(u)
  BY PoppedUnit DEF Places, Retired
<1>2. /\ VerdictsOf(u) /\ outputs' = outputs
      /\ \A n \in Members[u] : n \in errors' <=> n \in PrepFails(u)
      /\ \A n \in Survivors(u) : ~IsSettled(n)'
  BY <1>1, PrepareVerdicts DEF VerdictInv, EngineInv
<1>3. \A w \in Unit : w # u => UnitVerdicts(w)'
  BY <1>1, <1>2, OtherUnit DEF VerdictInv
<1>4. UnitVerdicts(u)'
  <2>1. Survivors(u)' = Survivors(u) /\ PrepFails(u)' = PrepFails(u)
    BY <1>1, <1>2, DeadStable
  <2>2. \A n \in Members[u] : n \notin outputs
    BY <1>1 DEF VerdictInv, UnitVerdicts, IsSettled
  <2> QED
    BY <1>1, <1>2, <2>1, <2>2 DEF UnitVerdicts
<1>5. OneVerdict'
  BY <1>2, OneVerdictKept DEF VerdictInv
<1> QED
  BY <1>3, <1>4, <1>5 DEF VerdictInv

\* The nodes are left alone, and units only move between the heap and the
\* list of refused ones.
LEMMA LoopStepKeepsVerdicts ==
  ASSUME EngineInv, VerdictInv, pc # "unwound", \A w \in Unit : Places(w)' = Places(w),
         UNCHANGED <<remaining, in_flight, prepared, config, preparation,
                     outputs, errors, dead, skipped>>
  PROVE  VerdictInv'
BY DEF VerdictInv, OneVerdict, UnitVerdicts, IsSettled, Survivors, PrepFails, DependencyDead

LEMMA PopKeepsVerdicts ==
  ASSUME EngineInv, EngineInv', VerdictInv, NEW u \in Unit, Pop(u)
  PROVE  VerdictInv'
<1>1. pc # "unwound" /\ ready[u] > 0
  BY DEF Pop, PopStopped, PopNoSurvivor, PopRefused, PopSpawned, PopUnwinds,
         Preparing, Popping, Top
<1>2. Places(u) > 0
  BY <1>1, PoppedUnit DEF Places
<1>3. ready[u] = 1 /\ blocked[u] = 0 /\ in_flight[u] = 0
  BY <1>1, PoppedUnit
<1>4. CASE PopStopped(u)
  BY <1>1, <1>4, SettleUnitVerdicts, RetiringPopPlaces, RetiringKeepsVerdicts
  DEF PopStopped, admission, world
<1>5. CASE PopNoSurvivor(u)
  <2>1. VerdictsOf(u)
    BY <1>1, <1>2, <1>5, PrepareVerdicts DEF PopNoSurvivor, VerdictInv, EngineInv
  <2> QED
    BY <1>1, <1>5, <2>1, RetiringPopPlaces, RetiringKeepsVerdicts
    DEF PopNoSurvivor, admission, world
<1>6. CASE PopRefused(u)
  <2>1. \A w \in Unit : Places(w)' = Places(w)
    BY <1>3, <1>6 DEF PopRefused, admission, EngineInv, EngineType, Plus, Minus, Places
  <2> QED
    BY <1>1, <1>3, <1>6, <2>1, PreparedKeepsVerdicts DEF PopRefused, admission, world
<1>7. CASE PopSpawned(u)
  <2>1. \A w \in Unit : Places(w)' = Places(w)
    BY <1>3, <1>7 DEF PopSpawned, EngineInv, EngineType, Plus, Minus, Places
  <2>2. \A w \in Unit : w # u => in_flight'[w] = in_flight[w] /\ prepared'[w] = prepared[w]
    BY <1>7 DEF PopSpawned, EngineInv, EngineType, Plus
  <2>3. prepared'[u] = Survivors(u) /\ Survivors(u) # {}
    BY <1>7 DEF PopSpawned, EngineInv, EngineType
  <2> QED
    BY <1>1, <1>7, <2>1, <2>2, <2>3, PreparedKeepsVerdicts DEF PopSpawned, world
<1>8. CASE PopUnwinds(u)
  BY <1>8 DEF PopUnwinds, VerdictInv
<1> QED
  BY <1>4, <1>5, <1>6, <1>7, <1>8 DEF Pop

\* The outcome of a joined task, whether it returned or panicked.
LEMMA JoinsAreOutcomes ==
  ASSUME PanicsAlone, EngineInv, VerdictInv, NEW u \in Unit,
         JoinOutcome(u) \/ JoinPanicked(u)
  PROVE  \E oks \in SUBSET prepared[u] : Joined(u, oks, prepared[u] \ oks)
<1>1. CASE JoinOutcome(u)
  BY <1>1 DEF JoinOutcome
<1>2. CASE JoinPanicked(u)
  <2>1. pc # "unwound" /\ Joined(u, {}, Members[u])
    BY <1>2 DEF JoinPanicked, Joined
  <2>2. prepared[u] \ {} = Members[u]
    BY <1>2, <2>1, PanickedVerdicts
  <2> QED
    BY <2>1, <2>2
<1> QED
  BY <1>1, <1>2

LEMMA NextKeepsVerdicts ==
  ASSUME PanicsAlone
  PROVE  EngineInv /\ EngineInv' /\ PhaseInv /\ VerdictInv /\ [Next]_vars => VerdictInv'
<1> SUFFICES ASSUME EngineInv, EngineInv', PhaseInv, VerdictInv, [Next]_vars
             PROVE  VerdictInv'
  OBVIOUS
<1>1. ready \in [Unit -> Nat] /\ blocked \in [Unit -> Nat] /\ in_flight \in [Unit -> Nat]
  BY DEF EngineInv, EngineType
<1>2. ASSUME NEW u \in Unit, JoinOutcome(u) \/ JoinPanicked(u) PROVE VerdictInv'
  <2>1. PICK oks \in SUBSET prepared[u] : Joined(u, oks, prepared[u] \ oks)
    BY <1>2, JoinsAreOutcomes
  <2> USE <2>1 DEF Joined
  <2>2. pc # "unwound" /\ VerdictsOf(u)
    BY JoinedVerdicts DEF VerdictInv
  <2>3. \A w \in Unit : w # u => in_flight'[w] = in_flight[w] /\ prepared'[w] = prepared[w]
    BY DEF EngineInv, EngineType, Minus
  <2> QED
    BY <2>2, <2>3, JoinedPlaces, RetiringKeepsVerdicts DEF world
<1>3. ASSUME NEW u \in Unit, SettleLeftover(u) PROVE VerdictInv'
  BY <1>3, SettleUnitVerdicts, LeftoverPlaces, RetiringKeepsVerdicts
  DEF SettleLeftover, admission, world
<1>4. CASE EndSchedule
  <2>1. Requeue(ready) \/ UNCHANGED <<ready, blocked>>
    BY <1>4 DEF EndSchedule
  <2>2. \A w \in Unit : Places(w)' = Places(w)
    BY <1>1, <1>4, <2>1 DEF EndSchedule, Requeue, Places, admission
  <2> QED
    BY <1>4, <2>2, LoopStepKeepsVerdicts DEF EndSchedule, admission, verdicts, world
<1>5. CASE EndRetry \/ EndLeftovers \/ SeeCancel
  <2>1. pc # "unwound" /\ \A w \in Unit : Places(w)' = Places(w)
    BY <1>5 DEF EndRetry, EndLeftovers, SeeCancel, Places, queues, admission
  <2> QED
    BY <1>5, <2>1, LoopStepKeepsVerdicts
    DEF EndRetry, EndLeftovers, SeeCancel, queues, admission, verdicts, world
<1>6. CASE Finish
  <2>1. \A n \in Node : IsSettled(n)
    BY <1>6, NothingLeft DEF Finish
  <2>2. DOMAIN SkipAll({n \in Node : ~IsSettled(n)}, IF stop = "none" THEN "NotRun" ELSE stop)
          = {}
    BY <2>1 DEF SkipAll
  <2>3. /\ outputs' = outputs /\ errors' = errors /\ dead' = dead
        /\ \A n \in Node : skipped'[n] = skipped[n]
    BY <1>6, <2>2 DEF Finish, Record
  <2>4. UNCHANGED <<queues, admission, config, preparation>> /\ pc = "finish"
    BY <1>6 DEF Finish, world
  <2>5. OneVerdict'
    BY <2>3, <2>4 DEF VerdictInv, OneVerdict
  <2>6. \A u \in Unit : UnitVerdicts(u)'
    BY <2>3, <2>4, MembersType
    DEF VerdictInv, UnitVerdicts, IsSettled, Survivors, PrepFails, DependencyDead, Places,
        queues, admission
  <2> QED
    BY <2>4, <2>5, <2>6 DEF VerdictInv
<1>7. CASE Cancel \/ UNCHANGED vars
  <2>1. UNCHANGED <<pc, queues, admission, verdicts, config, preparation>>
    BY <1>7 DEF Cancel, vars, world
  <2>2. CASE pc = "unwound"
    BY <2>1, <2>2 DEF VerdictInv
  <2>3. CASE pc # "unwound"
    <3>1. \A w \in Unit : Places(w)' = Places(w)
      BY <2>1 DEF Places, queues, admission
    <3> QED
      BY <2>1, <2>3, <3>1, LoopStepKeepsVerdicts DEF queues, admission, verdicts
  <2> QED
    BY <2>2, <2>3
<1> QED
  BY <1>2, <1>3, <1>4, <1>5, <1>6, <1>7, PopKeepsVerdicts DEF Next, EngineStep, Stopped

LEMMA InitEstablishesVerdicts == Init => VerdictInv
<1> SUFFICES ASSUME Init PROVE VerdictInv
  OBVIOUS
<1>1. \A u \in Unit : in_flight[u] = 0 /\ \A n \in Members[u] : ~IsSettled(n)
  BY MembersType DEF Init, IsSettled
<1>2. OneVerdict
  BY DEF Init, OneVerdict
<1> QED
  BY <1>1, <1>2 DEF Init, VerdictInv, UnitVerdicts

LEMMA VerdictInvariant == ASSUME PanicsAlone PROVE Spec => []VerdictInv
<1>1. EngineInv /\ EngineInv' /\ PhaseInv /\ VerdictInv /\ [Next]_vars => VerdictInv'
  BY NextKeepsVerdicts
<1> QED
  BY <1>1, InitEstablishesVerdicts, EngineInvariant, PhaseInvariant, PTL DEF Spec

----------------------------------------------------------------------------
(* The refinement.                                                         *)

Active(n) == \E u \in Running : n \in prepared[u]

LEMMA LifeOf ==
  ASSUME NEW n \in Node
  PROVE  /\ Life[n] = IF n \in errors THEN "failed"
                      ELSE IF n \in outputs THEN "ok"
                      ELSE IF skipped[n] # "none" THEN "skipped"
                      ELSE IF Active(n) THEN "active"
                      ELSE "pending"
         /\ Life'[n] = IF n \in errors' THEN "failed"
                       ELSE IF n \in outputs' THEN "ok"
                       ELSE IF skipped'[n] # "none" THEN "skipped"
                       ELSE IF Active(n)' THEN "active"
                       ELSE "pending"
BY DEF Life, Active

\* A node whose verdict and whose task stay as they are.
LEMMA SameLife ==
  ASSUME NEW n \in Node, SameVerdict(n), IsSettled(n) \/ (Active(n)' <=> Active(n))
  PROVE  Life'[n] = Life[n]
BY LifeOf DEF SameVerdict, IsSettled

\* Only the members of a unit that starts or ends change between active and not.
LEMMA ActiveElsewhere ==
  ASSUME EngineInv, NEW u \in Unit,
         \A w \in Unit : w # u => in_flight'[w] = in_flight[w] /\ prepared'[w] = prepared[w],
         EngineInv', NEW n \in Node, n \notin Members[u]
  PROVE  Active(n)' <=> Active(n)
BY DEF Active, Running, EngineInv, EngineType

LEMMA NotActive ==
  ASSUME EngineInv, NEW u \in Unit, in_flight[u] = 0, NEW n \in Members[u]
  PROVE  ~Active(n)
BY MembersType DEF Active, Running, EngineInv, EngineType

\* The nodes of a unit that is settled or prepared without being started.
LEMMA QuietStep ==
  ASSUME EngineInv, EngineInv', NEW u \in Unit, in_flight[u] = 0, VerdictsOf(u),
         outputs' = outputs, UNCHANGED <<in_flight, prepared>>
  PROVE  PR!RunStep
<1>1. \A n \in Node : Active(n)' <=> Active(n)
  BY DEF Active, Running
<1>2. ASSUME NEW n \in Node
      PROVE  /\ PR!LegalChange(Life[n], Life'[n])
             /\ Life[n] # "active" => Life'[n] # "active"
  <2>1. CASE SameVerdict(n)
    BY <1>1, <2>1, SameLife DEF PR!LegalChange
  <2>2. CASE NewVerdict(n)
    <3>1. n \in Members[u] \/ SameVerdict(n)
      BY DEF VerdictsOf
    <3>2. CASE n \in Members[u]
      <4>1. Life[n] = "pending"
        BY <2>2, <3>2, NotActive, LifeOf DEF NewVerdict, IsSettled
      <4>2. Life'[n] \in {"failed", "skipped"}
        BY <2>2, LifeOf DEF NewVerdict, IsSettled
      <4> QED
        BY <4>1, <4>2 DEF PR!LegalChange
    <3> QED
      BY <2>1, <3>1, <3>2
  <2> QED
    BY <2>1, <2>2 DEF VerdictsOf
<1>3. Life' \in [Node -> PR!NodeStatus]
  BY DEF Life, PR!NodeStatus
<1> QED
  BY <1>2, <1>3 DEF PR!RunStep

\* The nodes of a unit that is started: their dependencies are done, what they
\* reference has an output, and the locks keep conflicting nodes away.
LEMMA StartStep ==
  ASSUME EngineInv, EngineInv', VerdictInv, EffectExclusion', NEW u \in Unit, PopSpawned(u)
  PROVE  PR!RunStep
<1>1. pc # "unwound" /\ ready[u] > 0 /\ Prepare(u)
  BY DEF PopSpawned, Preparing, Popping, Top
<1>2. in_flight[u] = 0 /\ remaining[u] = 0 /\ Places(u) > 0
  BY <1>1, PoppedUnit DEF Places
<1>3. /\ VerdictsOf(u) /\ outputs' = outputs
      /\ \A n \in Survivors(u) : ~IsSettled(n) /\ ~IsSettled(n)'
  BY <1>1, <1>2, PrepareVerdicts DEF VerdictInv, EngineInv
<1>4. \A w \in Unit : w # u => in_flight'[w] = in_flight[w] /\ prepared'[w] = prepared[w]
  BY DEF PopSpawned, EngineInv, EngineType, Plus
<1>5. prepared'[u] = Survivors(u) /\ in_flight'[u] > 0
  BY <1>2 DEF PopSpawned, EngineInv, EngineType, Plus
<1>6. Survivors(u) \subseteq Members[u] /\ Members[u] \subseteq Node
  BY MembersType DEF Survivors
<1>7. \A n \in Members[u] : Active(n)' <=> n \in Survivors(u)
  BY <1>4, <1>5, <1>6, MembersType DEF Active, Running, EngineInv, EngineType
<1>8. ASSUME NEW n \in Survivors(u) PROVE PR!MayStart(n)
  <2>1. n \in Members[u] /\ n \in Node /\ ~DependencyDead(n)
    BY <1>6 DEF Survivors
  <2>2. \A d \in Deps[n] : d \in Node /\ IsSettled(d)
    BY <1>1, <1>2, <2>1, DependenciesDone
  <2>3. \A d \in Deps[n] : Life[d] \in PR!Verdicts
    BY <2>2, LifeOf DEF IsSettled, PR!Verdicts
  <2>4. ASSUME NEW d \in DataDeps[n] PROVE Life[d] = "ok"
    <3>1. d \in Deps[n] /\ d \notin dead
      BY <2>1, <2>4, EngineAssumption DEF DependencyDead
    <3>2. d \in Node /\ IsSettled(d) /\ d \notin errors /\ skipped[d] = "none"
      BY <1>1, <2>2, <3>1 DEF VerdictInv, OneVerdict
    <3> QED
      BY <3>2, LifeOf DEF IsSettled
  <2>5. ASSUME NEW m \in Node, Life[m] = "active" PROVE CanRunWith(Effective(m), Effective(n))
    <3>1. PICK v \in Running : m \in prepared[v]
      BY <2>5, LifeOf DEF Active
    <3>2. v \in Unit /\ v # u /\ m \in Members[v] /\ v \in held
      BY <1>2, <3>1 DEF Running, EngineInv, EngineType, LimitsRespected
    <3>3. v \in held' /\ u \in held'
      BY <3>2 DEF PopSpawned, Admit
    <3>4. CanRunWith(Effective(m), Effective(n))'
      BY <2>1, <3>2, <3>3 DEF EffectExclusion
    <3> QED
      BY <3>4
  <2>6. \A m \in Node : Life[m] = "active" =>
          PR!CanRunWith(PR!ForNode(ToolOf[m], Declared[m]), PR!ForNode(ToolOf[n], Declared[n]))
    BY <2>5
    DEF Effective, CanRunWith, PR!CanRunWith, ForNode, PR!ForNode, Disjoint, PR!Disjoint,
        DeclaresSideEffects, PR!DeclaresSideEffects
  <2> QED
    BY <2>3, <2>4, <2>6 DEF PR!MayStart
<1>9. ASSUME NEW n \in Node
      PROVE  /\ PR!LegalChange(Life[n], Life'[n])
             /\ Life[n] # "active" /\ Life'[n] = "active" => PR!MayStart(n)
  <2>1. CASE n \notin Members[u]
    <3>1. Life'[n] = Life[n]
      BY <1>3, <1>4, <2>1, ActiveElsewhere, SameLife DEF VerdictsOf
    <3> QED
      BY <3>1 DEF PR!LegalChange
  <2>2. CASE n \in Survivors(u)
    <3>1. Life[n] = "pending" /\ Life'[n] = "active"
      BY <1>2, <1>3, <1>6, <1>7, <2>2, NotActive, LifeOf DEF IsSettled
    <3> QED
      BY <1>8, <2>2, <3>1 DEF PR!LegalChange
  <2>3. CASE n \in Members[u] /\ n \notin Survivors(u)
    <3>1. ~Active(n) /\ ~Active(n)'
      BY <1>2, <1>7, <2>3, NotActive
    <3>2. CASE SameVerdict(n)
      <4>1. Life'[n] = Life[n]
        BY <3>1, <3>2, SameLife
      <4> QED
        BY <4>1 DEF PR!LegalChange
    <3>3. CASE NewVerdict(n)
      <4>1. Life[n] = "pending" /\ Life'[n] \in {"failed", "skipped"}
        BY <1>3, <3>1, <3>3, LifeOf DEF NewVerdict, IsSettled
      <4> QED
        BY <4>1 DEF PR!LegalChange
    <3> QED
      BY <1>3, <2>3, <3>2, <3>3 DEF VerdictsOf
  <2> QED
    BY <2>1, <2>2, <2>3
<1>10. Life' \in [Node -> PR!NodeStatus]
  BY DEF Life, PR!NodeStatus
<1> QED
  BY <1>9, <1>10 DEF PR!RunStep

\* The nodes of a unit whose task has ended.
LEMMA JoinStep ==
  ASSUME EngineInv, EngineInv', VerdictInv, NEW u \in Unit,
         NEW oks \in SUBSET prepared[u], Joined(u, oks, prepared[u] \ oks)
  PROVE  PR!RunStep
<1> USE DEF Joined
<1>1. pc # "unwound" /\ in_flight[u] = 1
  BY JoinedPlaces
<1>2. /\ VerdictsOf(u)
      /\ \A n \in prepared[u] : n \in Members[u] /\ ~IsSettled(n)
      /\ \A n \in Node : n \notin prepared[u] => SameVerdict(n)
      /\ \A n \in prepared[u] : n \in outputs' \cup errors'
  BY <1>1, JoinedVerdicts DEF VerdictInv
<1>3. \A w \in Unit : w # u => in_flight'[w] = in_flight[w] /\ prepared'[w] = prepared[w]
  BY DEF EngineInv, EngineType, Minus
<1>4. ASSUME NEW n \in Node, n \notin Members[u] PROVE Life'[n] = Life[n]
  BY <1>2, <1>3, <1>4, ActiveElsewhere, SameLife DEF VerdictsOf
<1>5. ASSUME NEW n \in Members[u], n \notin prepared[u] PROVE Life'[n] = Life[n]
  <2>1. n \in Node /\ IsSettled(n)
    BY <1>1, <1>5, MembersType DEF EngineInv, SettledInv
  <2> QED
    BY <1>2, <1>5, <2>1, SameLife
<1>6. ASSUME NEW n \in prepared[u] PROVE Life[n] = "active" /\ Life'[n] \in {"ok", "failed"}
  <2>1. n \in Node /\ Active(n)
    BY <1>1, <1>2, MembersType DEF Active, Running
  <2>2. Life[n] = "active"
    BY <1>2, <2>1, LifeOf DEF IsSettled
  <2>3. Life'[n] \in {"ok", "failed"}
    BY <1>2, <2>1, LifeOf
  <2> QED
    BY <2>2, <2>3
<1>7. Life' \in [Node -> PR!NodeStatus]
  BY DEF Life, PR!NodeStatus
<1> HIDE DEF Joined
<1>8. \A n \in Node : \/ Life'[n] = Life[n]
                      \/ Life[n] = "active" /\ Life'[n] \in {"ok", "failed"}
  BY <1>4, <1>5, <1>6
<1> QED
  BY <1>7, <1>8 DEF PR!RunStep, PR!LegalChange

LEMMA StepImplementsRunStep ==
  ASSUME PanicsAlone
  PROVE  EngineInv /\ EngineInv' /\ PhaseInv /\ VerdictInv /\ EffectExclusion'
           /\ [Next]_vars => [PR!RunStep]_Life
<1> SUFFICES ASSUME EngineInv, EngineInv', PhaseInv, VerdictInv, EffectExclusion', [Next]_vars
             PROVE  PR!RunStep \/ Life' = Life
  OBVIOUS
<1>1. ASSUME NEW u \in Unit, Pop(u) PROVE PR!RunStep
  <2>1. pc # "unwound" /\ ready[u] > 0
    BY <1>1
    DEF Pop, PopStopped, PopNoSurvivor, PopRefused, PopSpawned, PopUnwinds,
        Preparing, Popping, Top
  <2>2. in_flight[u] = 0 /\ Places(u) > 0
    BY <2>1, PoppedUnit DEF Places
  <2>3. CASE PopSpawned(u)
    BY <2>3, StartStep
  <2>4. CASE PopStopped(u)
    BY <2>2, <2>4, SettleUnitVerdicts, QuietStep DEF PopStopped, admission
  <2>5. CASE PopNoSurvivor(u) \/ PopRefused(u) \/ PopUnwinds(u)
    <3>1. Prepare(u) /\ UNCHANGED <<in_flight, prepared>>
      BY <2>5 DEF PopNoSurvivor, PopRefused, PopUnwinds, admission
    <3>2. VerdictsOf(u) /\ outputs' = outputs
      BY <2>1, <2>2, <3>1, PrepareVerdicts DEF VerdictInv, EngineInv
    <3> QED
      BY <2>2, <3>1, <3>2, QuietStep
  <2> QED
    BY <1>1, <2>3, <2>4, <2>5 DEF Pop
<1>2. ASSUME NEW u \in Unit, SettleLeftover(u) PROVE PR!RunStep
  <2>1. in_flight[u] = 0
    BY <1>2 DEF SettleLeftover, PhaseInv, Empty
  <2> QED
    BY <1>2, <2>1, SettleUnitVerdicts, QuietStep DEF SettleLeftover, admission
<1>3. ASSUME NEW u \in Unit, JoinOutcome(u) \/ JoinPanicked(u) PROVE PR!RunStep
  BY <1>3, JoinsAreOutcomes, JoinStep
<1>4. CASE Finish
  <2>1. \A n \in Node : IsSettled(n)
    BY <1>4, NothingLeft DEF Finish
  <2>2. DOMAIN SkipAll({n \in Node : ~IsSettled(n)}, IF stop = "none" THEN "NotRun" ELSE stop)
          = {}
    BY <2>1 DEF SkipAll
  <2>3. \A n \in Node : SameVerdict(n)
    BY <1>4, <2>2 DEF Finish, Record, SameVerdict
  <2>4. \A n \in Node : Life'[n] = Life[n]
    BY <2>1, <2>3, SameLife
  <2> QED
    BY <2>4 DEF Life
<1>5. CASE EndSchedule \/ EndRetry \/ EndLeftovers \/ SeeCancel \/ Cancel \/ UNCHANGED vars
  <2>1. UNCHANGED <<outputs, errors, skipped, in_flight, prepared>>
    BY <1>5
    DEF EndSchedule, EndRetry, EndLeftovers, SeeCancel, Cancel, vars, admission, verdicts
  <2> QED
    BY <2>1 DEF Life, Running
<1> QED
  BY <1>1, <1>2, <1>3, <1>4, <1>5 DEF Next, EngineStep, Stopped

\* The engine implements PlanRun for every plan, configuration and outcome
\* (scheduler.rs:3-11), unless a panic meets a batch group (scheduler.rs:121).
THEOREM PlanRunTheorem == PanicsAlone /\ Spec => ImplementsPlanRun
<1> SUFFICES ASSUME PanicsAlone PROVE Spec => ImplementsPlanRun
  OBVIOUS
<1>1. Init => PR!RunInit
  BY DEF Init, PR!RunInit, Life, Running
<1>2. EngineInv /\ EngineInv' /\ PhaseInv /\ VerdictInv /\ EffectExclusion'
        /\ [Next]_vars => [PR!RunStep]_Life
  BY StepImplementsRunStep
<1>3. Spec => []VerdictInv
  BY VerdictInvariant
<1> QED
  BY <1>1, <1>2, <1>3, EngineInvariant, PhaseInvariant, RunningCompatible, PTL
  DEF Spec, ImplementsPlanRun, PR!RunSpec

----------------------------------------------------------------------------
(* Terminal events.  A refused batch group is prepared again and reports   *)
(* its skipped members again, so this is about plans without batch groups. *)

Settled == {n \in Node : IsSettled(n)}

\* A node has its event when it has its verdict, and then its unit is done:
\* nothing will report the node a second time.  The counters count verdicts.
EventInv ==
  /\ terminal \in [Node -> Nat]
  /\ metrics \in [succeeded: Nat, failed: Nat, skipped: Nat]
  /\ \A n \in Node : terminal[n] = IF IsSettled(n) THEN 1 ELSE 0
  /\ \A u \in Unit : \A n \in Members[u] : IsSettled(n) => Retired(u)
  /\ IsFiniteSet(Settled)
  /\ metrics.succeeded + metrics.failed + metrics.skipped = Cardinality(Settled)
  /\ pc = "done" => \A n \in Node : IsSettled(n)

\* Verdicts for nodes that had none add to the count.
LEMMA CountFresh ==
  ASSUME NEW S, IsFiniteSet(S), NEW A, IsFiniteSet(A), A \cap S = {}
  PROVE  /\ IsFiniteSet(S \cup A) /\ Cardinality(S) \in Nat /\ Cardinality(A) \in Nat
         /\ Cardinality(S \cup A) = Cardinality(S) + Cardinality(A)
<1>1. Cardinality(S) \in Nat /\ Cardinality(A) \in Nat /\ Cardinality({}) = 0
  BY FS_CardinalityType, FS_EmptySet
<1>2. /\ IsFiniteSet(S \cup A)
      /\ Cardinality(S \cup A) = Cardinality(S) + Cardinality(A) - Cardinality(S \cap A)
  BY FS_Union
<1>3. Cardinality(S \cap A) = 0
  BY <1>1
<1> QED
  BY <1>1, <1>2, <1>3

\* The nodes that get a verdict had none, and their unit ends with it.
LEMMA FreshKeepsEvents ==
  ASSUME EventInv, NEW u \in Unit, NEW oks, NEW fails, NEW skips,
         Record(oks, fails, skips), \A n \in DOMAIN skips : skips[n] # "none",
         oks \subseteq Members[u], fails \subseteq Members[u], DOMAIN skips \subseteq Members[u],
         IsFiniteSet(Members[u]),
         oks \cap fails = {}, oks \cap DOMAIN skips = {}, fails \cap DOMAIN skips = {},
         \A n \in oks \cup fails \cup DOMAIN skips : ~IsSettled(n) /\ Retired(u)',
         \A w \in Unit : Retired(w) => Retired(w)', pc' # "done"
  PROVE  EventInv'
<1> DEFINE D == DOMAIN skips
<1>1. \A n \in Node : IsSettled(n)' <=> IsSettled(n) \/ n \in oks \cup fails \cup D
  BY RecordSettles
<1>2. terminal' = [n \in Node |-> terminal[n] + (IF n \in oks \cup fails \cup D THEN 1 ELSE 0)]
  BY DEF Record
<1>3. metrics' = [succeeded |-> metrics.succeeded + Cardinality(oks),
                  failed    |-> metrics.failed + Cardinality(fails),
                  skipped   |-> metrics.skipped + Cardinality(D)]
  BY DEF Record
<1> HIDE DEF D
<1>d. D \subseteq Members[u] /\ oks \cap D = {} /\ fails \cap D = {}
      /\ \A n \in oks \cup fails \cup D : ~IsSettled(n) /\ Retired(u)'
  BY DEF D
<1>4. IsFiniteSet(oks) /\ IsFiniteSet(fails) /\ IsFiniteSet(D)
  BY <1>d, FS_Subset
<1>5. Settled' = Settled \cup oks \cup fails \cup D
  BY <1>1, <1>d, MembersType DEF Settled
<1>6. oks \cap Settled = {} /\ fails \cap Settled = {} /\ D \cap Settled = {}
  BY <1>d DEF Settled
<1>7. /\ IsFiniteSet(Settled')
      /\ Cardinality(oks) \in Nat /\ Cardinality(fails) \in Nat /\ Cardinality(D) \in Nat
      /\ Cardinality(Settled) \in Nat
      /\ Cardinality(Settled') =
           Cardinality(Settled) + Cardinality(oks) + Cardinality(fails) + Cardinality(D)
  <2>1. IsFiniteSet(Settled)
    BY DEF EventInv
  <2> HIDE DEF Settled
  <2>2. /\ IsFiniteSet(Settled \cup oks) /\ Cardinality(Settled) \in Nat
        /\ Cardinality(oks) \in Nat
        /\ Cardinality(Settled \cup oks) = Cardinality(Settled) + Cardinality(oks)
    BY <1>4, <1>6, <2>1, CountFresh
  <2>3. fails \cap (Settled \cup oks) = {} /\ D \cap (Settled \cup oks \cup fails) = {}
    BY <1>6, <1>d
  <2>4. /\ IsFiniteSet(Settled \cup oks \cup fails) /\ Cardinality(fails) \in Nat
        /\ Cardinality(Settled \cup oks \cup fails)
             = Cardinality(Settled \cup oks) + Cardinality(fails)
    BY <1>4, <2>2, <2>3, CountFresh
  <2>5. /\ IsFiniteSet(Settled \cup oks \cup fails \cup D) /\ Cardinality(D) \in Nat
        /\ Cardinality(Settled \cup oks \cup fails \cup D)
             = Cardinality(Settled \cup oks \cup fails) + Cardinality(D)
    BY <1>4, <2>3, <2>4, CountFresh
  <2> QED
    BY <1>5, <2>2, <2>4, <2>5
<1>8. terminal' \in [Node -> Nat] /\ \A n \in Node : terminal'[n] = IF IsSettled(n)' THEN 1 ELSE 0
  BY <1>1, <1>2, <1>d DEF EventInv
<1>9. \A w \in Unit : \A n \in Members[w] : IsSettled(n)' => Retired(w)'
  <2> SUFFICES ASSUME NEW w \in Unit, NEW n \in Members[w], IsSettled(n)' PROVE Retired(w)'
    OBVIOUS
  <2>1. CASE IsSettled(n)
    BY <2>1 DEF EventInv
  <2>2. CASE n \in oks \cup fails \cup D
    <3>1. w = u
      BY <2>2, <1>d, MembersType
    <3> QED
      BY <2>2, <3>1, <1>d
  <2> QED
    BY <1>1, <2>1, <2>2, MembersType
<1>10. /\ metrics' \in [succeeded: Nat, failed: Nat, skipped: Nat]
       /\ metrics'.succeeded + metrics'.failed + metrics'.skipped = Cardinality(Settled')
  <2>1. /\ metrics.succeeded \in Nat /\ metrics.failed \in Nat /\ metrics.skipped \in Nat
        /\ metrics.succeeded + metrics.failed + metrics.skipped = Cardinality(Settled)
    BY DEF EventInv
  <2>2. /\ metrics'.succeeded = metrics.succeeded + Cardinality(oks)
        /\ metrics'.failed = metrics.failed + Cardinality(fails)
        /\ metrics'.skipped = metrics.skipped + Cardinality(D)
    BY <1>3
  <2> QED
    BY <1>3, <1>7, <2>1, <2>2
<1> QED
  BY <1>7, <1>8, <1>9, <1>10 DEF EventInv

\* The nodes are left alone.
LEMMA QuietKeepsEvents ==
  ASSUME EventInv, \A w \in Unit : Retired(w) => Retired(w)',
         UNCHANGED <<outputs, errors, skipped, metrics, terminal>>,
         pc' = "done" => pc = "done"
  PROVE  EventInv'
<1>1. \A n \in Node : IsSettled(n)' <=> IsSettled(n)
  BY DEF IsSettled
<1>2. Settled' = Settled
  BY <1>1 DEF Settled
<1> QED
  BY <1>1, <1>2, MembersType DEF EventInv

LEMMA SettleKeepsEvents ==
  ASSUME EventInv, NEW u \in Unit, IsFiniteSet(Members[u]), NEW fallback, fallback # "none",
         SettleUnit(u, fallback), \A w \in Unit : Retired(w)' <=> Retired(w) \/ w = u,
         pc' # "done"
  PROVE  EventInv'
<1> DEFINE S == {n \in Members[u] : ~IsSettled(n)}
           skips == SkipAll(S, fallback)
<1>1. /\ DOMAIN skips = S /\ S \subseteq Members[u]
      /\ \A n \in DOMAIN skips : skips[n] # "none" /\ ~IsSettled(n)
  BY DEF SkipAll, SkipReason
<1>2. Record({}, {}, skips)
  BY DEF SettleUnit
<1> HIDE DEF skips, S
<1> QED
  BY <1>1, <1>2, FreshKeepsEvents

\* A unit of one node: it runs when its node survives, and its node has a
\* verdict only once it is done.
LEMMA SingleUnit ==
  ASSUME Batch = {}, EngineType, NEW u \in Unit
  PROVE  /\ IsFiniteSet(Members[u])
         /\ Survivors(u) # {} => PrepFails(u) = {} /\ DOMAIN PrepSkips(u) = {}
         /\ PrepFails(u) \cap DOMAIN PrepSkips(u) = {}
         /\ PrepFails(u) \subseteq Members[u] /\ DOMAIN PrepSkips(u) \subseteq Members[u]
         /\ \A n \in DOMAIN PrepSkips(u) : PrepSkips(u)[n] # "none"
<1>1. PICK n \in Node : Members[u] = {n}
  BY UnitAssumption
<1>2. IsFiniteSet(Members[u])
  BY <1>1, FS_Singleton
<1>3. \A m \in DOMAIN PrepSkips(u) : PrepSkips(u)[m] # "none"
  BY DEF PrepSkips, SkipReason
<1>4. preparation[n] \in {"run", "condition", "error"}
  BY DEF EngineType
<1> QED
  BY <1>1, <1>2, <1>3, <1>4 DEF Survivors, PrepFails, PrepSkips

LEMMA PopKeepsEvents ==
  ASSUME Batch = {}, EngineInv, EventInv, NEW u \in Unit, Pop(u)
  PROVE  EventInv'
<1>1. pc # "unwound" /\ pc' # "done" /\ ready[u] > 0
  BY DEF Pop, PopStopped, PopNoSurvivor, PopRefused, PopSpawned, PopUnwinds,
         Preparing, Popping, Top
<1>2. ready[u] = 1 /\ blocked[u] = 0 /\ in_flight[u] = 0 /\ remaining[u] = 0
  BY <1>1, PoppedUnit
<1>3. Places(u) > 0 /\ ~Retired(u) /\ \A n \in Members[u] : ~IsSettled(n)
  BY <1>2 DEF Places, Retired, EventInv
<1>4. CASE PopStopped(u) \/ PopNoSurvivor(u)
  <2>1. \A w \in Unit : Retired(w)' <=> Retired(w) \/ w = u
    BY <1>1, <1>4, RetiringPopPlaces, RetireKeepsQueueInv
    DEF PopStopped, PopNoSurvivor, admission, EngineInv
  <2>2. CASE PopStopped(u)
    BY <1>1, <2>1, <2>2, SingleUnit, SettleKeepsEvents DEF PopStopped, EngineInv
  <2>3. CASE PopNoSurvivor(u)
    <3>1. Record({}, PrepFails(u), PrepSkips(u))
      BY <2>3 DEF PopNoSurvivor, Prepare
    <3> QED
      BY <1>1, <1>3, <2>1, <3>1, SingleUnit, FreshKeepsEvents DEF EngineInv
  <2> QED
    BY <1>4, <2>2, <2>3
<1>5. CASE PopRefused(u) \/ PopSpawned(u) \/ PopUnwinds(u)
  <2>1. \A w \in Unit : Retired(w) => Retired(w)'
    <3> SUFFICES ASSUME NEW w \in Unit, Retired(w) PROVE Retired(w)'
      OBVIOUS
    <3>1. w # u
      BY <1>3
    <3>2. ready'[w] = ready[w] /\ blocked'[w] = blocked[w] /\ in_flight'[w] = in_flight[w]
      BY <1>5, <3>1
      DEF PopRefused, PopSpawned, PopUnwinds, Plus, Minus, admission, EngineInv, EngineType
    <3>3. remaining'[w] = remaining[w]
      BY <1>5 DEF PopRefused, PopSpawned, PopUnwinds
    <3> QED
      BY <3>2, <3>3 DEF Retired, Places
  <2>2. Record({}, PrepFails(u), PrepSkips(u)) /\ PrepFails(u) = {} /\ DOMAIN PrepSkips(u) = {}
    BY <1>5, SingleUnit DEF PopRefused, PopSpawned, PopUnwinds, Prepare, EngineInv
  <2> QED
    BY <1>1, <2>1, <2>2, SingleUnit, FreshKeepsEvents DEF EngineInv
<1> QED
  BY <1>4, <1>5 DEF Pop

LEMMA JoinKeepsEvents ==
  ASSUME Batch = {}, EngineInv, VerdictInv, EventInv, NEW u \in Unit,
         JoinOutcome(u) \/ JoinPanicked(u)
  PROVE  EventInv'
<1>1. PICK oks \in SUBSET prepared[u] : Joined(u, oks, prepared[u] \ oks)
  BY JoinsAreOutcomes DEF PanicsAlone
<1>2. pc # "unwound" /\ pc' # "done" /\ in_flight[u] > 0
  BY <1>1 DEF Joined
<1>3. \A w \in Unit : Retired(w)' <=> Retired(w) \/ w = u
  BY <1>1, <1>2, JoinedPlaces, RetireKeepsQueueInv DEF Joined, EngineInv
<1>4. prepared[u] \subseteq Members[u] /\ IsFiniteSet(Members[u])
  BY SingleUnit DEF EngineInv, EngineType
<1>5. \A n \in prepared[u] : ~IsSettled(n)
  BY <1>1, <1>2, JoinedVerdicts DEF VerdictInv, Joined
<1>6. DOMAIN <<>> = {} /\ Record(oks, prepared[u] \ oks, <<>>)
  BY <1>1 DEF Joined
<1> QED
  BY <1>2, <1>3, <1>4, <1>5, <1>6, FreshKeepsEvents

\* finish() finds nothing to settle: it leaves the nodes as they are.
LEMMA FinishIsQuiet ==
  ASSUME EngineInv, PhaseInv, Finish
  PROVE  /\ \A n \in Node : IsSettled(n)
         /\ outputs' = outputs /\ errors' = errors /\ dead' = dead /\ stop' = stop
         /\ skipped' = [n \in Node |-> skipped[n]]
         /\ terminal' = [n \in Node |-> terminal[n] + 0]
         /\ metrics' = [succeeded |-> metrics.succeeded + Cardinality({}),
                        failed    |-> metrics.failed + Cardinality({}),
                        skipped   |-> metrics.skipped + Cardinality({})]
<1>1. \A n \in Node : IsSettled(n)
  BY NothingLeft DEF Finish
<1> DEFINE skips == SkipAll({n \in Node : ~IsSettled(n)}, IF stop = "none" THEN "NotRun" ELSE stop)
<1>2. DOMAIN skips = {}
  BY <1>1 DEF SkipAll
<1>3. Record({}, {}, skips)
  BY DEF Finish
<1> HIDE DEF skips
<1>4. {} \cup {} \cup DOMAIN skips = {}
  BY <1>2
<1> QED
  BY <1>1, <1>2, <1>3, <1>4 DEF Record

LEMMA NextKeepsEvents ==
  ASSUME Batch = {}
  PROVE  EngineInv /\ PhaseInv /\ VerdictInv /\ EventInv /\ [Next]_vars => EventInv'
<1> SUFFICES ASSUME EngineInv, PhaseInv, VerdictInv, EventInv, [Next]_vars
             PROVE  EventInv'
  OBVIOUS
<1>1. ASSUME NEW u \in Unit, SettleLeftover(u) PROVE EventInv'
  <2>1. pc # "unwound" /\ pc' # "done"
    BY <1>1 DEF SettleLeftover
  <2>2. \A w \in Unit : Retired(w)' <=> Retired(w) \/ w = u
    BY <1>1, <2>1, LeftoverPlaces, RetireKeepsQueueInv DEF SettleLeftover, admission, EngineInv
  <2> QED
    BY <1>1, <2>1, <2>2, SingleUnit, SettleKeepsEvents DEF SettleLeftover, EngineInv
<1>2. CASE Finish
  <2>1. /\ \A n \in Node : IsSettled(n) /\ IsSettled(n)'
        /\ terminal' = terminal /\ metrics' = metrics
    <3>1. \A n \in Node : IsSettled(n) /\ IsSettled(n)'
      BY <1>2, FinishIsQuiet DEF IsSettled
    <3>2. terminal' = terminal
      BY <1>2, FinishIsQuiet DEF EventInv
    <3>3. metrics' = metrics
      BY <1>2, FinishIsQuiet, FS_EmptySet DEF EventInv
    <3> QED
      BY <3>1, <3>2, <3>3
  <2>2. Settled' = Settled
    BY <2>1 DEF Settled
  <2>3. \A w \in Unit : Retired(w)' <=> Retired(w)
    BY <1>2 DEF Finish, queues, admission, Retired, Places
  <2> QED
    BY <2>1, <2>2, <2>3, MembersType DEF EventInv
<1>3. CASE EndSchedule \/ EndRetry \/ EndLeftovers \/ SeeCancel \/ Cancel \/ UNCHANGED vars
  <2>1. /\ UNCHANGED <<outputs, errors, skipped, metrics, terminal, remaining, in_flight>>
        /\ pc' = "done" => pc = "done"
    BY <1>3
    DEF EndSchedule, EndRetry, EndLeftovers, SeeCancel, Cancel, vars, admission, verdicts, queues
  <2>2. UNCHANGED <<ready, blocked>> \/ Requeue(ready)
    BY <1>3 DEF EndSchedule, EndRetry, EndLeftovers, SeeCancel, Cancel, vars, queues
  <2>3. \A w \in Unit : Places(w)' = Places(w)
    BY <2>1, <2>2 DEF Requeue, Places, EngineInv, EngineType
  <2> QED
    BY <2>1, <2>3, QuietKeepsEvents DEF Retired
<1> QED
  BY <1>1, <1>2, <1>3, PopKeepsEvents, JoinKeepsEvents DEF Next, EngineStep, Stopped

LEMMA InitEstablishesEvents == Init => EventInv
<1> SUFFICES ASSUME Init PROVE EventInv
  OBVIOUS
<1>1. \A n \in Node : ~IsSettled(n)
  BY DEF Init, IsSettled
<1>2. Settled = {} /\ IsFiniteSet({}) /\ Cardinality({}) = 0
  BY <1>1, FS_EmptySet DEF Settled
<1>3. /\ terminal \in [Node -> Nat] /\ \A n \in Node : terminal[n] = 0
      /\ metrics = [succeeded |-> 0, failed |-> 0, skipped |-> 0] /\ pc = "schedule"
  BY DEF Init
<1> QED
  BY <1>1, <1>2, <1>3, MembersType DEF EventInv

\* One terminal event per node, and counters that add up to the number of
\* nodes (docs/result-format.md:62-63), for every plan without batch groups:
\* whatever is refused and retried, cancelled, or fails.
THEOREM EventsTheorem == Batch = {} /\ Spec => []OneTerminalEvent
<1> SUFFICES ASSUME Batch = {} PROVE Spec => []OneTerminalEvent
  OBVIOUS
<1>1. EngineInv /\ PhaseInv /\ VerdictInv /\ EventInv /\ [Next]_vars => EventInv'
  BY NextKeepsEvents
<1>2. Spec => []VerdictInv
  BY VerdictInvariant DEF PanicsAlone
<1>3. EventInv => OneTerminalEvent
  <2> SUFFICES ASSUME EventInv PROVE OneTerminalEvent
    OBVIOUS
  <2>1. \A n \in Node : terminal[n] \in {0, 1}
    BY DEF EventInv
  <2>2. ASSUME pc = "done"
        PROVE  /\ \A n \in Node : terminal[n] = 1
               /\ metrics.succeeded + metrics.failed + metrics.skipped = Cardinality(Node)
    <3>1. \A n \in Node : IsSettled(n)
      BY <2>2 DEF EventInv
    <3>2. Settled = Node
      BY <3>1 DEF Settled
    <3> QED
      BY <3>1, <3>2 DEF EventInv
  <2> QED
    BY <2>1, <2>2 DEF OneTerminalEvent
<1> QED
  BY <1>1, <1>2, <1>3, InitEstablishesEvents, EngineInvariant, PhaseInvariant, PTL DEF Spec

----------------------------------------------------------------------------
(* Why the engine stops, and that it stays stopped.                        *)

StopInv ==
  /\ stop \in {"none", "NotRun", "Cancelled"}
  /\ stop = "NotRun" => config.on_error = "FailFast" /\ errors # {}
  /\ stop = "Cancelled" => cancelled
  /\ config.on_error = "FailFast" /\ errors # {} => stop # "none"

LEMMA RecordKeepsStop ==
  ASSUME StopInv, NEW oks, NEW fails, NEW skips, Record(oks, fails, skips),
         UNCHANGED <<config, cancelled>>
  PROVE  StopInv' /\ (stop # "none" => stop' = stop)
<1>1. /\ errors' = errors \cup fails
      /\ stop' = IF fails # {} /\ stop = "none" /\ config.on_error = "FailFast"
                 THEN "NotRun" ELSE stop
  BY DEF Record
<1> QED
  BY <1>1 DEF StopInv

LEMMA NextKeepsStop ==
  StopInv /\ [Next]_vars => StopInv' /\ (stop # "none" => stop' = stop)
<1> SUFFICES ASSUME StopInv, [Next]_vars PROVE StopInv' /\ (stop # "none" => stop' = stop)
  OBVIOUS
<1>1. ASSUME NEW u \in Unit, Pop(u) \/ SettleLeftover(u)
      PROVE  StopInv' /\ (stop # "none" => stop' = stop)
  <2>1. PICK oks, fails, skips : Record(oks, fails, skips)
    BY <1>1
    DEF Pop, PopStopped, PopNoSurvivor, PopRefused, PopSpawned, PopUnwinds, SettleLeftover,
        SettleUnit, Prepare
  <2>2. UNCHANGED world
    BY <1>1
    DEF Pop, PopStopped, PopNoSurvivor, PopRefused, PopSpawned, PopUnwinds, SettleLeftover
  <2> QED
    BY <2>1, <2>2, RecordKeepsStop DEF world
<1>2. ASSUME NEW u \in Unit, JoinOutcome(u) \/ JoinPanicked(u)
      PROVE  StopInv' /\ (stop # "none" => stop' = stop)
  <2>1. PICK oks, fails : Joined(u, oks, fails)
    BY <1>2 DEF JoinOutcome, JoinPanicked
  <2> QED
    BY <2>1, RecordKeepsStop DEF Joined, world
<1>3. CASE Finish
  <2>1. PICK skips : Record({}, {}, skips)
    BY <1>3 DEF Finish
  <2>2. UNCHANGED <<config, cancelled>>
    BY <1>3 DEF Finish, world
  <2> QED
    BY <2>1, <2>2, RecordKeepsStop
<1>4. CASE SeeCancel
  BY <1>4 DEF SeeCancel, StopInv, world
<1>5. CASE EndSchedule \/ EndRetry \/ EndLeftovers \/ UNCHANGED vars
  BY <1>5 DEF EndSchedule, EndRetry, EndLeftovers, vars, verdicts, world, StopInv
<1>6. CASE Cancel
  BY <1>6 DEF Cancel, verdicts, StopInv
<1> QED
  BY <1>1, <1>2, <1>3, <1>4, <1>5, <1>6 DEF Next, EngineStep, Stopped

LEMMA StopInvariant == Spec => []StopInv
<1>1. Init => StopInv
  BY DEF Init, StopInv
<1> QED
  BY <1>1, NextKeepsStop, PTL DEF Spec

\* Only a spawned unit adds to the tasks in flight.
LEMMA OnlySpawnAdds ==
  ASSUME EngineInv, [Next]_vars, NEW w \in Unit, in_flight'[w] > in_flight[w]
  PROVE  \E u \in Unit : PopSpawned(u)
<1>1. in_flight \in [Unit -> Nat]
  BY DEF EngineInv, EngineType
<1>2. ASSUME UNCHANGED in_flight PROVE FALSE
  BY <1>1, <1>2
<1>3. ASSUME NEW u \in Unit, in_flight' = Minus(in_flight, u) PROVE FALSE
  BY <1>1, <1>3 DEF Minus
<1>4. ASSUME NEW u \in Unit, JoinOutcome(u) \/ JoinPanicked(u) PROVE FALSE
  <2>1. PICK oks, fails : Joined(u, oks, fails)
    BY <1>4 DEF JoinOutcome, JoinPanicked
  <2> QED
    BY <1>3, <2>1 DEF Joined
<1>5. ASSUME NEW u \in Unit, Pop(u) PROVE PopSpawned(u)
  BY <1>2, <1>5 DEF Pop, PopStopped, PopNoSurvivor, PopRefused, PopUnwinds, admission
<1>6. ASSUME NEW u \in Unit, SettleLeftover(u) PROVE FALSE
  BY <1>1, <1>6 DEF SettleLeftover, admission
<1>7. CASE EndSchedule \/ EndRetry \/ EndLeftovers \/ SeeCancel \/ Finish \/ Cancel
           \/ UNCHANGED vars
  BY <1>2, <1>7
  DEF EndSchedule, EndRetry, EndLeftovers, SeeCancel, Finish, Cancel, vars, admission
<1> QED
  BY <1>4, <1>5, <1>6, <1>7 DEF Next, EngineStep, Stopped

\* Once the engine is stopping it starts nothing more and keeps its reason
\* (scheduler.rs:156-159), for every plan.
THEOREM StopTheorem == Spec => StopIsFinal
<1>1. EngineInv /\ EngineInv' /\ StopInv /\ [Next]_vars =>
        [stop # "none" => /\ stop' = stop
                          /\ \A u \in Unit : in_flight'[u] <= in_flight[u]]_vars
  <2> SUFFICES ASSUME EngineInv, EngineInv', StopInv, [Next]_vars, stop # "none"
               PROVE  stop' = stop /\ \A u \in Unit : in_flight'[u] <= in_flight[u]
    OBVIOUS
  <2>1. stop' = stop
    BY NextKeepsStop
  <2>2. ASSUME NEW w \in Unit, in_flight'[w] > in_flight[w] PROVE FALSE
    <3>1. PICK u \in Unit : PopSpawned(u)
      BY <2>2, OnlySpawnAdds
    <3> QED
      BY <3>1 DEF PopSpawned, Preparing
  <2>3. \A w \in Unit : in_flight[w] \in Nat /\ in_flight'[w] \in Nat
    BY DEF EngineInv, EngineType
  <2> QED
    BY <2>1, <2>2, <2>3
<1> QED
  BY <1>1, EngineInvariant, StopInvariant, PTL DEF Spec, StopIsFinal

\* "FailFast: stop scheduling new nodes" (lib.rs:58), for every plan without
\* batch groups: no node is started once another one has failed.
THEOREM FailFastTheorem == Batch = {} /\ Spec => FailFastStartsNothing
<1> SUFFICES ASSUME Batch = {} PROVE Spec => FailFastStartsNothing
  OBVIOUS
<1>1. EngineInv /\ EngineInv' /\ StopInv /\ [Next]_vars =>
        [config.on_error = "FailFast" /\ errors' # {} =>
           \A u \in Unit : in_flight'[u] <= in_flight[u]]_vars
  <2> SUFFICES ASSUME EngineInv, EngineInv', StopInv, [Next]_vars,
                      config.on_error = "FailFast", errors' # {}
               PROVE  \A u \in Unit : in_flight'[u] <= in_flight[u]
    OBVIOUS
  <2>1. ASSUME NEW w \in Unit, in_flight'[w] > in_flight[w] PROVE FALSE
    <3>1. PICK u \in Unit : PopSpawned(u)
      BY <2>1, OnlySpawnAdds
    <3>2. stop = "none" /\ Record({}, PrepFails(u), PrepSkips(u)) /\ Survivors(u) # {}
      BY <3>1 DEF PopSpawned, Preparing, Prepare
    <3>3. errors = {} /\ PrepFails(u) = {}
      BY <3>2, SingleUnit DEF StopInv, EngineInv
    <3>4. errors' = errors \cup PrepFails(u)
      BY <3>2 DEF Record
    <3> QED
      BY <3>3, <3>4
  <2>2. \A w \in Unit : in_flight[w] \in Nat /\ in_flight'[w] \in Nat
    BY DEF EngineInv, EngineType
  <2> QED
    BY <2>1, <2>2
<1> QED
  BY <1>1, EngineInvariant, StopInvariant, PTL DEF Spec, FailFastStartsNothing

----------------------------------------------------------------------------
(* Limits that let something run.                                          *)

\* No limit is zero.  The engine accepts a zero; units that fall under it are
\* then settled as not run.
LimitsPositive ==
  /\ \A t \in Tool : ToolLimit[t] # 0
  /\ \A c \in Configs : c.max_concurrency # 0

FedInv ==
  /\ config \in Configs
  /\ pc = "retry" /\ Empty(in_flight) => Empty(blocked)
  /\ pc = "leftovers" => Empty(blocked)

\* "Nothing running: all locks and permits are free" (scheduler.rs:74-76).
LEMMA IdleAdmits ==
  ASSUME LimitsPositive, EngineInv, IdleGrantsEverything, config \in Configs,
         Empty(in_flight), NEW u \in Unit
  PROVE  WithinLimits(u) /\ (Grants(Request(u)) \/ Panics(Request(u)))
<1>1. Running = {} /\ held = {}
  BY DEF Running, Empty, EngineInv, LimitsRespected
<1>2. Grants(Request(u)) \/ Panics(Request(u))
  BY <1>1 DEF IdleGrantsEverything
<1>3. UnitTool(u) \in Tool
  BY UnitToolType
<1>4. Cardinality({}) = 0
  BY FS_EmptySet
<1>5. {v \in Running : UnitTool(v) = UnitTool(u)} = {}
  BY <1>1
<1>6. total_in_flight = 0 /\ tool_in_flight[UnitTool(u)] = 0
  BY <1>1, <1>3, <1>4, <1>5 DEF EngineInv, LimitsRespected
<1>7. ToolLimit[UnitTool(u)] \in Nat \cup {NoLimit} /\ ToolLimit[UnitTool(u)] # 0
  BY <1>3, EngineAssumption DEF LimitsPositive
<1>8. GlobalLimit \in Nat \cup {NoLimit} /\ GlobalLimit # 0
  BY DEF GlobalLimit, LimitsPositive, EngineInv, EngineType, Config
<1>9. WithinLimits(u)
  BY <1>6, <1>7, <1>8 DEF WithinLimits, Below
<1> QED
  BY <1>2, <1>9

LEMMA NextKeepsFed ==
  ASSUME LimitsPositive
  PROVE  EngineInv /\ IdleGrantsEverything /\ FedInv /\ [Next]_vars => FedInv'
<1> SUFFICES ASSUME EngineInv, IdleGrantsEverything, FedInv, [Next]_vars PROVE FedInv'
  OBVIOUS
<1>1. in_flight \in [Unit -> Nat] /\ blocked \in [Unit -> Nat]
  BY DEF EngineInv, EngineType
<1>2. ASSUME NEW u \in Unit, Pop(u) PROVE FedInv'
  <2>1. CASE PopStopped(u) \/ PopNoSurvivor(u)
    BY <2>1 DEF PopStopped, PopNoSurvivor, FedInv, Empty, admission, world
  <2>2. CASE PopRefused(u)
    <3>1. ~Empty(in_flight)
      BY <2>2, IdleAdmits DEF PopRefused, FedInv
    <3> QED
      BY <2>2, <3>1 DEF PopRefused, Preparing, Popping, FedInv, Empty, admission, world
  <2>3. CASE PopSpawned(u)
    <3>1. in_flight'[u] # 0 /\ pc' = pc /\ pc # "leftovers" /\ config' = config
      BY <1>1, <2>3 DEF PopSpawned, Preparing, Popping, Plus, world
    <3> QED
      BY <3>1 DEF FedInv, Empty
  <2>4. CASE PopUnwinds(u)
    BY <2>4 DEF PopUnwinds, FedInv, world
  <2> QED
    BY <1>2, <2>1, <2>2, <2>3, <2>4 DEF Pop
<1>3. ASSUME NEW u \in Unit, SettleLeftover(u) PROVE FedInv'
  BY <1>1, <1>3 DEF SettleLeftover, FedInv, Empty
<1>4. ASSUME NEW u \in Unit, JoinOutcome(u) \/ JoinPanicked(u) PROVE FedInv'
  BY <1>4 DEF JoinOutcome, JoinPanicked, Joined, FedInv, world
<1>5. CASE EndSchedule
  <2>1. pc' = "retry" => blocked' = [v \in Unit |-> 0]
    BY <1>5 DEF EndSchedule, Requeue
  <2>2. pc' # "leftovers" /\ config' = config
    BY <1>5 DEF EndSchedule, world
  <2> QED
    BY <2>1, <2>2 DEF FedInv, Empty
<1>6. CASE EndRetry
  BY <1>6 DEF EndRetry, FedInv, Empty, queues, admission, world
<1>7. CASE EndLeftovers \/ SeeCancel \/ Finish
  BY <1>7 DEF EndLeftovers, SeeCancel, Finish, FedInv, world
<1>8. CASE Cancel \/ UNCHANGED vars
  BY <1>8 DEF Cancel, vars, FedInv, Empty, queues, admission, world
<1> QED
  BY <1>2, <1>3, <1>4, <1>5, <1>6, <1>7, <1>8 DEF Next, EngineStep, Stopped

\* "A blocked retry must make progress" (scheduler.rs:74-76): when no limit is
\* zero, no refused unit is ever given up, for every plan.
THEOREM FedTheorem == LimitsPositive /\ Spec => []FedInv
<1> SUFFICES ASSUME LimitsPositive PROVE Spec => []FedInv
  OBVIOUS
<1>1. EngineInv /\ IdleGrantsEverything /\ FedInv /\ [Next]_vars => FedInv'
  BY NextKeepsFed
<1>2. Init => FedInv
  BY DEF Init, FedInv
<1>3. Spec => []IdleGrantsEverything
  BY LockRefinement, IdleTheorem, PTL DEF ImplementsLockTable
<1> QED
  BY <1>1, <1>2, <1>3, EngineInvariant, PTL DEF Spec

----------------------------------------------------------------------------
(* The reasons for skips.                                                  *)

\* A reason that is true when it is given.
TrueReason(n, reason) ==
  \/ reason = "FailedDependency" /\ DependencyDead(n)
  \/ ~DependencyDead(n) /\ reason = "Condition" /\ preparation[n] = "condition"
  \/ ~DependencyDead(n) /\ reason = stop /\ stop # "none"

SkipInv == \A n \in Node : skipped[n] # "none" => TrueReason(n, skipped[n])

\* A step gives true reasons, and those given before stay true: what a settled
\* node depends on was done before it.
LEMMA ReasonsKept ==
  ASSUME EngineInv, VerdictInv, StopInv, SkipInv, pc # "unwound", NEW u \in Unit,
         remaining[u] = 0, ~Retired(u), VerdictsOf(u),
         NEW oks, NEW fails, NEW skips, Record(oks, fails, skips),
         \A n \in DOMAIN skips : n \in Members[u] /\ TrueReason(n, skips[n]),
         UNCHANGED <<config, cancelled, preparation>>
  PROVE  SkipInv'
<1>1. \A n \in Node : skipped'[n] = IF n \in DOMAIN skips THEN skips[n] ELSE skipped[n]
  BY DEF Record
<1>2. stop # "none" => stop' = stop
  BY RecordKeepsStop
<1>3. ASSUME NEW n \in Node, NEW w \in Unit, n \in Members[w], remaining[w] = 0,
             NEW reason, TrueReason(n, reason)
      PROVE  TrueReason(n, reason)'
  <2>1. DependencyDead(n)' <=> DependencyDead(n)
    BY <1>3, DeadKept
  <2> QED
    BY <1>2, <1>3, <2>1 DEF TrueReason
<1> SUFFICES ASSUME NEW n \in Node, skipped'[n] # "none" PROVE TrueReason(n, skipped[n])'
  BY DEF SkipInv
<1>4. CASE n \in DOMAIN skips
  <2>1. TrueReason(n, skips[n])'
    BY <1>3, <1>4
  <2> QED
    BY <1>1, <1>4, <2>1 DEF TrueReason
<1>5. CASE n \notin DOMAIN skips
  <2>1. skipped'[n] = skipped[n] /\ TrueReason(n, skipped[n]) /\ IsSettled(n)
    BY <1>1, <1>5 DEF SkipInv, IsSettled
  <2>2. PICK w \in Unit : n \in Members[w]
    BY EngineAssumption
  <2>3. remaining[w] = 0
    BY <2>1, <2>2 DEF VerdictInv, UnitVerdicts, EngineInv, EngineType
  <2>4. PICK reason : reason = skipped[n]
    OBVIOUS
  <2>5. TrueReason(n, reason)'
    BY <1>3, <2>1, <2>2, <2>3, <2>4
  <2> QED
    BY <2>1, <2>4, <2>5 DEF TrueReason
<1> QED
  BY <1>4, <1>5

LEMMA PrepareKeepsReasons ==
  ASSUME EngineInv, VerdictInv, StopInv, SkipInv, pc # "unwound", NEW u \in Unit,
         ready[u] > 0, Prepare(u), UNCHANGED world
  PROVE  SkipInv'
<1>1. remaining[u] = 0 /\ Places(u) > 0 /\ ~Retired(u)
  BY PoppedUnit DEF Places, Retired
<1>2. VerdictsOf(u)
  BY <1>1, PrepareVerdicts DEF VerdictInv, EngineInv
<1>3. \A n \in DOMAIN PrepSkips(u) : n \in Members[u] /\ TrueReason(n, PrepSkips(u)[n])
  BY DEF PrepSkips, SkipReason, TrueReason
<1>4. Record({}, PrepFails(u), PrepSkips(u))
  BY DEF Prepare
<1> QED
  BY <1>1, <1>2, <1>3, <1>4, ReasonsKept DEF world

LEMMA PopKeepsReasons ==
  ASSUME EngineInv, VerdictInv, StopInv, SkipInv, NEW u \in Unit, Pop(u)
  PROVE  SkipInv'
<1>1. pc # "unwound" /\ ready[u] > 0 /\ UNCHANGED world
  BY DEF Pop, PopStopped, PopNoSurvivor, PopRefused, PopSpawned, PopUnwinds,
         Preparing, Popping, Top
<1>2. CASE PopStopped(u)
  <2> DEFINE S == {n \in Members[u] : ~IsSettled(n)}
             skips == SkipAll(S, stop)
  <2>1. remaining[u] = 0 /\ ~Retired(u)
    BY <1>1, PoppedUnit DEF Places, Retired
  <2>2. stop # "none" /\ SettleUnit(u, stop) /\ Record({}, {}, skips)
    BY <1>2 DEF PopStopped, SettleUnit
  <2>3. VerdictsOf(u)
    BY <2>2, SettleUnitVerdicts
  <2>4. \A n \in DOMAIN skips : n \in Members[u] /\ TrueReason(n, skips[n])
    BY <2>2 DEF SkipAll, SkipReason, TrueReason
  <2> HIDE DEF S, skips
  <2> QED
    BY <1>1, <2>1, <2>2, <2>3, <2>4, ReasonsKept DEF world
<1>3. CASE ~PopStopped(u)
  <2>1. Prepare(u)
    BY <1>3 DEF Pop, PopNoSurvivor, PopRefused, PopSpawned, PopUnwinds
  <2> QED
    BY <1>1, <2>1, PrepareKeepsReasons
<1> QED
  BY <1>2, <1>3

LEMMA NextKeepsReasons ==
  ASSUME PanicsAlone
  PROVE  EngineInv /\ PhaseInv /\ VerdictInv /\ StopInv /\ FedInv /\ SkipInv /\ [Next]_vars
           => SkipInv'
<1> SUFFICES ASSUME EngineInv, PhaseInv, VerdictInv, StopInv, FedInv, SkipInv, [Next]_vars
             PROVE  SkipInv'
  OBVIOUS
<1>1. ASSUME NEW u \in Unit, JoinOutcome(u) \/ JoinPanicked(u) PROVE SkipInv'
  <2>1. PICK oks \in SUBSET prepared[u] : Joined(u, oks, prepared[u] \ oks)
    BY <1>1, JoinsAreOutcomes
  <2>2. pc # "unwound" /\ in_flight[u] > 0 /\ UNCHANGED world
    BY <2>1 DEF Joined
  <2>3. VerdictsOf(u)
    BY <2>1, <2>2, JoinedVerdicts DEF VerdictInv, Joined
  <2>4. Places(u) > 0 /\ remaining[u] = 0 /\ ~Retired(u)
    BY <2>2 DEF EngineInv, EngineType, QueueInv, Places, Retired
  <2>5. DOMAIN <<>> = {} /\ Record(oks, prepared[u] \ oks, <<>>)
    BY <2>1 DEF Joined
  <2> QED
    BY <2>2, <2>3, <2>4, <2>5, ReasonsKept DEF world
<1>2. ASSUME NEW u \in Unit, SettleLeftover(u) PROVE SkipInv'
  BY <1>2 DEF SettleLeftover, FedInv, Empty, EngineInv, EngineType
<1>3. CASE Finish
  <2>1. /\ \A n \in Node : skipped'[n] = skipped[n]
        /\ dead' = dead /\ stop' = stop /\ preparation' = preparation
    BY <1>3, FinishIsQuiet DEF Finish, world
  <2> QED
    BY <2>1 DEF SkipInv, TrueReason, DependencyDead
<1>4. CASE SeeCancel \/ EndSchedule \/ EndRetry \/ EndLeftovers \/ Cancel \/ UNCHANGED vars
  <2>1. /\ UNCHANGED <<skipped, dead, preparation>>
        /\ stop # "none" => stop' = stop
    BY <1>4
    DEF SeeCancel, EndSchedule, EndRetry, EndLeftovers, Cancel, vars, verdicts, world
  <2> QED
    BY <2>1 DEF SkipInv, TrueReason, DependencyDead
<1> QED
  BY <1>1, <1>2, <1>3, <1>4, PopKeepsReasons DEF Next, EngineStep, Stopped

LEMMA SkipInvariant == ASSUME PanicsAlone, LimitsPositive PROVE Spec => []SkipInv
<1>1. EngineInv /\ PhaseInv /\ VerdictInv /\ StopInv /\ FedInv /\ SkipInv /\ [Next]_vars
        => SkipInv'
  BY NextKeepsReasons
<1>2. Init => SkipInv
  BY DEF Init, SkipInv
<1>3. Spec => []VerdictInv
  BY VerdictInvariant
<1>4. Spec => []FedInv
  BY FedTheorem
<1> QED
  BY <1>1, <1>2, <1>3, <1>4, EngineInvariant, PhaseInvariant, StopInvariant, PTL DEF Spec

\* The reason given for a skip is the true one and stays true (result.rs:54-66),
\* for every plan, when no limit is zero and no panic meets a batch group.
THEOREM ReasonsTheorem == PanicsAlone /\ LimitsPositive /\ Spec => []SkipReasonsTrue
<1> SUFFICES ASSUME PanicsAlone, LimitsPositive PROVE Spec => []SkipReasonsTrue
  OBVIOUS
<1>1. StopInv /\ SkipInv => SkipReasonsTrue
  BY DEF StopInv, SkipInv, TrueReason, DependencyDead, SkipReasonsTrue
<1>2. Spec => []SkipInv
  BY SkipInvariant
<1> QED
  BY <1>1, <1>2, StopInvariant, PTL

LEMMA FinishComplete ==
  ASSUME EngineInv, PhaseInv, StopInv, SkipInv, Finish
  PROVE  SuccessMeansComplete'
<1> SUFFICES ASSUME status' = "Success", NEW n \in Node
             PROVE  n \in outputs' \/ skipped'[n] \in {"Condition", "FailedDependency"}
  BY DEF SuccessMeansComplete
<1>1. stop # "Cancelled" /\ errors = {}
  <2>1. PICK missing : status' = Verdict(missing)
    BY DEF Finish
  <2> QED
    BY <2>1 DEF Verdict
<1>2. IsSettled(n) /\ outputs' = outputs /\ skipped'[n] = skipped[n]
  BY FinishIsQuiet
<1>3. stop = "none"
  BY <1>1 DEF StopInv
<1> QED
  BY <1>1, <1>2, <1>3 DEF IsSettled, SkipInv, TrueReason

\* "Success: every scheduled node finished" (result.rs:46): a successful run has
\* run every node that no condition switched off, for every plan, when no limit
\* is zero and no panic meets a batch group.
THEOREM SuccessTheorem == PanicsAlone /\ LimitsPositive /\ Spec => []SuccessMeansComplete
<1> DEFINE DoneInv == SuccessMeansComplete /\ (status # "none" => pc = "done")
<1> SUFFICES ASSUME PanicsAlone, LimitsPositive PROVE Spec => []SuccessMeansComplete
  OBVIOUS
<1>1. Init => DoneInv
  BY DEF Init, SuccessMeansComplete
<1>2. EngineInv /\ PhaseInv /\ StopInv /\ SkipInv /\ DoneInv /\ [Next]_vars => DoneInv'
  <2> SUFFICES ASSUME EngineInv, PhaseInv, StopInv, SkipInv, DoneInv, [Next]_vars
               PROVE  DoneInv'
    OBVIOUS
  <2>1. CASE Finish
    BY <2>1, FinishComplete DEF Finish
  <2>2. CASE Cancel \/ UNCHANGED vars
    BY <2>2 DEF Cancel, vars, verdicts, SuccessMeansComplete
  <2>3. ASSUME pc # "done", status' = status PROVE DoneInv'
    BY <2>3 DEF SuccessMeansComplete
  <2>4. ASSUME NEW u \in Unit, JoinOutcome(u) \/ JoinPanicked(u) PROVE DoneInv'
    <3>1. pc # "done" /\ status' = status
      BY <2>4 DEF JoinOutcome, JoinPanicked, Joined
    <3> QED
      BY <2>3, <3>1
  <2>5. ASSUME NEW u \in Unit, Pop(u) \/ SettleLeftover(u) PROVE DoneInv'
    <3>1. pc # "done" /\ status' = status
      BY <2>5
      DEF Pop, PopStopped, PopNoSurvivor, PopRefused, PopSpawned, PopUnwinds, SettleLeftover,
          Preparing, Popping
    <3> QED
      BY <2>3, <3>1
  <2>6. CASE EndSchedule \/ EndRetry \/ EndLeftovers \/ SeeCancel
    <3>1. pc # "done" /\ status' = status
      BY <2>6 DEF EndSchedule, EndRetry, EndLeftovers, SeeCancel
    <3> QED
      BY <2>3, <3>1
  <2> QED
    BY <2>1, <2>2, <2>4, <2>5, <2>6 DEF Next, EngineStep, Stopped
<1>3. DoneInv => SuccessMeansComplete
  OBVIOUS
<1>4. Spec => []SkipInv
  BY SkipInvariant
<1> QED
  BY <1>1, <1>2, <1>3, <1>4, EngineInvariant, PhaseInvariant, StopInvariant, PTL DEF Spec

\* A node never has two verdicts (result.rs:15-17), for every plan, unless a
\* panic meets a batch group (scheduler.rs:121): a unit that is refused and
\* prepared again gives its nodes the verdicts it gave them before.
THEOREM OneVerdictTheorem == PanicsAlone /\ Spec => []OneVerdict
<1> SUFFICES ASSUME PanicsAlone PROVE Spec => []OneVerdict
  OBVIOUS
<1>1. Init => OneVerdict
  BY DEF Init, OneVerdict
<1>2. EngineInv /\ VerdictInv /\ VerdictInv' /\ OneVerdict /\ [Next]_vars => OneVerdict'
  <2> SUFFICES ASSUME EngineInv, VerdictInv, OneVerdict, [Next]_vars, pc' = "unwound"
               PROVE  OneVerdict'
    BY DEF VerdictInv
  <2>1. ASSUME NEW u \in Unit, PopUnwinds(u) PROVE OneVerdict'
    <3>1. ready[u] > 0 /\ Prepare(u) /\ pc # "unwound"
      BY <2>1 DEF PopUnwinds, Preparing, Popping, Top
    <3>2. Places(u) > 0 /\ UnitVerdicts(u)
      BY <3>1, PoppedUnit DEF Places, VerdictInv
    <3>3. VerdictsOf(u)
      BY <3>1, <3>2, PrepareVerdicts DEF EngineInv
    <3> QED
      BY <3>3, OneVerdictKept
  <2>2. CASE Cancel \/ UNCHANGED vars
    BY <2>2 DEF Cancel, vars, verdicts, OneVerdict
  <2>3. ASSUME NEW u \in Unit, Pop(u) PROVE PopUnwinds(u)
    BY <2>3
    DEF Pop, PopStopped, PopNoSurvivor, PopRefused, PopSpawned, Preparing, Popping
  <2> QED
    BY <2>1, <2>2, <2>3
    DEF Next, EngineStep, Stopped, SettleLeftover, JoinOutcome, JoinPanicked, Joined,
        EndSchedule, EndRetry, EndLeftovers, SeeCancel, Finish
<1>3. Spec => []VerdictInv
  BY VerdictInvariant
<1> QED
  BY <1>1, <1>2, <1>3, EngineInvariant, PTL DEF Spec

=============================================================================
