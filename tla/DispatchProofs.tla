--------------------------- MODULE DispatchProofs ---------------------------
(***************************************************************************)
(* Proofs about SingleFlight, for every set of callers and keys, and about *)
(* Dispatch, for every workload.                                           *)
(*                                                                         *)
(* That a key has one executing caller rests on two facts: a lock has one  *)
(* owner, and all callers of a key use the lock of one slot.  The second   *)
(* holds because the slot's count never falls short of its callers, so the *)
(* slot is not replaced while one of them is left.  The tasks of Dispatch  *)
(* take the steps of SingleFlight and inherit this.                        *)
(*                                                                         *)
(* An entry moves from the look-up over the list of misses into one call;  *)
(* it is never in two of them and never goes back.  CallOf says so, and    *)
(* bounds the effects of an entry by the attempts of the call it is in.    *)
(* AnswerInv follows the answers from the tools to cache and results, and  *)
(* ResultInv counts the nodes reported against those still under way.      *)
(***************************************************************************)
EXTENDS Dispatch, FiniteSetTheorems, SequenceTheorems, TLAPS

(* Single flight.                                                          *)

\* The mutex of a slot has one owner.
LockExclusive ==
  \A c, d \in Caller :
    /\ phase[c] \in {"executing", "dropping"}
    /\ phase[d] \in {"executing", "dropping"}
    /\ c # d
    => using[c].lock # using[d].lock

FlightInv == FlightTypeOK /\ SlotsMatchCallers /\ LockExclusive

\* The callers of a key are finitely many.
LEMMA RegisteredFinite ==
  \A k : IsFiniteSet(Registered(k)) /\ Cardinality(Registered(k)) \in Nat
<1> TAKE k
<1>1. Registered(k) \subseteq Caller
  BY DEF Registered
<1> QED
  BY <1>1, FlightAssumption, FS_Subset, FS_CardinalityType

\* A caller that is not idle has a key and a lock.
LEMMA UsingType ==
  ASSUME FlightTypeOK, NEW c \in Caller, phase[c] # "idle"
  PROVE  using[c] \in [key: Key, lock: Lock]
BY DEF FlightTypeOK

\* Nothing is registered at first.
LEMMA InitEstablishesFlightInv == Init => FlightInv
<1> SUFFICES ASSUME Init PROVE FlightInv
  OBVIOUS
<1>1. FlightTypeOK
  BY DEF Init, FlightTypeOK
<1>2. \A k \in Key : Registered(k) = {}
  BY DEF Init, Registered
<1>3. SlotsMatchCallers
  BY <1>2 DEF Init, SlotsMatchCallers
<1>4. LockExclusive
  BY DEF Init, LockExclusive
<1> QED
  BY <1>1, <1>3, <1>4 DEF FlightInv

\* Registering with a slot: the one of the key, or a new one.
LEMMA EnterPreservesFlightInv ==
  ASSUME FlightInv, NEW c \in Caller, NEW k \in Key, phase[c] = "idle",
         NEW slot \in [lock: Lock, guards: Nat],
         Enter(c, k, slot),
         \/ inflight[k] # NoSlot /\ slot = inflight[k]
         \/ inflight[k] = NoSlot /\ slot.guards = 0
  PROVE  FlightInv'
<1> USE DEF FlightInv
<1>1. /\ inflight' = [inflight EXCEPT ![k] = [slot EXCEPT !.guards = @ + 1]]
      /\ using' = [using EXCEPT ![c] = [key |-> k, lock |-> slot.lock]]
      /\ phase' = [phase EXCEPT ![c] = "waiting"]
      /\ lost' = lost
  BY DEF Enter
<1>2. [slot EXCEPT !.guards = @ + 1] \in [lock: Lock, guards: Nat]
  OBVIOUS
<1>3. FlightTypeOK'
  BY <1>1, <1>2, FlightAssumption DEF FlightTypeOK
<1>4. Registered(k)' = Registered(k) \cup {c} /\ c \notin Registered(k)
  BY <1>1 DEF Registered, FlightTypeOK
<1>5. \A j \in Key : j # k => Registered(j)' = Registered(j)
  BY <1>1 DEF Registered, FlightTypeOK
<1>6. inflight'[k] # NoSlot
  BY <1>1, <1>2, FlightAssumption DEF FlightTypeOK
<1>7. /\ inflight'[k].guards = slot.guards + 1
      /\ inflight'[k].lock = slot.lock
  BY <1>1 DEF FlightTypeOK
<1>8. slot.guards = Cardinality(Registered(k)) + lost[k]
  <2>1. CASE inflight[k] # NoSlot /\ slot = inflight[k]
    BY <2>1 DEF SlotsMatchCallers
  <2>2. CASE inflight[k] = NoSlot /\ slot.guards = 0
    BY <2>2, FS_EmptySet DEF SlotsMatchCallers
  <2> QED
    BY <2>1, <2>2
<1>9. Cardinality(Registered(k)') = Cardinality(Registered(k)) + 1
  BY <1>4, RegisteredFinite, FS_AddElement
<1>10. inflight'[k].guards = Cardinality(Registered(k)') + lost'[k] /\ inflight'[k].guards > 0
  BY <1>1, <1>7, <1>8, <1>9, RegisteredFinite DEF FlightTypeOK
<1>11. \A d \in Registered(k)' : using'[d].lock = inflight'[k].lock
  <2>1. \A d \in Registered(k) : using[d].lock = slot.lock
    BY DEF SlotsMatchCallers
  <2>2. \A d \in Registered(k) : using'[d] = using[d]
    BY <1>1, <1>4 DEF FlightTypeOK, Registered
  <2>3. using'[c].lock = slot.lock
    BY <1>1 DEF FlightTypeOK
  <2> QED
    BY <1>4, <1>7, <2>1, <2>2, <2>3
<1>12. ASSUME NEW j \in Key, j # k
       PROVE  IF inflight'[j] = NoSlot
              THEN Registered(j)' = {} /\ lost'[j] = 0
              ELSE /\ inflight'[j].guards = Cardinality(Registered(j)') + lost'[j]
                   /\ inflight'[j].guards > 0
                   /\ \A d \in Registered(j)' : using'[d].lock = inflight'[j].lock
  <2>1. inflight'[j] = inflight[j] /\ lost'[j] = lost[j] /\ Registered(j)' = Registered(j)
    BY <1>1, <1>5, <1>12 DEF FlightTypeOK
  <2>2. \A d \in Registered(j) : using'[d] = using[d]
    BY <1>1 DEF FlightTypeOK, Registered
  <2> QED
    BY <2>1, <2>2 DEF SlotsMatchCallers
<1>13. SlotsMatchCallers'
  BY <1>6, <1>10, <1>11, <1>12 DEF SlotsMatchCallers
<1>14. LockExclusive'
  BY <1>1 DEF LockExclusive, FlightTypeOK
<1> QED
  BY <1>3, <1>13, <1>14

\* A caller leaves: its slot loses a count, and goes with the last one.
LEMMA DropPreservesFlightInv ==
  ASSUME FlightInv, NEW c \in Caller, DropGuard(c)
  PROVE  FlightInv'
<1> USE DEF FlightInv
<1>0. PICK k \in Key : k = using[c].key
  BY UsingType DEF DropGuard
<1>1. /\ phase[c] = "executing" /\ k \in Key
      /\ using[c] \in [key: Key, lock: Lock] /\ using[c].key = k
  BY <1>0, UsingType DEF DropGuard
<1>2. c \in Registered(k)
  BY <1>1 DEF Registered
<1>3. inflight[k] # NoSlot /\ inflight[k] \in [lock: Lock, guards: Nat]
  BY <1>1, <1>2 DEF SlotsMatchCallers, FlightTypeOK
<1>4. /\ inflight' = [inflight EXCEPT ![k] = Left(inflight[k])]
      /\ phase' = [phase EXCEPT ![c] = "dropping"]
      /\ using' = using /\ lost' = lost
  BY <1>1, <1>3 DEF DropGuard, FlightTypeOK
<1>5. inflight[k].guards = Cardinality(Registered(k)) + lost[k] /\ inflight[k].guards > 0
  BY <1>1, <1>3 DEF SlotsMatchCallers
<1>6. Left(inflight[k]) \in [lock: Lock, guards: Nat] \cup {NoSlot}
  BY <1>3, <1>5 DEF Left
<1>7. FlightTypeOK'
  BY <1>1, <1>4, <1>6 DEF FlightTypeOK
<1>8. Registered(k)' = Registered(k) \ {c}
  BY <1>1, <1>4 DEF Registered, FlightTypeOK
<1>9. \A j \in Key : j # k => Registered(j)' = Registered(j)
  BY <1>1, <1>4 DEF Registered, FlightTypeOK
<1>10. Cardinality(Registered(k)') = Cardinality(Registered(k)) - 1
  BY <1>2, <1>8, RegisteredFinite, FS_RemoveElement
<1>11. lost[k] \in Nat
  BY <1>1 DEF FlightTypeOK
<1>12. inflight'[k] = Left(inflight[k])
  BY <1>1, <1>4 DEF FlightTypeOK
<1>13. ASSUME NEW j \in Key
       PROVE  IF inflight'[j] = NoSlot
              THEN Registered(j)' = {} /\ lost'[j] = 0
              ELSE /\ inflight'[j].guards = Cardinality(Registered(j)') + lost'[j]
                   /\ inflight'[j].guards > 0
                   /\ \A d \in Registered(j)' : using'[d].lock = inflight'[j].lock
  <2>1. CASE j # k
    <3>1. inflight'[j] = inflight[j] /\ lost'[j] = lost[j] /\ Registered(j)' = Registered(j)
      BY <1>1, <1>4, <1>9, <2>1 DEF FlightTypeOK
    <3> QED
      BY <1>4, <3>1 DEF SlotsMatchCallers
  <2>2. CASE j = k /\ inflight[k].guards = 1
    <3>1. inflight'[k] = NoSlot
      BY <1>12, <2>2 DEF Left
    <3>2. Cardinality(Registered(k)) = 1 /\ lost[k] = 0
      <4>1. Cardinality(Registered(k)) # 0
        BY <1>2, RegisteredFinite, FS_EmptySet
      <4> QED
        BY <1>5, <1>11, <2>2, <4>1, RegisteredFinite
    <3>3. Cardinality(Registered(k)') = 0 /\ IsFiniteSet(Registered(k)')
      BY <1>8, <1>10, <3>2, RegisteredFinite, FS_RemoveElement
    <3>4. Registered(k)' = {}
      BY <3>3, FS_EmptySet
    <3> QED
      BY <1>4, <2>2, <3>1, <3>2, <3>4
  <2>3. CASE j = k /\ inflight[k].guards # 1
    <3>1. inflight'[k] = [inflight[k] EXCEPT !.guards = @ - 1]
      BY <1>12, <2>3 DEF Left
    <3>2. inflight'[k].guards = inflight[k].guards - 1 /\ inflight'[k].lock = inflight[k].lock
      BY <1>3, <3>1
    <3>3. inflight'[k] # NoSlot
      BY <1>3, <1>5, <3>1, FlightAssumption
    <3>4. /\ inflight'[k].guards = Cardinality(Registered(k)') + lost'[k]
          /\ inflight'[k].guards > 0
      BY <1>3, <1>4, <1>5, <1>10, <1>11, <2>3, <3>2, RegisteredFinite
    <3>5. \A d \in Registered(k)' : using'[d].lock = inflight'[k].lock
      BY <1>1, <1>3, <1>4, <1>8, <3>2 DEF SlotsMatchCallers
    <3> QED
      BY <2>3, <3>3, <3>4, <3>5
  <2> QED
    BY <2>1, <2>2, <2>3
<1>14. SlotsMatchCallers'
  BY <1>13 DEF SlotsMatchCallers
<1>15. LockExclusive'
  BY <1>1, <1>4 DEF LockExclusive, FlightTypeOK
<1> QED
  BY <1>7, <1>14, <1>15

\* A dropped acquire stays counted.
LEMMA LostPreservesFlightInv ==
  ASSUME FlightInv, NEW c \in Caller, AcquireDropped(c)
  PROVE  FlightInv'
<1> USE DEF FlightInv
<1>0. PICK k \in Key : k = using[c].key
  BY UsingType DEF AcquireDropped
<1>1. /\ phase[c] = "waiting" /\ k \in Key
      /\ using[c] \in [key: Key, lock: Lock] /\ using[c].key = k
  BY <1>0, UsingType DEF AcquireDropped
<1>2. /\ lost' = [lost EXCEPT ![k] = @ + 1]
      /\ phase' = [phase EXCEPT ![c] = "idle"]
      /\ using' = [using EXCEPT ![c] = Nothing]
      /\ inflight' = inflight
  BY <1>1 DEF AcquireDropped
<1>3. FlightTypeOK'
  BY <1>1, <1>2 DEF FlightTypeOK
<1>4. c \in Registered(k)
  BY <1>1 DEF Registered
<1>5. Registered(k)' = Registered(k) \ {c}
  BY <1>1, <1>2 DEF Registered, FlightTypeOK
<1>6. \A j \in Key : j # k => Registered(j)' = Registered(j)
  BY <1>1, <1>2 DEF Registered, FlightTypeOK
<1>7. Cardinality(Registered(k)') = Cardinality(Registered(k)) - 1
  BY <1>4, <1>5, RegisteredFinite, FS_RemoveElement
<1>8. lost[k] \in Nat /\ lost'[k] = lost[k] + 1
  BY <1>1, <1>2 DEF FlightTypeOK
<1>9. \A j \in Key : \A d \in Registered(j)' : using'[d] = using[d] /\ d \in Registered(j)
  BY <1>1, <1>2 DEF Registered, FlightTypeOK
<1>10. ASSUME NEW j \in Key
       PROVE  IF inflight'[j] = NoSlot
              THEN Registered(j)' = {} /\ lost'[j] = 0
              ELSE /\ inflight'[j].guards = Cardinality(Registered(j)') + lost'[j]
                   /\ inflight'[j].guards > 0
                   /\ \A d \in Registered(j)' : using'[d].lock = inflight'[j].lock
  <2>1. CASE j # k
    <3>1. lost'[j] = lost[j]
      BY <1>1, <1>2, <2>1 DEF FlightTypeOK
    <3> QED
      BY <1>2, <1>6, <1>9, <2>1, <3>1 DEF SlotsMatchCallers
  <2>2. CASE j = k
    <3>1. inflight[k] # NoSlot
      BY <1>1, <1>4 DEF SlotsMatchCallers
    <3>2. /\ inflight[k].guards = Cardinality(Registered(k)) + lost[k]
          /\ inflight[k].guards > 0
          /\ \A d \in Registered(k) : using[d].lock = inflight[k].lock
      BY <1>1, <3>1 DEF SlotsMatchCallers
    <3>3. inflight'[k].guards = Cardinality(Registered(k)') + lost'[k]
      BY <1>2, <1>7, <1>8, <3>2, RegisteredFinite
    <3> QED
      BY <1>1, <1>2, <1>9, <2>2, <3>1, <3>2, <3>3
  <2> QED
    BY <2>1, <2>2
<1>11. SlotsMatchCallers'
  BY <1>10 DEF SlotsMatchCallers
<1>12. LockExclusive'
  BY <1>1, <1>2 DEF LockExclusive, FlightTypeOK
<1> QED
  BY <1>3, <1>11, <1>12

\* Every step preserves the invariant.
LEMMA NextPreservesFlightInv == FlightInv /\ [Next]_vars => FlightInv'
<1> SUFFICES ASSUME FlightInv, [Next]_vars PROVE FlightInv'
  OBVIOUS
<1>1. CASE UNCHANGED vars
  <2>1. \A k \in Key : Registered(k)' = Registered(k)
    BY <1>1 DEF vars, Registered
  <2> QED
    BY <1>1, <2>1 DEF vars, FlightInv, FlightTypeOK, SlotsMatchCallers, LockExclusive
<1>2. ASSUME NEW c \in Caller, NEW k \in Key, JoinSlot(c, k) PROVE FlightInv'
  <2>1. inflight[k] \in [lock: Lock, guards: Nat]
    BY <1>2 DEF JoinSlot, FlightInv, FlightTypeOK
  <2> QED
    BY <1>2, <2>1, EnterPreservesFlightInv DEF JoinSlot
<1>3. ASSUME NEW c \in Caller, NEW k \in Key, NewSlot(c, k) PROVE FlightInv'
  <2>1. PICK l \in Lock : Enter(c, k, [lock |-> l, guards |-> 0])
    BY <1>3 DEF NewSlot
  <2>2. /\ [lock |-> l, guards |-> 0] \in [lock: Lock, guards: Nat]
        /\ [lock |-> l, guards |-> 0].guards = 0
    OBVIOUS
  <2>3. phase[c] = "idle" /\ inflight[k] = NoSlot
    BY <1>3 DEF NewSlot
  <2> QED
    BY <2>1, <2>2, <2>3, EnterPreservesFlightInv
<1>4. ASSUME NEW c \in Caller, Locked(c) PROVE FlightInv'
  <2>1. /\ phase[c] = "waiting" /\ Owners(using[c].lock) = {}
        /\ phase' = [phase EXCEPT ![c] = "executing"]
        /\ UNCHANGED <<inflight, using, lost>>
    BY <1>4 DEF Locked
  <2>2. FlightTypeOK'
    BY <2>1 DEF FlightInv, FlightTypeOK
  <2>3. \A k \in Key : Registered(k)' = Registered(k)
    BY <2>1 DEF Registered, FlightInv, FlightTypeOK
  <2>4. SlotsMatchCallers'
    BY <2>1, <2>3 DEF FlightInv, SlotsMatchCallers
  <2>5. LockExclusive'
    <3>1. \A d \in Caller : phase[d] \in {"executing", "dropping"} =>
                              using[d].lock # using[c].lock
      BY <2>1 DEF Owners
    <3> QED
      BY <2>1, <3>1 DEF FlightInv, FlightTypeOK, LockExclusive
  <2> QED
    BY <2>2, <2>4, <2>5 DEF FlightInv
<1>5. ASSUME NEW c \in Caller, Unlock(c) PROVE FlightInv'
  <2>1. /\ phase[c] = "dropping"
        /\ phase' = [phase EXCEPT ![c] = "idle"]
        /\ using' = [using EXCEPT ![c] = Nothing]
        /\ UNCHANGED <<inflight, lost>>
    BY <1>5 DEF Unlock
  <2>2. FlightTypeOK'
    BY <2>1 DEF FlightInv, FlightTypeOK
  <2>3. \A k \in Key : Registered(k)' = Registered(k)
    BY <2>1 DEF Registered, FlightInv, FlightTypeOK
  <2>4. \A k \in Key : \A d \in Registered(k) : using'[d] = using[d]
    BY <2>1 DEF Registered, FlightInv, FlightTypeOK
  <2>5. SlotsMatchCallers'
    BY <2>1, <2>3, <2>4 DEF FlightInv, SlotsMatchCallers
  <2>6. LockExclusive'
    BY <2>1 DEF FlightInv, FlightTypeOK, LockExclusive
  <2> QED
    BY <2>2, <2>5, <2>6 DEF FlightInv
<1> QED
  BY <1>1, <1>2, <1>3, <1>4, <1>5, DropPreservesFlightInv, LostPreservesFlightInv
  DEF Next

\* The count of a slot is right through every order of callers coming, going
\* and being dropped (policy.rs:198-239).
THEOREM SlotTheorem == Spec => []SlotsMatchCallers
<1>1. FlightInv => SlotsMatchCallers
  BY DEF FlightInv
<1> QED
  BY <1>1, InitEstablishesFlightInv, NextPreservesFlightInv, PTL DEF Spec

\* The callers of a key share a lock, and a lock has one owner.
LEMMA InvGivesOneExecution == FlightInv => OneExecution
<1> SUFFICES ASSUME FlightInv, NEW c \in Caller, NEW d \in Caller, c # d,
                    phase[c] = "executing", phase[d] = "executing",
                    using[c].key = using[d].key
             PROVE  FALSE
  BY DEF OneExecution
<1> DEFINE k == using[c].key
<1>1. k \in Key
  BY UsingType DEF FlightInv
<1>2. c \in Registered(k) /\ d \in Registered(k)
  BY DEF Registered
<1>3. inflight[k] # NoSlot
  BY <1>1, <1>2 DEF FlightInv, SlotsMatchCallers
<1>4. using[c].lock = inflight[k].lock /\ using[d].lock = inflight[k].lock
  BY <1>1, <1>2, <1>3 DEF FlightInv, SlotsMatchCallers
<1> QED
  BY <1>4 DEF FlightInv, LockExclusive

\* A cache key is executed by one caller at a time (policy.rs:180-181), for
\* every number of callers and keys.
THEOREM SingleFlightTheorem == Spec => []OneExecution
BY InvGivesOneExecution, InitEstablishesFlightInv, NextPreservesFlightInv, PTL DEF Spec

----------------------------------------------------------------------------
(* The tasks.                                                              *)

Mine(c) == ToSet(work[c].entries)
Distinct(s) == \A i, j \in DOMAIN s : s[i] = s[j] => i = j

Label == {"start", "acquire", "lookup", "call", "sleep", "store", "leave", "done", "aborted"}

TaskType ==
  /\ work \in Workloads
  /\ pc \in [Caller -> Label]
  /\ todo \in [Caller -> Seq(Entry)] /\ pending \in [Caller -> Seq(Entry)]
  /\ chunk \in [Caller -> Seq(Entry)]
  /\ acted \in [Caller -> SUBSET Entry]
  /\ attempt \in [Caller -> Nat] /\ width \in [Caller -> Nat]
  /\ performed \in [Entry -> Nat]

\* A task waits for its turn only with a key.
TurnOf(c) ==
  pc[c] = "acquire" => work[c].kind = "single" /\ EntryKey(c, TheEntry(c)) # NoKey

\* Where the entries of a task are, and what has been done for them.
CallOf(c) ==
  /\ ToSet(todo[c]) \cup ToSet(pending[c]) \cup ToSet(chunk[c]) \subseteq Mine(c)
  /\ Distinct(todo[c]) /\ Distinct(pending[c])
  /\ \A e \in ToSet(pending[c]) : e \notin ToSet(todo[c]) /\ e \notin ToSet(chunk[c])
  /\ \A e \in ToSet(todo[c]) : e \notin ToSet(chunk[c])
  /\ pc[c] = "start" =>
       /\ todo[c] = <<>> /\ pending[c] = <<>> /\ chunk[c] = <<>>
       /\ \A e \in Mine(c) : performed[e] = 0
  /\ \A e \in ToSet(todo[c]) \cup ToSet(pending[c]) : performed[e] = 0
  /\ pc[c] \in {"call", "sleep"} =>
       /\ attempt[c] \in 1..MaxAttempts(work[c].effects)
       /\ \A e \in ToSet(chunk[c]) :
            performed[e] <= IF pc[c] = "sleep" \/ e \in acted[c] THEN attempt[c]
                                                                 ELSE attempt[c] - 1
  /\ pc[c] = "sleep" => attempt[c] < MaxAttempts(work[c].effects)
  /\ \A e \in Mine(c) : performed[e] <= MaxAttempts(work[c].effects)

DispatchInv == TaskType /\ \A c \in Caller : TurnOf(c) /\ CallOf(c)

----------------------------------------------------------------------------
(* Entries and their sequences.                                            *)

LEMMA WorkType ==
  ASSUME work \in Workloads, NEW c \in Caller
  PROVE  /\ work[c].entries \in Seq(Entry) /\ work[c].batch_size \in Nat
         /\ (work[c].kind = "single" => TheEntry(c) \in Entry)
         /\ MaxAttempts(work[c].effects) \in Nat \ {0}
         /\ Mine(c) \subseteq Entry
         /\ Distinct(work[c].entries)
         /\ \A d \in Caller : d # c => \A e \in Mine(c) : e \notin Mine(d)
<1>1. work[c] \in Task
  BY TaskAssumption
<1>2. work[c].entries \in Seq(Entry) /\ work[c].batch_size \in Nat
  BY <1>1 DEF Task
<1>3. MaxAttempts(work[c].effects) \in Nat \ {0}
  <2>1. work[c].effects.retry \in Retry \cup {None}
    BY <1>1 DEF Task
  <2>2. work[c].effects.retry # None => work[c].effects.retry.max_attempts \in Nat
    BY <2>1 DEF Retry
  <2> QED
    BY <2>2 DEF MaxAttempts, Larger
<1>4. Mine(c) \subseteq Entry
  BY <1>2 DEF Mine, ToSet
<1>5. Distinct(work[c].entries)
  BY TaskAssumption DEF Distinct
<1>6. \A d \in Caller : d # c => \A e \in Mine(c) : e \notin Mine(d)
  BY TaskAssumption DEF Mine, ToSet
<1>7. work[c].kind = "single" => TheEntry(c) \in Entry
  BY <1>2, TaskAssumption DEF TheEntry
<1> QED
  BY <1>2, <1>3, <1>4, <1>5, <1>6, <1>7

LEMMA TailOf ==
  ASSUME NEW s \in Seq(Entry), s # <<>>
  PROVE  /\ Head(s) \in Entry /\ Head(s) \in ToSet(s)
         /\ Tail(s) \in Seq(Entry) /\ ToSet(Tail(s)) \subseteq ToSet(s)
         /\ Distinct(s) => Distinct(Tail(s)) /\ Head(s) \notin ToSet(Tail(s))
<1>1. Len(s) \in Nat /\ Len(s) > 0 /\ DOMAIN s = 1..Len(s) /\ \A i \in 1..Len(s) : s[i] \in Entry
  BY EmptySeq
<1>2. /\ Head(s) = s[1] /\ Tail(s) \in Seq(Entry) /\ DOMAIN Tail(s) = 1..(Len(s) - 1)
      /\ \A i \in 1..(Len(s) - 1) : Tail(s)[i] = s[i + 1]
  BY <1>1
<1> QED
  BY <1>1, <1>2 DEF ToSet, Distinct

LEMMA AppendOf ==
  ASSUME NEW s \in Seq(Entry), NEW e \in Entry
  PROVE  /\ Append(s, e) \in Seq(Entry) /\ ToSet(Append(s, e)) = ToSet(s) \cup {e}
         /\ Distinct(s) /\ e \notin ToSet(s) => Distinct(Append(s, e))
<1>1. Len(s) \in Nat /\ DOMAIN s = 1..Len(s)
  OBVIOUS
<1>2. /\ Append(s, e) \in Seq(Entry) /\ DOMAIN Append(s, e) = 1..(Len(s) + 1)
      /\ Append(s, e)[Len(s) + 1] = e
      /\ \A i \in 1..Len(s) : Append(s, e)[i] = s[i]
  OBVIOUS
<1> QED
  BY <1>1, <1>2 DEF ToSet, Distinct

LEMMA SplitOf ==
  ASSUME NEW s \in Seq(Entry), NEW n \in 0..Len(s)
  PROVE  /\ SubSeq(s, 1, n) \in Seq(Entry) /\ SubSeq(s, n + 1, Len(s)) \in Seq(Entry)
         /\ ToSet(SubSeq(s, 1, n)) \subseteq ToSet(s)
         /\ ToSet(SubSeq(s, n + 1, Len(s))) \subseteq ToSet(s)
         /\ Distinct(s) =>
              /\ Distinct(SubSeq(s, n + 1, Len(s)))
              /\ \A e \in ToSet(SubSeq(s, n + 1, Len(s))) : e \notin ToSet(SubSeq(s, 1, n))
<1>1. Len(s) \in Nat /\ DOMAIN s = 1..Len(s) /\ \A i \in 1..Len(s) : s[i] \in Entry
  OBVIOUS
<1>2. /\ SubSeq(s, 1, n) \in Seq(Entry) /\ DOMAIN SubSeq(s, 1, n) = 1..n
      /\ \A i \in 1..n : SubSeq(s, 1, n)[i] = s[i]
  BY <1>1
<1>3. /\ SubSeq(s, n + 1, Len(s)) \in Seq(Entry)
      /\ DOMAIN SubSeq(s, n + 1, Len(s)) = 1..(Len(s) - n)
      /\ \A i \in 1..(Len(s) - n) : SubSeq(s, n + 1, Len(s))[i] = s[n + i]
  BY <1>1
<1>4. /\ \A i \in 1..n : i \in DOMAIN s
      /\ \A i \in 1..(Len(s) - n) : n + i \in DOMAIN s
      /\ \A i, j \in 1..(Len(s) - n) : n + i = n + j => i = j
      /\ \A i \in 1..n : \A j \in 1..(Len(s) - n) : i # n + j
  BY <1>1
<1> DEFINE a == SubSeq(s, 1, n)
           b == SubSeq(s, n + 1, Len(s))
<1> HIDE DEF a, b
<1>5. /\ a \in Seq(Entry) /\ DOMAIN a = 1..n /\ \A i \in 1..n : a[i] = s[i]
      /\ b \in Seq(Entry) /\ DOMAIN b = 1..(Len(s) - n) /\ \A i \in 1..(Len(s) - n) : b[i] = s[n + i]
  BY <1>2, <1>3 DEF a, b
<1>6. /\ \A x \in ToSet(a) : \E i \in 1..n : x = s[i]
      /\ \A x \in ToSet(b) : \E i \in 1..(Len(s) - n) : x = s[n + i]
      /\ \A i \in DOMAIN s : s[i] \in ToSet(s)
  BY <1>5 DEF ToSet
<1>7. ToSet(a) \subseteq ToSet(s) /\ ToSet(b) \subseteq ToSet(s)
  BY <1>4, <1>6
<1>8. ASSUME Distinct(s) PROVE \A i, j \in DOMAIN b : b[i] = b[j] => i = j
  <2>1. \A i, j \in 1..(Len(s) - n) : s[n + i] = s[n + j] => i = j
    BY <1>4, <1>8 DEF Distinct
  <2>2. \A i \in DOMAIN b : i \in 1..(Len(s) - n) /\ b[i] = s[n + i]
    BY <1>5
  <2> QED
    BY <2>1, <2>2
<1>9. ASSUME Distinct(s) PROVE \A e \in ToSet(b) : e \notin ToSet(a)
  <2>1. \A i \in 1..n : \A j \in 1..(Len(s) - n) : s[i] # s[n + j]
    BY <1>4, <1>9 DEF Distinct
  <2> QED
    BY <1>6, <2>1
<1> QED
  BY <1>5, <1>7, <1>8, <1>9 DEF a, b, Distinct

----------------------------------------------------------------------------
(* The steps of a task.                                                    *)

LEMMA InitEstablishesDispatch == TaskInit => DispatchInv
<1> SUFFICES ASSUME TaskInit PROVE DispatchInv
  OBVIOUS
<1>1. <<>> \in Seq(Entry) /\ ToSet(<<>>) = {} /\ Distinct(<<>>)
  BY EmptySeq DEF ToSet, Distinct
<1>2. TaskType
  BY <1>1 DEF TaskInit, TaskType, Label
<1>3. ASSUME NEW c \in Caller PROVE TurnOf(c) /\ CallOf(c)
  <2>1. work \in Workloads /\ pc[c] \in {"start", "done"}
    BY DEF TaskInit
  <2>2. todo[c] = <<>> /\ pending[c] = <<>> /\ chunk[c] = <<>>
    BY DEF TaskInit
  <2>3. \A e \in Mine(c) : performed[e] = 0
    BY <2>1, WorkType DEF TaskInit
  <2>4. MaxAttempts(work[c].effects) \in Nat
    BY <2>1, WorkType
  <2> QED
    BY <1>1, <2>1, <2>2, <2>3, <2>4 DEF TurnOf, CallOf
<1> QED
  BY <1>2, <1>3 DEF DispatchInv

\* A step of one task leaves the others as they are.
LEMMA OtherTask ==
  ASSUME DispatchInv, NEW c \in Caller, NEW d \in Caller, d # c, work' = work,
         \A e \in Entry : e \notin Mine(c) => performed'[e] = performed[e],
         pc'[d] = pc[d], todo'[d] = todo[d], pending'[d] = pending[d], chunk'[d] = chunk[d],
         acted'[d] = acted[d], attempt'[d] = attempt[d]
  PROVE  TurnOf(d)' /\ CallOf(d)'
<1>1. TurnOf(d) /\ CallOf(d) /\ work \in Workloads
  BY DEF DispatchInv, TaskType
<1>2. Mine(d)' = Mine(d) /\ \A e \in Mine(d) : performed'[e] = performed[e]
  BY <1>1, WorkType DEF Mine
<1>3. TurnOf(d)'
  BY <1>1 DEF TurnOf, EntryKey, TheEntry
<1>4. CallOf(d)'
  BY <1>1, <1>2 DEF CallOf
<1> QED
  BY <1>3, <1>4

\* The task goes somewhere else with its entries as they are.
LEMMA QuietTask ==
  ASSUME DispatchInv, NEW c \in Caller, NEW l \in Label, pc' = [pc EXCEPT ![c] = l],
         l \notin {"start", "acquire", "call"},
         l = "sleep" => pc[c] = "call" /\ attempt[c] < MaxAttempts(work[c].effects),
         UNCHANGED <<work, todo, pending, width, chunk, acted, attempt, performed>>
  PROVE  DispatchInv'
<1>1. TaskType'
  BY DEF DispatchInv, TaskType
<1>2. \A d \in Caller : pc'[d] = IF d = c THEN l ELSE pc[d]
  BY DEF DispatchInv, TaskType
<1>3. TurnOf(c)'
  BY <1>2 DEF TurnOf
<1>4. CallOf(c)'
  <2>1. CallOf(c) /\ Mine(c)' = Mine(c)
    BY DEF DispatchInv, Mine
  <2>2. ASSUME l = "sleep", NEW e \in ToSet(chunk[c])
        PROVE  performed[e] <= attempt[c] /\ attempt[c] \in 1..MaxAttempts(work[c].effects)
    <3>1. e \in Entry /\ performed[e] \in Nat /\ attempt[c] \in Nat
      BY <2>1, <2>2, WorkType DEF DispatchInv, TaskType, CallOf
    <3> QED
      BY <2>1, <2>2, <3>1 DEF CallOf
  <2>3. l = "sleep" => attempt[c] \in 1..MaxAttempts(work[c].effects)
    BY <2>1 DEF CallOf
  <2> QED
    BY <1>2, <2>1, <2>2, <2>3 DEF CallOf
<1>5. \A d \in Caller : d # c => TurnOf(d)' /\ CallOf(d)'
  BY <1>2, OtherTask
<1> QED
  BY <1>1, <1>3, <1>4, <1>5 DEF DispatchInv

LEMMA BeginPreserves ==
  ASSUME DispatchInv, NEW c \in Caller, Begin(c)
  PROVE  DispatchInv'
<1>1. PICK l \in {"done", "acquire", "lookup"} :
        /\ pc' = [pc EXCEPT ![c] = l]
        /\ l = "acquire" => work[c].kind = "single" /\ EntryKey(c, TheEntry(c)) # NoKey
  BY DEF Begin, Goto, FirstLabel
<1>2. /\ pc[c] = "start" /\ todo' = [todo EXCEPT ![c] = work[c].entries]
      /\ UNCHANGED <<work, pending, width, chunk, acted, attempt, performed>>
  BY DEF Begin, At
<1>3. /\ work[c].entries \in Seq(Entry) /\ Distinct(work[c].entries)
      /\ MaxAttempts(work[c].effects) \in Nat /\ TaskType /\ CallOf(c)
  BY WorkType DEF DispatchInv, TaskType
<1>4. TaskType'
  BY <1>1, <1>2, <1>3 DEF TaskType, Label
<1>5. \A d \in Caller : /\ pc'[d] = IF d = c THEN l ELSE pc[d]
                        /\ todo'[d] = IF d = c THEN work[c].entries ELSE todo[d]
  BY <1>1, <1>2, <1>3 DEF TaskType
<1>6. TurnOf(c)'
  BY <1>1, <1>2, <1>5 DEF TurnOf, EntryKey, TheEntry
<1>7. CallOf(c)'
  <2>1. ToSet(<<>>) = {} /\ Distinct(<<>>)
    BY DEF ToSet, Distinct
  <2>2. pending[c] = <<>> /\ chunk[c] = <<>> /\ \A e \in Mine(c) : performed[e] = 0
    BY <1>2, <1>3 DEF CallOf
  <2> QED
    BY <1>2, <1>3, <1>5, <2>1, <2>2 DEF CallOf, Mine
<1>8. \A d \in Caller : d # c => TurnOf(d)' /\ CallOf(d)'
  BY <1>2, <1>5, OtherTask
<1> QED
  BY <1>4, <1>6, <1>7, <1>8 DEF DispatchInv

\* An entry goes from the look-up to the misses, or has been answered.
LEMMA LookUpPreserves ==
  ASSUME DispatchInv, NEW c \in Caller, LookUp(c)
  PROVE  DispatchInv'
<1> DEFINE e == Head(todo[c])
<1>1. /\ pc[c] = "lookup" /\ todo[c] # <<>>
      /\ pending' = pending \/ pending' = [pending EXCEPT ![c] = Append(@, e)]
      /\ todo' = [todo EXCEPT ![c] = Tail(@)]
      /\ UNCHANGED <<work, pc, width, chunk, acted, attempt, performed>>
  BY DEF LookUp, At
<1>2. TaskType /\ CallOf(c)
  BY DEF DispatchInv
<1>3. /\ e \in Entry /\ e \in ToSet(todo[c])
      /\ Tail(todo[c]) \in Seq(Entry) /\ ToSet(Tail(todo[c])) \subseteq ToSet(todo[c])
      /\ Distinct(Tail(todo[c])) /\ e \notin ToSet(Tail(todo[c]))
  BY <1>1, <1>2, TailOf DEF TaskType, CallOf
<1>4. /\ Append(pending[c], e) \in Seq(Entry)
      /\ ToSet(Append(pending[c], e)) = ToSet(pending[c]) \cup {e}
      /\ Distinct(Append(pending[c], e))
  BY <1>2, <1>3, AppendOf DEF TaskType, CallOf
<1> HIDE DEF e
<1>5. TaskType'
  BY <1>1, <1>2, <1>3, <1>4 DEF TaskType
<1>6. /\ todo'[c] = Tail(todo[c]) /\ pending'[c] \in {pending[c], Append(pending[c], e)}
      /\ \A d \in Caller : d # c => todo'[d] = todo[d] /\ pending'[d] = pending[d]
  BY <1>1, <1>2 DEF TaskType
<1>7. TurnOf(c)'
  BY <1>1 DEF TurnOf
<1>8. CallOf(c)'
  <2>1. Mine(c)' = Mine(c)
    BY <1>1 DEF Mine
  <2>2. CASE pending'[c] = pending[c]
    BY <1>1, <1>2, <1>3, <1>6, <2>1, <2>2 DEF CallOf
  <2>3. CASE pending'[c] = Append(pending[c], e)
    <3>1. e \in Mine(c) /\ e \notin ToSet(chunk[c]) /\ performed[e] = 0
      BY <1>2, <1>3 DEF CallOf
    <3> QED
      BY <1>1, <1>2, <1>3, <1>4, <1>6, <2>1, <2>3, <3>1 DEF CallOf
  <2> QED
    BY <1>6, <2>2, <2>3
<1>9. \A d \in Caller : d # c => TurnOf(d)' /\ CallOf(d)'
  BY <1>1, <1>6, OtherTask
<1> QED
  BY <1>5, <1>7, <1>8, <1>9 DEF DispatchInv

\* The first misses become a call; with none left the task ends.
LEMMA NextCallPreserves ==
  ASSUME DispatchInv, NEW c \in Caller, NextCall(c)
  PROVE  DispatchInv'
<1>1. TaskType /\ CallOf(c)
  BY DEF DispatchInv
<1>2. PICK n : /\ n = Smaller(Larger(1, width'[c]), Len(pending[c]))
               /\ chunk' = [chunk EXCEPT ![c] = SubSeq(pending[c], 1, n)]
               /\ pending' = [pending EXCEPT ![c] = SubSeq(@, n + 1, Len(@))]
               /\ Goto(c, IF n = 0 THEN EndLabel(c) ELSE "call")
  BY DEF NextCall
<1>3. /\ acted' = [acted EXCEPT ![c] = {}] /\ attempt' = [attempt EXCEPT ![c] = 1]
      /\ UNCHANGED <<work, todo, performed>> /\ pc[c] \in {"lookup", "store"}
  BY DEF NextCall, At
<1>4. n \in 0..Len(pending[c]) /\ width' \in [Caller -> Nat]
  <2>1. pending[c] \in Seq(Entry) /\ Len(pending[c]) \in Nat /\ width \in [Caller -> Nat]
    BY <1>1 DEF TaskType
  <2>2. Width(c) \in Nat
    <3>1. work[c].batch_size \in Nat
      BY <1>1, WorkType DEF TaskType
    <3> QED
      BY <2>1, <3>1 DEF Width, Larger
  <2>3. width' = width \/ width' = [width EXCEPT ![c] = Width(c)]
    BY DEF NextCall
  <2>4. width' \in [Caller -> Nat] /\ width'[c] \in Nat
    BY <2>1, <2>2, <2>3
  <2> QED
    BY <1>2, <2>1, <2>4 DEF Smaller, Larger
<1>5. PICK l \in {"leave", "done", "call"} : pc' = [pc EXCEPT ![c] = l]
  BY <1>2 DEF Goto, EndLabel
<1> DEFINE first == SubSeq(pending[c], 1, n)
           rest == SubSeq(pending[c], n + 1, Len(pending[c]))
<1>6. /\ first \in Seq(Entry) /\ rest \in Seq(Entry)
      /\ ToSet(first) \subseteq ToSet(pending[c]) /\ ToSet(rest) \subseteq ToSet(pending[c])
      /\ Distinct(rest) /\ \A e \in ToSet(rest) : e \notin ToSet(first)
  BY <1>1, <1>4, SplitOf DEF TaskType, CallOf
<1>7. /\ chunk' = [chunk EXCEPT ![c] = first] /\ pending' = [pending EXCEPT ![c] = rest]
  BY <1>2
<1> HIDE DEF first, rest
<1>8. TaskType'
  BY <1>1, <1>3, <1>4, <1>5, <1>6, <1>7 DEF TaskType, Label
<1>9. /\ pc'[c] = l /\ chunk'[c] = first /\ pending'[c] = rest /\ acted'[c] = {} /\ attempt'[c] = 1
      /\ \A d \in Caller : d # c =>
           /\ pc'[d] = pc[d] /\ chunk'[d] = chunk[d] /\ pending'[d] = pending[d]
           /\ acted'[d] = acted[d] /\ attempt'[d] = attempt[d]
  BY <1>1, <1>3, <1>5, <1>7 DEF TaskType
<1>10. TurnOf(c)'
  BY <1>9 DEF TurnOf
<1>11. CallOf(c)'
  <2>1. Mine(c)' = Mine(c) /\ MaxAttempts(work[c].effects) \in Nat \ {0}
    BY <1>1, <1>3, WorkType DEF Mine, TaskType
  <2>2. \A e \in ToSet(first) : performed[e] = 0 /\ e \in Mine(c) /\ e \notin ToSet(todo[c])
    BY <1>1, <1>6 DEF CallOf
  <2> QED
    BY <1>1, <1>3, <1>6, <1>9, <2>1, <2>2 DEF CallOf
<1>12. \A d \in Caller : d # c => TurnOf(d)' /\ CallOf(d)'
  BY <1>3, <1>9, OtherTask
<1> QED
  BY <1>8, <1>10, <1>11, <1>12 DEF DispatchInv

\* The effect of an entry happens, once for each attempt of its call.
LEMMA ActPreserves ==
  ASSUME DispatchInv, NEW c \in Caller, NEW e \in Entry, Act(c, e)
  PROVE  DispatchInv'
<1>1. /\ pc[c] = "call" /\ e \in ToSet(chunk[c]) /\ e \notin acted[c]
      /\ acted' = [acted EXCEPT ![c] = @ \cup {e}]
      /\ performed' = [performed EXCEPT ![e] = @ + 1]
      /\ UNCHANGED <<work, pc, todo, pending, width, chunk, attempt>>
  BY DEF Act, At
<1>2. TaskType /\ CallOf(c)
  BY DEF DispatchInv
<1>3. TaskType'
  BY <1>1, <1>2 DEF TaskType
<1>4. /\ acted'[c] = acted[c] \cup {e} /\ \A d \in Caller : d # c => acted'[d] = acted[d]
      /\ \A f \in Entry : /\ performed[f] \in Nat
                          /\ performed'[f] = IF f = e THEN performed[f] + 1 ELSE performed[f]
  BY <1>1, <1>2 DEF TaskType
<1>5. TurnOf(c)'
  BY <1>1 DEF TurnOf
<1>6. /\ e \in Mine(c) /\ e \notin ToSet(todo[c]) /\ e \notin ToSet(pending[c])
      /\ attempt[c] \in 1..MaxAttempts(work[c].effects) /\ performed[e] <= attempt[c] - 1
  BY <1>1, <1>2 DEF CallOf
<1>7. performed'[e] <= attempt[c] /\ performed'[e] <= MaxAttempts(work[c].effects)
  <2>1. MaxAttempts(work[c].effects) \in Nat
    BY <1>2, WorkType DEF TaskType
  <2> QED
    BY <1>4, <1>6, <2>1
<1>8. CallOf(c)'
  <2>1. Mine(c)' = Mine(c) /\ Mine(c) \subseteq Entry
    BY <1>1, <1>2, WorkType DEF Mine, TaskType
  <2>2. \A f \in Mine(c) : f # e => performed'[f] = performed[f]
    BY <1>4, <2>1
  <2>3. \A f \in ToSet(chunk[c]) :
          performed'[f] <= IF f \in acted'[c] THEN attempt[c] ELSE attempt[c] - 1
    BY <1>1, <1>2, <1>4, <1>7, <2>2 DEF CallOf
  <2>4. \A f \in Mine(c) : performed'[f] <= MaxAttempts(work[c].effects)
    BY <1>2, <1>7, <2>2 DEF CallOf
  <2> QED
    BY <1>1, <1>2, <1>6, <2>1, <2>2, <2>3, <2>4 DEF CallOf
<1>9. \A d \in Caller : d # c => TurnOf(d)' /\ CallOf(d)'
  BY <1>1, <1>4, <1>6, OtherTask
<1> QED
  BY <1>3, <1>5, <1>8, <1>9 DEF DispatchInv

LEMMA TryAgainPreserves ==
  ASSUME DispatchInv, NEW c \in Caller, TryAgain(c)
  PROVE  DispatchInv'
<1>1. /\ pc[c] = "sleep" /\ pc' = [pc EXCEPT ![c] = "call"]
      /\ attempt' = [attempt EXCEPT ![c] = @ + 1] /\ acted' = [acted EXCEPT ![c] = {}]
      /\ UNCHANGED <<work, todo, pending, width, chunk, performed>>
  BY DEF TryAgain, At, Goto
<1>2. TaskType /\ CallOf(c)
  BY DEF DispatchInv
<1>3. TaskType'
  BY <1>1, <1>2 DEF TaskType, Label
<1>4. /\ pc'[c] = "call" /\ attempt'[c] = attempt[c] + 1 /\ acted'[c] = {} /\ attempt[c] \in Nat
      /\ \A d \in Caller : d # c =>
           pc'[d] = pc[d] /\ attempt'[d] = attempt[d] /\ acted'[d] = acted[d]
  BY <1>1, <1>2 DEF TaskType
<1>5. TurnOf(c)'
  BY <1>4 DEF TurnOf
<1>6. CallOf(c)'
  <2>1. Mine(c)' = Mine(c) /\ MaxAttempts(work[c].effects) \in Nat
    BY <1>1, <1>2, WorkType DEF Mine, TaskType
  <2>2. attempt'[c] \in 1..MaxAttempts(work[c].effects)
    BY <1>1, <1>2, <1>4, <2>1 DEF CallOf
  <2>3. \A e \in ToSet(chunk[c]) : performed[e] <= attempt'[c] - 1
    BY <1>1, <1>2, <1>4 DEF CallOf
  <2> QED
    BY <1>1, <1>2, <1>4, <2>1, <2>2, <2>3 DEF CallOf
<1>7. \A d \in Caller : d # c => TurnOf(d)' /\ CallOf(d)'
  BY <1>1, <1>4, OtherTask
<1> QED
  BY <1>3, <1>5, <1>6, <1>7 DEF DispatchInv

LEMMA StorePreserves ==
  ASSUME DispatchInv, NEW c \in Caller, Store(c)
  PROVE  DispatchInv'
<1>1. PICK l \in {"done", "store"} : pc' = [pc EXCEPT ![c] = l]
  BY DEF Store, Goto
<1>2. /\ chunk[c] # <<>> /\ chunk' = [chunk EXCEPT ![c] = Tail(@)]
      /\ UNCHANGED <<work, todo, pending, width, acted, attempt, performed>>
  BY DEF Store
<1>3. TaskType /\ CallOf(c)
  BY DEF DispatchInv
<1>4. Tail(chunk[c]) \in Seq(Entry) /\ ToSet(Tail(chunk[c])) \subseteq ToSet(chunk[c])
  BY <1>2, <1>3, TailOf DEF TaskType
<1>5. TaskType'
  BY <1>1, <1>2, <1>3, <1>4 DEF TaskType, Label
<1>6. /\ pc'[c] = l /\ chunk'[c] = Tail(chunk[c])
      /\ \A d \in Caller : d # c => pc'[d] = pc[d] /\ chunk'[d] = chunk[d]
  BY <1>1, <1>2, <1>3 DEF TaskType
<1>7. TurnOf(c)'
  BY <1>6 DEF TurnOf
<1>8. CallOf(c)'
  <2>1. Mine(c)' = Mine(c)
    BY <1>2 DEF Mine
  <2> QED
    BY <1>2, <1>3, <1>4, <1>6, <2>1 DEF CallOf
<1>9. \A d \in Caller : d # c => TurnOf(d)' /\ CallOf(d)'
  BY <1>2, <1>6, OtherTask
<1> QED
  BY <1>5, <1>7, <1>8, <1>9 DEF DispatchInv

LEMMA NextPreservesDispatch ==
  ASSUME DispatchInv, TaskNext
  PROVE  DispatchInv'
<1>1. CASE \/ AllEnded
           \/ \E c \in Caller : Acquire(c) \/ Leave(c)
  <2>1. UNCHANGED <<work, taskVars>>
    BY <1>1 DEF AllEnded, Acquire, Leave, allVars
  <2> QED
    BY <2>1 DEF taskVars, DispatchInv, TaskType, TurnOf, CallOf, Mine, EntryKey, TheEntry
<1>2. ASSUME NEW c \in Caller, Locks(c) \/ Answer(c) \/ Panic(c) \/ Release(c) \/ Abort(c)
      PROVE  DispatchInv'
  <2>1. PICK l \in {"lookup", "store", "leave", "done", "aborted"} : pc' = [pc EXCEPT ![c] = l]
    BY <1>2 DEF Locks, Answer, Panic, Release, Abort, Goto, EndLabel
  <2>2. UNCHANGED <<work, todo, pending, width, chunk, acted, attempt, performed>>
    BY <1>2 DEF Locks, Answer, Panic, Release, Abort
  <2> QED
    BY <2>1, <2>2, QuietTask DEF Label
<1>3. ASSUME NEW c \in Caller, Fail(c)
      PROVE  DispatchInv'
  <2>1. PICK l \in {"leave", "done", "sleep"} :
          /\ pc' = [pc EXCEPT ![c] = l]
          /\ l = "sleep" => ~(attempt[c] >= MaxAttempts(work[c].effects))
    BY <1>3 DEF Fail, Goto, EndLabel
  <2>2. UNCHANGED <<work, todo, pending, width, chunk, acted, attempt, performed>> /\ pc[c] = "call"
    BY <1>3 DEF Fail, At
  <2>3. attempt[c] \in Nat /\ MaxAttempts(work[c].effects) \in Nat
    BY WorkType DEF DispatchInv, TaskType
  <2>4. l = "sleep" => attempt[c] < MaxAttempts(work[c].effects)
    BY <2>1, <2>3
  <2>5. l \in Label /\ l \notin {"start", "acquire", "call"}
    BY <2>1 DEF Label
  <2> QED
    BY <2>1, <2>2, <2>4, <2>5, QuietTask
<1> QED
  BY <1>1, <1>2, <1>3, BeginPreserves, LookUpPreserves, NextCallPreserves, ActPreserves,
     TryAgainPreserves, StorePreserves DEF TaskNext, TaskStep

----------------------------------------------------------------------------
(* Answers.                                                                *)

\* What has been received, stored and reported is somebody's answer.
AnswerInv ==
  /\ DOMAIN received = Caller /\ DOMAIN values = Caller /\ DOMAIN cache = Key
  /\ \A c \in Caller : \A e \in acted[c] : e \in Mine(c) /\ performed[e] > 0
  /\ \A c \in Caller : \A e \in DOMAIN received[c] :
       received[c][e] = e /\ e \in Mine(c) /\ performed[e] > 0
  /\ AnswersMatch

LEMMA InitEstablishesAnswers == TaskInit => AnswerInv
  BY DEF TaskInit, AnswerInv, AnswersMatch

\* A step that receives, stores and reports nothing, and acts on nothing new.
LEMMA QuietAnswers ==
  ASSUME DispatchInv, AnswerInv, work' = work, cache' = cache, received' = received, values' = values,
         \A c \in Caller : acted'[c] \subseteq acted[c],
         \A e \in Entry : performed'[e] = performed[e]
  PROVE  AnswerInv'
<1>1. \A c \in Caller : Mine(c)' = Mine(c) /\ Mine(c) \subseteq Entry
  BY WorkType DEF DispatchInv, TaskType, Mine
<1>2. \A c \in Caller : \A e : EntryKey(c, e)' = EntryKey(c, e)
  BY DEF EntryKey
<1>3. \A k \in Key : cache[k] # NoEntry => cache[k] \in Entry
  BY <1>1 DEF AnswerInv, AnswersMatch, Mine
<1>4. AnswersMatch'
  BY <1>2, <1>3 DEF AnswerInv, AnswersMatch
<1> QED
  BY <1>1, <1>4 DEF AnswerInv

LEMMA LookUpAnswers ==
  ASSUME DispatchInv, AnswerInv, NEW c \in Caller, LookUp(c)
  PROVE  AnswerInv'
<1> DEFINE e == Head(todo[c])
           k == EntryKey(c, e)
<1>1. /\ UNCHANGED <<work, cache, received, acted, performed>>
      /\ \/ values' = values
         \/ /\ k # NoKey /\ cache[k] # NoEntry
            /\ values' = [values EXCEPT ![c] = Put(@, e, cache[k])]
  BY DEF LookUp
<1>2. e \in Entry
  <2>1. todo[c] \in Seq(Entry) /\ todo[c] # <<>>
    BY DEF DispatchInv, TaskType, LookUp
  <2> QED
    BY <2>1, TailOf
<1>3. k # NoKey => k \in Key
  BY <1>2, TaskAssumption DEF EntryKey
<1> HIDE DEF e
<1>4. /\ \A d \in Caller : Mine(d)' = Mine(d)
      /\ \A d \in Caller : \A f : EntryKey(d, f)' = EntryKey(d, f)
  BY <1>1 DEF Mine, EntryKey
<1>5. \A d \in Caller : \A f \in DOMAIN values'[d] :
        values'[d][f] = f \/ EntryKey(d, f) = KeyOf[values'[d][f]]
  <2>1. CASE values' = values
    BY <2>1 DEF AnswerInv, AnswersMatch
  <2>2. CASE k # NoKey /\ cache[k] # NoEntry /\ values' = [values EXCEPT ![c] = Put(@, e, cache[k])]
    <3>1. KeyOf[cache[k]] = k
      BY <1>3, <2>2 DEF AnswerInv, AnswersMatch
    <3>2. values'[c] = Put(values[c], e, cache[k]) /\ \A d \in Caller : d # c => values'[d] = values[d]
      BY <2>2 DEF AnswerInv
    <3>3. \A f \in DOMAIN values'[c] :
            values'[c][f] = IF f = e THEN cache[k] ELSE values[c][f]
      BY <3>2 DEF Put
    <3>4. DOMAIN values'[c] = DOMAIN values[c] \cup {e}
      BY <3>2 DEF Put
    <3> QED
      BY <3>1, <3>2, <3>3, <3>4 DEF AnswerInv, AnswersMatch
  <2> QED
    BY <1>1, <2>1, <2>2
<1>6. AnswersMatch'
  BY <1>1, <1>4, <1>5 DEF AnswerInv, AnswersMatch
<1>7. DOMAIN values' = Caller
  BY <1>1 DEF AnswerInv
<1> QED
  BY <1>1, <1>4, <1>6, <1>7 DEF AnswerInv

LEMMA ActAnswers ==
  ASSUME DispatchInv, AnswerInv, NEW c \in Caller, NEW e \in Entry, Act(c, e)
  PROVE  AnswerInv'
<1>1. /\ e \in ToSet(chunk[c]) /\ acted' = [acted EXCEPT ![c] = @ \cup {e}]
      /\ performed' = [performed EXCEPT ![e] = @ + 1]
      /\ UNCHANGED <<work, cache, received, values>>
  BY DEF Act
<1>2. e \in Mine(c)
  BY <1>1 DEF DispatchInv, CallOf
<1>3. \A f \in Entry : performed[f] \in Nat /\ performed'[f] \in Nat /\ performed'[f] >= performed[f]
  BY <1>1 DEF DispatchInv, TaskType
<1>4. performed'[e] > 0
  BY <1>1 DEF DispatchInv, TaskType
<1>5. \A d \in Caller : acted'[d] = IF d = c THEN acted[c] \cup {e} ELSE acted[d]
  BY <1>1 DEF DispatchInv, TaskType
<1>6. \A d \in Caller : Mine(d)' = Mine(d) /\ Mine(d) \subseteq Entry
  BY <1>1, WorkType DEF DispatchInv, TaskType, Mine
<1>7. \A f \in Entry : performed[f] > 0 => performed'[f] > 0
  BY <1>3
<1>8. \A d \in Caller : \A f : EntryKey(d, f)' = EntryKey(d, f)
  BY <1>1 DEF EntryKey
<1>9. \A k \in Key : cache[k] # NoEntry => cache[k] \in Entry
  BY <1>6 DEF AnswerInv, AnswersMatch, Mine
<1>10. AnswersMatch'
  BY <1>1, <1>7, <1>8, <1>9 DEF AnswerInv, AnswersMatch
<1> QED
  BY <1>1, <1>2, <1>4, <1>5, <1>6, <1>7, <1>10 DEF AnswerInv

LEMMA AnswerAnswers ==
  ASSUME DispatchInv, AnswerInv, NEW c \in Caller, Answer(c)
  PROVE  AnswerInv'
<1>1. PICK outputs \in SetToAllKPermutations(acted[c]) :
        received' = [received EXCEPT ![c] = ByEntry(c, outputs)]
  BY DEF Answer
<1>2. UNCHANGED <<work, cache, acted, values, performed>>
  BY DEF Answer
<1>3. ToSet(outputs) \subseteq acted[c]
  BY <1>1 DEF SetToAllKPermutations, SetToSeqs, ToSet
<1>4. received'[c] = [e \in ToSet(outputs) |-> e] /\ DOMAIN received' = Caller
      /\ \A d \in Caller : d # c => received'[d] = received[d]
  BY <1>1 DEF AnswerInv, ByEntry
<1>5. /\ \A d \in Caller : Mine(d)' = Mine(d)
      /\ \A d \in Caller : \A f : EntryKey(d, f)' = EntryKey(d, f)
  BY <1>2 DEF Mine, EntryKey
<1>6. AnswersMatch'
  BY <1>2, <1>5 DEF AnswerInv, AnswersMatch
<1> QED
  BY <1>2, <1>3, <1>4, <1>5, <1>6 DEF AnswerInv

LEMMA StoreAnswers ==
  ASSUME DispatchInv, AnswerInv, NEW c \in Caller, Store(c)
  PROVE  AnswerInv'
<1> DEFINE e == Head(chunk[c])
           k == EntryKey(c, e)
<1>1. /\ UNCHANGED <<work, received, acted, performed>> /\ chunk[c] # <<>>
      /\ \/ cache' = cache /\ values' = values
         \/ /\ e \in DOMAIN received[c] /\ values' = [values EXCEPT ![c] = Put(@, e, received[c][e])]
            /\ \/ cache' = cache
               \/ k # NoKey /\ cache' = [cache EXCEPT ![k] = received[c][e]]
  BY DEF Store
<1>2. e \in Entry
  <2>1. chunk[c] \in Seq(Entry)
    BY DEF DispatchInv, TaskType
  <2> QED
    BY <1>1, <2>1, TailOf
<1>3. k # NoKey => /\ k \in Key /\ k = KeyOf[e]
                   /\ work[c].effects.pure \/ work[c].effects.cacheable
  BY <1>2, TaskAssumption DEF EntryKey
<1> HIDE DEF e, k
<1>4. /\ \A d \in Caller : Mine(d)' = Mine(d)
      /\ \A d \in Caller : \A f : EntryKey(d, f)' = EntryKey(d, f)
  BY <1>1 DEF Mine, EntryKey
<1>5. CASE cache' = cache /\ values' = values
  BY <1>1, <1>4, <1>5 DEF AnswerInv, AnswersMatch
<1>6. CASE /\ e \in DOMAIN received[c] /\ values' = [values EXCEPT ![c] = Put(@, e, received[c][e])]
           /\ \/ cache' = cache
              \/ k # NoKey /\ cache' = [cache EXCEPT ![k] = received[c][e]]
  <2>1. received[c][e] = e /\ e \in Mine(c) /\ performed[e] > 0
    BY <1>6 DEF AnswerInv
  <2>2. /\ DOMAIN values' = Caller /\ \A d \in Caller : d # c => values'[d] = values[d]
        /\ values'[c] = Put(values[c], e, e)
    BY <1>6, <2>1 DEF AnswerInv
  <2>3. \A d \in Caller : \A f \in DOMAIN values'[d] :
          values'[d][f] = f \/ EntryKey(d, f) = KeyOf[values'[d][f]]
    <3>1. /\ DOMAIN values'[c] = DOMAIN values[c] \cup {e}
          /\ \A f \in DOMAIN values'[c] : values'[c][f] = IF f = e THEN e ELSE values[c][f]
      BY <2>2 DEF Put
    <3> QED
      BY <2>2, <3>1 DEF AnswerInv, AnswersMatch
  <2>4. DOMAIN cache' = Key /\ \A l \in Key :
          cache'[l] = cache[l] \/ (k # NoKey /\ l = k /\ cache'[l] = e)
    BY <1>6, <2>1 DEF AnswerInv
  <2>5. \A l \in Key : cache'[l] # NoEntry =>
          /\ KeyOf[cache'[l]] = l /\ performed[cache'[l]] > 0
          /\ \E d \in Caller : cache'[l] \in ToSet(work[d].entries) /\
               (work[d].effects.pure \/ work[d].effects.cacheable)
    BY <1>3, <2>1, <2>4 DEF AnswerInv, AnswersMatch, Mine
  <2>6. AnswersMatch'
    BY <1>1, <1>4, <2>3, <2>5 DEF AnswersMatch
  <2> QED
    BY <1>1, <1>4, <2>2, <2>4, <2>6 DEF AnswerInv
<1> QED
  BY <1>1, <1>5, <1>6

LEMMA NextPreservesAnswers ==
  ASSUME DispatchInv, AnswerInv, TaskNext
  PROVE  AnswerInv'
<1>1. CASE AllEnded \/ \E c \in Caller :
             \/ Begin(c) \/ Acquire(c) \/ NextCall(c) \/ Fail(c) \/ Panic(c) \/ TryAgain(c)
             \/ Leave(c) \/ Release(c) \/ Locks(c) \/ Abort(c)
  <2>1. UNCHANGED <<work, cache, received, values, performed>>
    BY <1>1 DEF AllEnded, Begin, Acquire, NextCall, Fail, Panic, TryAgain, Leave, Release,
                Locks, Abort, allVars, taskVars
  <2>2. acted' = acted \/ \E c \in Caller : acted' = [acted EXCEPT ![c] = {}]
    BY <1>1 DEF AllEnded, Begin, Acquire, NextCall, Fail, Panic, TryAgain, Leave, Release,
                Locks, Abort, allVars, taskVars
  <2>3. \A c \in Caller : acted'[c] \subseteq acted[c]
    BY <2>2 DEF DispatchInv, TaskType
  <2> QED
    BY <2>1, <2>3, QuietAnswers
<1> QED
  BY <1>1, LookUpAnswers, ActAnswers, AnswerAnswers, StoreAnswers DEF TaskNext, TaskStep

----------------------------------------------------------------------------
(* Results.                                                                *)

\* A list of results names each of the nodes N once, and reports a success
\* only for those that have a value, V.
Reports(r, N, V) ==
  /\ r \in Seq([node: Entry, ok: BOOLEAN])
  /\ \A i, j \in DOMAIN r : r[i].node = r[j].node => i = j
  /\ \A i \in DOMAIN r : r[i].node \in N /\ (r[i].ok => r[i].node \in V)
  /\ \A n \in N : \E i \in DOMAIN r : r[i].node = n

\* A function on 1..n is a sequence of length n.
LEMMA FunctionSeq ==
  ASSUME NEW T, NEW n \in Nat, NEW f \in [1..n -> T]
  PROVE  f \in Seq(T) /\ Len(f) = n /\ DOMAIN f = 1..n
<1>1. f \in Seq(T)
  BY SeqDef
<1>2. Len(f) \in Nat /\ DOMAIN f = 1..Len(f)
  BY <1>1, LenProperties
<1>3. 1..Len(f) = 1..n
  BY <1>2
<1>4. \A i \in Nat : i \in 1..Len(f) <=> i \in 1..n
  BY <1>3
<1>5. Len(f) = n
  <2> DEFINE m == Len(f)
  <2>1. m \in Nat /\ \A i \in Nat : i \in 1..m <=> i \in 1..n
    BY <1>2, <1>4
  <2> HIDE DEF m
  <2>2. m = n
    BY <2>1
  <2> QED
    BY <2>2 DEF m
<1> QED
  BY <1>1, <1>3, <1>5

LEMMA ReportsNone == \A V : Reports(<<>>, {}, V)
  BY EmptySeq DEF Reports

LEMMA ReportsMore ==
  ASSUME NEW r, NEW N, NEW V, NEW W, Reports(r, N, V), V \subseteq W
  PROVE  Reports(r, N, W)
BY DEF Reports

LEMMA ReportsAppend ==
  ASSUME NEW r, NEW N, NEW V, Reports(r, N, V),
         NEW e \in Entry, e \notin N, NEW ok \in BOOLEAN, ok => e \in V
  PROVE  Reports(Append(r, Result(e, ok)), N \cup {e}, V)
<1> DEFINE x == Result(e, ok)
           s == Append(r, x)
<1>1. x \in [node: Entry, ok: BOOLEAN] /\ x.node = e /\ x.ok = ok
  BY DEF Result
<1>2. r \in Seq([node: Entry, ok: BOOLEAN]) /\ Len(r) \in Nat /\ DOMAIN r = 1..Len(r)
  BY DEF Reports
<1> HIDE DEF x
<1>3. /\ s \in Seq([node: Entry, ok: BOOLEAN]) /\ DOMAIN s = 1..(Len(r) + 1)
      /\ s[Len(r) + 1] = x /\ \A i \in DOMAIN r : s[i] = r[i]
  BY <1>1, <1>2
<1> HIDE DEF s
<1>4. \A i \in DOMAIN s : i \in DOMAIN r \/ i = Len(r) + 1
  BY <1>2, <1>3
<1>5. \A i \in DOMAIN r : i \in DOMAIN s /\ i # Len(r) + 1
  BY <1>2, <1>3
<1>6. Len(r) + 1 \in DOMAIN s
  BY <1>2, <1>3
<1>7. Reports(s, N \cup {e}, V)
  <2>1. \A i \in DOMAIN s :
          \/ i \in DOMAIN r /\ s[i] = r[i] /\ r[i].node \in N /\ (r[i].ok => r[i].node \in V)
          \/ i = Len(r) + 1 /\ s[i] = x
    BY <1>3, <1>4 DEF Reports
  <2>2. \A i, j \in DOMAIN s : s[i].node = s[j].node => i = j
    BY <1>1, <2>1 DEF Reports
  <2>3. \A i \in DOMAIN s : s[i].node \in N \cup {e} /\ (s[i].ok => s[i].node \in V)
    BY <1>1, <2>1
  <2>4. \A n \in N \cup {e} : \E i \in DOMAIN s : s[i].node = n
    BY <1>1, <1>3, <1>5, <1>6 DEF Reports
  <2> QED
    BY <1>3, <2>2, <2>3, <2>4 DEF Reports
<1> QED
  BY <1>7 DEF s, x

\* A call that is given up reports an error for each of its entries.
LEMMA ReportsFailed ==
  ASSUME NEW r, NEW N, NEW V, Reports(r, N, V),
         NEW s \in Seq(Entry), Distinct(s), \A e \in ToSet(s) : e \notin N
  PROVE  Reports(r \o [i \in DOMAIN s |-> Result(s[i], FALSE)], N \cup ToSet(s), V)
<1> DEFINE f == [i \in DOMAIN s |-> Result(s[i], FALSE)]
           t == r \o f
<1>1. /\ r \in Seq([node: Entry, ok: BOOLEAN]) /\ Len(r) \in Nat /\ DOMAIN r = 1..Len(r)
      /\ Len(s) \in Nat /\ DOMAIN s = 1..Len(s) /\ \A i \in DOMAIN s : s[i] \in Entry
  BY DEF Reports
<1>2. \A i \in DOMAIN s : f[i].node = s[i] /\ f[i].ok = FALSE /\ f[i] \in [node: Entry, ok: BOOLEAN]
  BY <1>1 DEF Result
<1>3. f \in Seq([node: Entry, ok: BOOLEAN]) /\ Len(f) = Len(s)
  <2>1. f \in [1..Len(s) -> [node: Entry, ok: BOOLEAN]]
    BY <1>1, <1>2
  <2> HIDE DEF f
  <2> QED
    BY <1>1, <2>1, FunctionSeq
<1> HIDE DEF f
<1>4. /\ t \in Seq([node: Entry, ok: BOOLEAN]) /\ DOMAIN t = 1..(Len(r) + Len(s))
      /\ \A i \in 1..(Len(r) + Len(s)) : t[i] = IF i <= Len(r) THEN r[i] ELSE f[i - Len(r)]
  <2>1. /\ t \in Seq([node: Entry, ok: BOOLEAN]) /\ Len(t) = Len(r) + Len(f)
        /\ \A i \in 1..(Len(r) + Len(f)) : t[i] = IF i <= Len(r) THEN r[i] ELSE f[i - Len(r)]
    BY <1>1, <1>3, ConcatProperties
  <2>2. DOMAIN t = 1..Len(t)
    BY <2>1, LenProperties
  <2> QED
    BY <1>3, <2>1, <2>2
<1> HIDE DEF t
<1>5. \A i \in DOMAIN t : \/ i \in DOMAIN r /\ t[i] = r[i]
                          \/ \E k \in DOMAIN s : i = Len(r) + k /\ t[i] = f[k]
  <2>1. \A i \in DOMAIN t : i \notin DOMAIN r => i - Len(r) \in DOMAIN s /\ i = Len(r) + (i - Len(r))
    BY <1>1, <1>4
  <2>2. \A i \in DOMAIN t : t[i] = IF i \in DOMAIN r THEN r[i] ELSE f[i - Len(r)]
    BY <1>1, <1>4
  <2> QED
    BY <2>1, <2>2
<1>6. /\ \A i \in DOMAIN r : i \in DOMAIN t /\ t[i] = r[i]
      /\ \A k \in DOMAIN s : Len(r) + k \in DOMAIN t /\ t[Len(r) + k] = f[k]
  <2>1. \A i \in DOMAIN r : i \in DOMAIN t /\ t[i] = r[i]
    BY <1>1, <1>4
  <2>2. \A k \in DOMAIN s : Len(r) + k \in DOMAIN t /\ ~(Len(r) + k <= Len(r)) /\ (Len(r) + k) - Len(r) = k
    BY <1>1, <1>4
  <2>3. \A k \in DOMAIN s : t[Len(r) + k] = f[(Len(r) + k) - Len(r)]
    BY <1>4, <2>2
  <2> QED
    BY <2>1, <2>2, <2>3
<1>7. \A i \in DOMAIN t :
        \/ i \in DOMAIN r /\ t[i].node = r[i].node /\ t[i].ok = r[i].ok
        \/ \E k \in DOMAIN s : i = Len(r) + k /\ t[i].node = s[k] /\ t[i].ok = FALSE
  BY <1>2, <1>5
<1>8. \A k \in DOMAIN s : s[k] \notin N /\ s[k] \in ToSet(s)
  BY DEF ToSet
<1>9. \A i, j \in DOMAIN t : t[i].node = t[j].node => i = j
  BY <1>7, <1>8 DEF Reports, Distinct
<1>10. \A i \in DOMAIN t : t[i].node \in N \cup ToSet(s) /\ (t[i].ok => t[i].node \in V)
  BY <1>7, <1>8 DEF Reports
<1>11. \A n \in N \cup ToSet(s) : \E i \in DOMAIN t : t[i].node = n
  <2>1. \A n \in N : \E i \in DOMAIN t : t[i].node = n
    BY <1>6 DEF Reports
  <2>2. \A n \in ToSet(s) : \E k \in DOMAIN s : n = s[k]
    BY DEF ToSet
  <2>3. \A k \in DOMAIN s : Len(r) + k \in DOMAIN t /\ t[Len(r) + k].node = s[k]
    BY <1>2, <1>6
  <2>4. \A n \in ToSet(s) : \E i \in DOMAIN t : t[i].node = n
    BY <2>2, <2>3
  <2> QED
    BY <2>1, <2>4
<1>12. Reports(t, N \cup ToSet(s), V)
  BY <1>4, <1>9, <1>10, <1>11 DEF Reports
<1> QED
  BY <1>12 DEF t, f

\* panicked_outcome: an error for every member, in the order of the unit.
LEMMA ReportsPanic ==
  ASSUME NEW N, NEW V, N \subseteq Entry, IsFiniteSet(N)
  PROVE  Reports(SetToSeq({Result(n, FALSE) : n \in N}), N, V)
<1> DEFINE S == {Result(n, FALSE) : n \in N}
           m == Cardinality(S)
<1>1. \A n \in N : Result(n, FALSE).node = n /\ Result(n, FALSE).ok = FALSE
                   /\ Result(n, FALSE) \in [node: Entry, ok: BOOLEAN]
  BY DEF Result
<1>2. /\ \A x \in S : x.node \in N /\ x.ok = FALSE /\ x \in [node: Entry, ok: BOOLEAN]
      /\ \A x, y \in S : x.node = y.node => x = y
      /\ \A n \in N : \E x \in S : x.node = n
  BY <1>1
<1>3. IsFiniteSet(S)
  <2> DEFINE g == [n \in N |-> Result(n, FALSE)]
  <2>1. g \in Surjection(N, S)
    BY DEF Surjection
  <2> QED
    BY <2>1, FS_Surjection
<1> HIDE DEF S
<1>4. m \in Nat /\ ExistsBijection(1..m, S)
  BY <1>3, FS_CardinalityType
<1>5. \E f \in [1..m -> S] : IsInjective(f)
  BY <1>4 DEF ExistsBijection, Bijection, Injection, IsInjective
<1>6. PICK f \in [1..m -> S] : f = SetToSeq(S) /\ IsInjective(f)
  BY <1>5 DEF SetToSeq
<1>7. f \in Injection(1..m, S)
  BY <1>6 DEF IsInjective, Injection
<1>8. IsFiniteSet(1..m) /\ Cardinality(1..m) = m
  BY <1>4, FS_Interval
<1>9. f \in Surjection(1..m, S)
  BY <1>3, <1>7, <1>8, FS_Injection
<1>10. f \in Seq([node: Entry, ok: BOOLEAN]) /\ DOMAIN f = 1..m
  <2>1. f \in [1..m -> [node: Entry, ok: BOOLEAN]]
    BY <1>2, <1>6
  <2> QED
    BY <1>4, <2>1, FunctionSeq
<1>11. \A n \in N : \E i \in DOMAIN f : f[i].node = n
  BY <1>2, <1>9, <1>10 DEF Surjection
<1>12. \A i \in DOMAIN f : f[i] \in S
  BY <1>6
<1>13. \A i, j \in DOMAIN f : f[i].node = f[j].node => i = j
  BY <1>2, <1>6, <1>12 DEF IsInjective
<1>14. Reports(f, N, V)
  BY <1>2, <1>10, <1>11, <1>12, <1>13 DEF Reports
<1> QED
  BY <1>6, <1>14 DEF S

LEMMA ReportsCount ==
  ASSUME NEW r, NEW N, NEW V, Reports(r, N, V)
  PROVE  Len(r) = Cardinality(N) /\ {r[i].node : i \in DOMAIN r} = N
<1>1. Len(r) \in Nat /\ DOMAIN r = 1..Len(r)
  BY DEF Reports
<1> DEFINE f == [i \in 1..Len(r) |-> r[i].node]
<1>2. f \in Bijection(1..Len(r), N)
  <2>1. f \in [1..Len(r) -> N]
    BY <1>1 DEF Reports
  <2>2. \A i, j \in 1..Len(r) : f[i] = f[j] => i = j
    BY <1>1 DEF Reports
  <2>3. \A n \in N : \E i \in 1..Len(r) : f[i] = n
    BY <1>1 DEF Reports
  <2> HIDE DEF f
  <2>4. IsInjective(f)
    BY <2>1, <2>2 DEF IsInjective
  <2> QED
    BY <2>1, <2>3, <2>4 DEF Bijection, Injection, Surjection
<1>3. ExistsBijection(1..Len(r), N)
  BY <1>2 DEF ExistsBijection
<1> QED
  BY <1>1, <1>3, FS_CountingElements DEF Reports

\* A task at work on its entries.
Working == {"acquire", "lookup", "call", "sleep", "store"}

\* The entries of a task that have no answer yet.
Open(c) == ToSet(todo[c]) \cup ToSet(pending[c]) \cup ToSet(chunk[c])

\* Where a task stands, whatever its kind.
StageOf(c) ==
  /\ pc[c] = "start" => results[c] = <<>> /\ DOMAIN values[c] = {}
  /\ phase[c] = "dropping" => pc[c] \in {"leave", "aborted"}
  /\ pc[c] \in {"call", "sleep", "store"} => todo[c] = <<>>
  /\ pc[c] \in {"acquire", "lookup"} => chunk[c] = <<>>
  /\ Distinct(chunk[c])

\* A single unit or a batch group makes one call; it has reported the entries
\* that have left the look-up and the call.
PlainResult(c) ==
  /\ pc[c] \in {"call", "sleep", "store"} => pending[c] = <<>>
  /\ pc[c] \in Working => Reports(results[c], Mine(c) \ Open(c), DOMAIN values[c])
  /\ pc[c] \in {"leave", "done"} => Reports(results[c], Mine(c), DOMAIN values[c])

\* A for_each node reports at its end only.
FanOutResult(c) ==
  /\ DOMAIN values[c] \subseteq Mine(c)
  /\ pc[c] \in Working => results[c] = <<>> /\ Mine(c) \subseteq DOMAIN values[c] \cup Open(c)
  /\ pc[c] \in {"leave", "done"} =>
       \E ok \in BOOLEAN : results[c] = <<Result(c, ok)>> /\ (ok => DOMAIN values[c] = Mine(c))

ResultOf(c) ==
  /\ StageOf(c)
  /\ work[c].kind \in {"single", "batch"} => PlainResult(c)
  /\ work[c].kind = "fan_out" => FanOutResult(c)

ResultInv == DOMAIN results = Caller /\ \A c \in Caller : ResultOf(c)

LEMMA InitEstablishesResults == TaskInit => ResultInv
<1> SUFFICES ASSUME TaskInit PROVE ResultInv
  OBVIOUS
<1>1. DOMAIN results = Caller
  BY DEF TaskInit
<1>2. ASSUME NEW c \in Caller PROVE ResultOf(c)
  <2>1. /\ chunk[c] = <<>> /\ results[c] = <<>> /\ values[c] = <<>> /\ phase[c] = "idle"
        /\ pc[c] = IF work[c].kind = "idle" THEN "done" ELSE "start"
    BY DEF TaskInit, Init
  <2>2. DOMAIN values[c] = {} /\ Distinct(chunk[c])
    BY <2>1 DEF Distinct
  <2> QED
    BY <2>1, <2>2 DEF ResultOf, StageOf, PlainResult, FanOutResult, Working
<1> QED
  BY <1>1, <1>2 DEF ResultInv

\* A step of one task leaves the others as they are.
LEMMA OtherResult ==
  ASSUME ResultInv, NEW d \in Caller, work' = work,
         phase'[d] = phase[d], pc'[d] = pc[d], todo'[d] = todo[d], pending'[d] = pending[d],
         chunk'[d] = chunk[d], values'[d] = values[d], results'[d] = results[d]
  PROVE  ResultOf(d)'
<1>1. ResultOf(d) /\ Mine(d)' = Mine(d) /\ Open(d)' = Open(d)
  BY DEF ResultInv, Mine, Open
<1>2. StageOf(d)'
  BY <1>1 DEF ResultOf, StageOf
<1>3. PlainResult(d) => PlainResult(d)'
  BY <1>1 DEF PlainResult
<1>4. FanOutResult(d) => FanOutResult(d)'
  BY <1>1 DEF FanOutResult
<1> QED
  BY <1>1, <1>2, <1>3, <1>4 DEF ResultOf

\* The task goes on, ends with the report it has, or is aborted, with its
\* entries, values and results as they are.
LEMMA QuietResult ==
  ASSUME DispatchInv, ResultInv, NEW c \in Caller, NEW l \in Label,
         pc' = [pc EXCEPT ![c] = l],
         \A d \in Caller : d # c => phase'[d] = phase[d],
         phase'[c] = "dropping" => l \in {"leave", "aborted"},
         UNCHANGED <<work, todo, pending, chunk, values, results>>,
         \/ l = "aborted"
         \/ l = pc[c]
         \/ pc[c] = "acquire" /\ l = "lookup"
         \/ pc[c] \in {"call", "sleep"} /\ l \in {"call", "sleep", "store"}
         \/ pc[c] = "leave" /\ l = "done"
  PROVE  ResultInv'
<1>1. ResultOf(c) /\ Mine(c)' = Mine(c) /\ Open(c)' = Open(c)
  BY DEF ResultInv, Mine, Open
<1>2. \A d \in Caller : pc'[d] = IF d = c THEN l ELSE pc[d]
  BY DEF DispatchInv, TaskType
<1>3. StageOf(c)'
  BY <1>1, <1>2 DEF ResultOf, StageOf
<1>4. PlainResult(c) => PlainResult(c)'
  BY <1>1, <1>2 DEF PlainResult, Working
<1>5. FanOutResult(c) => FanOutResult(c)'
  BY <1>1, <1>2 DEF FanOutResult, Working
<1>6. ResultOf(c)'
  BY <1>1, <1>3, <1>4, <1>5 DEF ResultOf
<1>7. \A d \in Caller : d # c => ResultOf(d)'
  BY <1>2, OtherResult
<1> QED
  BY <1>6, <1>7 DEF ResultInv

LEMMA HeadOf ==
  ASSUME NEW s \in Seq(Entry), s # <<>>
  PROVE  ToSet(s) = {Head(s)} \cup ToSet(Tail(s))
<1>1. Len(s) \in Nat /\ Len(s) > 0 /\ DOMAIN s = 1..Len(s)
  BY EmptySeq
<1>2. /\ Head(s) = s[1] /\ DOMAIN Tail(s) = 1..(Len(s) - 1)
      /\ \A i \in 1..(Len(s) - 1) : Tail(s)[i] = s[i + 1]
  BY <1>1
<1>3. \A i \in DOMAIN s : i = 1 \/ (i - 1 \in DOMAIN Tail(s) /\ Tail(s)[i - 1] = s[i])
  BY <1>1, <1>2
<1> DEFINE t == Tail(s)
<1>4. \A i \in DOMAIN s : i = 1 \/ (i - 1 \in DOMAIN t /\ t[i - 1] = s[i])
  BY <1>3
<1> HIDE DEF t
<1>5. \A x \in ToSet(s) : x = s[1] \/ x \in ToSet(t)
  BY <1>4 DEF ToSet
<1> QED
  BY <1>2, <1>5, TailOf DEF t

LEMMA BeginResult ==
  ASSUME DispatchInv, ResultInv, NEW c \in Caller, Begin(c)
  PROVE  ResultOf(c)'
<1>1. /\ pc[c] = "start" /\ todo' = [todo EXCEPT ![c] = work[c].entries]
      /\ UNCHANGED <<vars, work, pending, chunk, values>>
  BY DEF Begin, At
<1>2. /\ TaskType /\ CallOf(c) /\ StageOf(c)
  BY DEF DispatchInv, ResultInv, ResultOf
<1>3. /\ todo'[c] = work[c].entries /\ pending'[c] = <<>> /\ chunk'[c] = <<>>
      /\ results[c] = <<>> /\ DOMAIN values'[c] = {} /\ phase'[c] = phase[c] /\ phase[c] # "dropping"
  BY <1>1, <1>2 DEF TaskType, CallOf, StageOf, vars
<1>4. Mine(c)' = Mine(c) /\ Open(c)' = Mine(c)
  BY <1>1, <1>3 DEF Mine, Open, ToSet
<1>5. Distinct(chunk'[c])
  BY <1>3 DEF Distinct
<1>6. CASE work[c].kind = "fan_out" /\ work[c].invalid # {}
  <2>1. pc'[c] = "done" /\ results'[c] = <<Result(c, FALSE)>>
    <3>1. /\ results' = [results EXCEPT ![c] = Append(@, Result(c, FALSE))]
          /\ pc' = [pc EXCEPT ![c] = "done"]
      BY <1>6 DEF Begin, Goto
    <3>2. pc'[c] = "done"
      BY <1>2, <3>1 DEF TaskType
    <3>3. results'[c] = Append(<<>>, Result(c, FALSE))
      BY <1>3, <3>1 DEF ResultInv
    <3> QED
      BY <3>2, <3>3
  <2> QED
    BY <1>1, <1>3, <1>4, <1>5, <1>6, <2>1 DEF ResultOf, StageOf, FanOutResult, Working
<1>7. CASE ~(work[c].kind = "fan_out" /\ work[c].invalid # {})
  <2>1. pc'[c] \in {"acquire", "lookup"} /\ results'[c] = <<>>
    BY <1>2, <1>3, <1>7 DEF Begin, Goto, FirstLabel, TaskType
  <2>2. Reports(results'[c], Mine(c) \ Mine(c), DOMAIN values'[c])
    BY <2>1, ReportsNone
  <2> QED
    BY <1>1, <1>3, <1>4, <1>5, <2>1, <2>2
    DEF ResultOf, StageOf, PlainResult, FanOutResult, Working
<1> QED
  BY <1>6, <1>7

\* A hit answers its entry at once; a miss stays open.
LEMMA LookUpResult ==
  ASSUME DispatchInv, AnswerInv, ResultInv, NEW c \in Caller, LookUp(c)
  PROVE  ResultOf(c)'
<1> DEFINE e == Head(todo[c])
           hit == EntryKey(c, e) # NoKey /\ cache[EntryKey(c, e)] # NoEntry
<1>1. /\ pc[c] = "lookup" /\ todo[c] # <<>> /\ todo' = [todo EXCEPT ![c] = Tail(@)]
      /\ UNCHANGED <<vars, work, pc, chunk>>
      /\ values' = IF hit THEN [values EXCEPT ![c] = Put(@, e, cache[EntryKey(c, e)])] ELSE values
      /\ pending' = IF hit THEN pending ELSE [pending EXCEPT ![c] = Append(@, e)]
      /\ results' = IF hit /\ work[c].kind # "fan_out"
                    THEN [results EXCEPT ![c] = Append(@, Result(e, TRUE))] ELSE results
  BY DEF LookUp, At
<1>2. TaskType /\ CallOf(c) /\ ResultOf(c)
  BY DEF DispatchInv, ResultInv
<1>3. /\ e \in Entry /\ ToSet(todo[c]) = {e} \cup ToSet(Tail(todo[c]))
      /\ e \notin ToSet(Tail(todo[c])) /\ e \in ToSet(todo[c])
  BY <1>1, <1>2, TailOf, HeadOf DEF TaskType, CallOf
<1>4. e \in Mine(c) /\ e \notin ToSet(pending[c]) /\ e \notin ToSet(chunk[c]) /\ e \in Open(c)
  BY <1>2, <1>3 DEF CallOf, Open
<1>5. ToSet(Append(pending[c], e)) = ToSet(pending[c]) \cup {e}
  BY <1>2, <1>3, AppendOf DEF TaskType
<1> HIDE DEF e, hit
<1>6. /\ Mine(c)' = Mine(c) /\ todo'[c] = Tail(todo[c]) /\ chunk'[c] = chunk[c]
      /\ pc'[c] = "lookup" /\ phase'[c] = phase[c] /\ work'[c] = work[c]
  BY <1>1, <1>2 DEF TaskType, Mine, vars
<1>7. StageOf(c)'
  BY <1>1, <1>2, <1>6 DEF ResultOf, StageOf
<1>8. CASE ~hit
  <2>1. values'[c] = values[c] /\ results'[c] = results[c] /\ pending'[c] = Append(pending[c], e)
    BY <1>1, <1>2, <1>8 DEF TaskType
  <2>2. Open(c)' = Open(c)
    BY <1>3, <1>5, <1>6, <2>1 DEF Open
  <2> QED
    BY <1>1, <1>2, <1>6, <1>7, <2>1, <2>2 DEF ResultOf, PlainResult, FanOutResult, Working
<1>9. CASE hit
  <2>1. /\ pending'[c] = pending[c] /\ DOMAIN values'[c] = DOMAIN values[c] \cup {e}
        /\ results'[c] = IF work[c].kind # "fan_out" THEN Append(results[c], Result(e, TRUE)) ELSE results[c]
    BY <1>1, <1>9 DEF AnswerInv, ResultInv, Put
  <2>2. Open(c)' = Open(c) \ {e}
    BY <1>3, <1>4, <1>6, <2>1 DEF Open
  <2>3. ASSUME work[c].kind \in {"single", "batch"} PROVE PlainResult(c)'
    <3>1. Reports(results[c], Mine(c) \ Open(c), DOMAIN values'[c])
      BY <1>1, <1>2, <2>1, <2>3, ReportsMore DEF ResultOf, PlainResult, Working
    <3>2. Reports(Append(results[c], Result(e, TRUE)), (Mine(c) \ Open(c)) \cup {e}, DOMAIN values'[c])
      BY <1>3, <1>4, <2>1, <3>1, ReportsAppend
    <3>3. (Mine(c) \ Open(c)) \cup {e} = Mine(c)' \ Open(c)'
      BY <1>4, <1>6, <2>2
    <3>4. results'[c] = Append(results[c], Result(e, TRUE))
      BY <2>1, <2>3
    <3> QED
      BY <1>6, <3>2, <3>3, <3>4 DEF PlainResult
  <2>4. ASSUME work[c].kind = "fan_out" PROVE FanOutResult(c)'
    BY <1>1, <1>2, <1>4, <1>6, <2>1, <2>2, <2>4 DEF ResultOf, FanOutResult, Working
  <2> QED
    BY <1>6, <1>7, <2>3, <2>4 DEF ResultOf
<1> QED
  BY <1>8, <1>9

LEMMA SplitWhole ==
  ASSUME NEW s \in Seq(Entry), NEW n \in 0..Len(s)
  PROVE  /\ ToSet(s) = ToSet(SubSeq(s, 1, n)) \cup ToSet(SubSeq(s, n + 1, Len(s)))
         /\ Distinct(s) => Distinct(SubSeq(s, 1, n))
         /\ n = Len(s) => SubSeq(s, n + 1, Len(s)) = <<>>
<1>1. Len(s) \in Nat /\ DOMAIN s = 1..Len(s)
  OBVIOUS
<1> DEFINE a == SubSeq(s, 1, n)
           b == SubSeq(s, n + 1, Len(s))
<1>2. DOMAIN a = 1..n /\ \A i \in 1..n : a[i] = s[i]
  BY <1>1
<1>3. DOMAIN b = 1..(Len(s) - n) /\ \A i \in 1..(Len(s) - n) : b[i] = s[n + i]
  BY <1>1
<1>4. n = Len(s) => b = <<>>
  BY <1>1
<1> HIDE DEF a, b
<1>5. \A i \in DOMAIN s : i \in 1..n \/ (i - n \in 1..(Len(s) - n) /\ n + (i - n) = i)
  BY <1>1
<1>6. \A i \in DOMAIN s : \/ i \in DOMAIN a /\ a[i] = s[i]
                          \/ i - n \in DOMAIN b /\ b[i - n] = s[i]
  BY <1>2, <1>3, <1>5
<1>7. \A x \in ToSet(s) : x \in ToSet(a) \/ x \in ToSet(b)
  BY <1>6 DEF ToSet
<1>8. ToSet(a) \subseteq ToSet(s) /\ ToSet(b) \subseteq ToSet(s)
  BY SplitOf DEF a, b
<1>9. Distinct(s) => Distinct(a)
  BY <1>1, <1>2 DEF Distinct
<1> QED
  BY <1>4, <1>7, <1>8, <1>9 DEF a, b

\* The call of a single unit or a batch group carries all misses.
LEMMA WholeCall ==
  ASSUME DispatchInv, ResultInv, NEW c \in Caller, NextCall(c),
         work[c].kind \in {"single", "batch"}
  PROVE  Smaller(Larger(1, width'[c]), Len(pending[c])) = Len(pending[c])
<1>1. TaskType /\ CallOf(c) /\ ResultOf(c)
  BY DEF DispatchInv, ResultInv
<1>2. pending[c] \in Seq(Entry) /\ Len(pending[c]) \in Nat /\ width[c] \in Nat
  BY <1>1 DEF TaskType
<1>3. CASE At(c, "store")
  <2>1. pending[c] = <<>>
    BY <1>1, <1>3 DEF At, ResultOf, PlainResult
  <2>2. Len(pending[c]) = 0
    BY <2>1
  <2>3. width'[c] \in Nat
    BY <1>1, <1>2, <1>3 DEF NextCall, At
  <2> QED
    BY <2>2, <2>3 DEF Smaller, Larger
<1>4. CASE At(c, "lookup")
  <2>1. width'[c] = Width(c)
    BY <1>1, <1>4 DEF NextCall, At, TaskType
  <2>2. CASE work[c].kind = "batch"
    <3>1. width'[c] = Len(pending[c])
      BY <2>1, <2>2 DEF Width
    <3> QED
      BY <1>2, <3>1 DEF Smaller, Larger
  <2>3. CASE work[c].kind = "single"
    <3>1. width'[c] = 0
      BY <2>1, <2>3 DEF Width
    <3>2. work[c].entries \in Seq(Entry) /\ Len(work[c].entries) = 1
      BY <1>1, <2>3, WorkType, TaskAssumption DEF TaskType
    <3>3. \A e, f \in Mine(c) : e = f
      BY <3>2 DEF Mine, ToSet
    <3>4. \A i, j \in DOMAIN pending[c] : i = j
      <4>1. \A i \in DOMAIN pending[c] : pending[c][i] \in Mine(c)
        BY <1>1 DEF CallOf, ToSet
      <4>2. Distinct(pending[c])
        BY <1>1 DEF CallOf
      <4> QED
        BY <3>3, <4>1, <4>2 DEF Distinct
    <3>5. DOMAIN pending[c] = 1..Len(pending[c])
      BY <1>2
    <3>6. \A i, j \in 1..Len(pending[c]) : i = j
      BY <3>4, <3>5
    <3>7. Len(pending[c]) <= 1
      BY <1>2, <3>6
    <3> QED
      BY <1>2, <3>1, <3>7 DEF Smaller, Larger
  <2> QED
    BY <2>2, <2>3
<1> QED
  BY <1>3, <1>4 DEF NextCall

LEMMA NextCallResult ==
  ASSUME DispatchInv, ResultInv, NEW c \in Caller, NextCall(c)
  PROVE  ResultOf(c)'
<1>1. TaskType /\ CallOf(c) /\ ResultOf(c)
  BY DEF DispatchInv, ResultInv
<1>2. PICK n : /\ n = Smaller(Larger(1, width'[c]), Len(pending[c]))
               /\ chunk' = [chunk EXCEPT ![c] = SubSeq(pending[c], 1, n)]
               /\ pending' = [pending EXCEPT ![c] = SubSeq(@, n + 1, Len(@))]
               /\ Goto(c, IF n = 0 THEN EndLabel(c) ELSE "call")
               /\ results' = IF n = 0 /\ work[c].kind = "fan_out"
                             THEN [results EXCEPT ![c] = Append(@, Result(c, TRUE))] ELSE results
  BY DEF NextCall
<1>3. /\ UNCHANGED <<vars, work, todo, values>> /\ pc[c] \in {"lookup", "store"}
      /\ pc[c] = "lookup" => todo[c] = <<>>
      /\ pc[c] = "store" => chunk[c] = <<>>
  BY DEF NextCall, At
<1>4. /\ pending[c] \in Seq(Entry) /\ Len(pending[c]) \in Nat /\ n \in 0..Len(pending[c])
      /\ n = 0 => Len(pending[c]) = 0
  <2>1. pending[c] \in Seq(Entry) /\ Len(pending[c]) \in Nat /\ width \in [Caller -> Nat]
    BY <1>1 DEF TaskType
  <2>2. Width(c) \in Nat
    <3>1. work[c].batch_size \in Nat
      BY <1>1, WorkType DEF TaskType
    <3> QED
      BY <2>1, <3>1 DEF Width, Larger
  <2>3. width' = width \/ width' = [width EXCEPT ![c] = Width(c)]
    BY DEF NextCall
  <2>4. width'[c] \in Nat
    BY <2>1, <2>2, <2>3
  <2> QED
    BY <1>2, <2>1, <2>4 DEF Smaller, Larger
<1>5. todo[c] = <<>> /\ chunk[c] = <<>>
  BY <1>1, <1>3 DEF ResultOf, StageOf
<1> DEFINE first == SubSeq(pending[c], 1, n)
           rest == SubSeq(pending[c], n + 1, Len(pending[c]))
<1>6. /\ ToSet(pending[c]) = ToSet(first) \cup ToSet(rest) /\ Distinct(first)
      /\ n = Len(pending[c]) => rest = <<>>
  BY <1>1, <1>4, SplitWhole DEF CallOf
<1>7. chunk'[c] = first /\ pending'[c] = rest
  BY <1>1, <1>2 DEF TaskType
<1> HIDE DEF first, rest
<1>8. /\ Mine(c)' = Mine(c) /\ todo'[c] = <<>> /\ values'[c] = values[c]
      /\ work'[c] = work[c] /\ phase'[c] = phase[c]
      /\ pc'[c] = IF n = 0 THEN EndLabel(c) ELSE "call"
  BY <1>1, <1>2, <1>3, <1>5 DEF TaskType, Mine, vars, Goto
<1>9. ToSet(<<>>) = {}
  BY DEF ToSet
<1>10. Open(c) = ToSet(pending[c]) /\ Open(c)' = Open(c)
  BY <1>5, <1>6, <1>7, <1>8, <1>9 DEF Open
<1>11. pc'[c] \in {"call", "leave", "done"} /\ (pc'[c] = "call" <=> n # 0)
  BY <1>8 DEF EndLabel
<1>12. StageOf(c)'
  <2>1. phase[c] # "dropping"
    BY <1>1, <1>3 DEF ResultOf, StageOf
  <2> QED
    BY <1>6, <1>7, <1>8, <1>11, <2>1 DEF StageOf
<1>13. n = 0 => Open(c) = {}
  <2>1. Len(pending[c]) = 0 => pending[c] = <<>>
    BY <1>4, EmptySeq
  <2> QED
    BY <1>4, <1>9, <1>10, <2>1
<1>14. ASSUME work[c].kind \in {"single", "batch"} PROVE PlainResult(c)'
  <2>1. n = Len(pending[c])
    BY <1>2, <1>14, WholeCall
  <2>2. pending'[c] = <<>> /\ results'[c] = results[c]
    BY <1>2, <1>6, <1>7, <1>14, <2>1
  <2>3. Reports(results[c], Mine(c) \ Open(c), DOMAIN values[c])
    BY <1>1, <1>3, <1>14 DEF ResultOf, PlainResult, Working
  <2>4. n = 0 => Mine(c) \ Open(c) = Mine(c)
    BY <1>13
  <2> QED
    BY <1>8, <1>10, <1>11, <2>2, <2>3, <2>4 DEF PlainResult
<1>15. ASSUME work[c].kind = "fan_out" PROVE FanOutResult(c)'
  <2>1. /\ results[c] = <<>> /\ Mine(c) \subseteq DOMAIN values[c] \cup Open(c)
        /\ DOMAIN values[c] \subseteq Mine(c)
    BY <1>1, <1>3, <1>15 DEF ResultOf, FanOutResult, Working
  <2>2. CASE n = 0
    <3>1. results'[c] = Append(<<>>, Result(c, TRUE))
      BY <1>2, <1>15, <2>1, <2>2 DEF ResultInv
    <3>2. results'[c] = <<Result(c, TRUE)>>
      BY <3>1
    <3>3. DOMAIN values[c] = Mine(c)
      BY <1>13, <2>1, <2>2
    <3> QED
      BY <1>8, <1>11, <2>2, <3>2, <3>3 DEF FanOutResult, Working
  <2>3. CASE n # 0
    <3>1. results'[c] = <<>> /\ pc'[c] = "call"
      BY <1>2, <1>11, <2>1, <2>3
    <3> QED
      BY <1>8, <1>10, <2>1, <3>1 DEF FanOutResult
  <2> QED
    BY <2>2, <2>3
<1> QED
  BY <1>8, <1>12, <1>14, <1>15 DEF ResultOf

LEMMA FiniteMine ==
  ASSUME work \in Workloads, NEW c \in Caller
  PROVE  IsFiniteSet(Mine(c))
<1> DEFINE s == work[c].entries
<1>1. s \in Seq(Entry)
  BY WorkType
<1> HIDE DEF s
<1>2. Len(s) \in Nat /\ s \in [1..Len(s) -> Entry]
  BY <1>1, LenProperties
<1>3. s \in Surjection(1..Len(s), ToSet(s))
  BY <1>2 DEF Surjection, ToSet
<1>4. IsFiniteSet(1..Len(s))
  BY <1>2, FS_Interval
<1>5. IsFiniteSet(ToSet(s))
  BY <1>3, <1>4, FS_Surjection
<1> QED
  BY <1>5 DEF s, Mine

LEMMA SetToSeqOfOne == \A x : SetToSeq({x}) = <<x>>
<1> TAKE x
<1>1. Cardinality({x}) = 1
  BY FS_Singleton
<1>2. 1..1 = {1}
  OBVIOUS
<1>3. <<x>> \in [1..1 -> {x}] /\ IsInjective(<<x>>)
  BY <1>2 DEF IsInjective
<1>4. SetToSeq({x}) \in [1..1 -> {x}]
  BY <1>1, <1>3 DEF SetToSeq
<1>5. \A f, g \in [1..1 -> {x}] : f = g
  OBVIOUS
<1> QED
  BY <1>3, <1>4, <1>5

\* The tool's error reaches every node of the call, or the for_each node.
LEMMA FailResult ==
  ASSUME DispatchInv, ResultInv, NEW c \in Caller, Fail(c), pc' = [pc EXCEPT ![c] = EndLabel(c)],
         results' = Failed(c)
  PROVE  ResultOf(c)'
<1>1. TaskType /\ CallOf(c) /\ ResultOf(c) /\ pc[c] = "call" /\ c \in DOMAIN results
  BY DEF DispatchInv, ResultInv, Fail, At
<1>2. UNCHANGED <<vars, work, todo, pending, chunk, values>>
  BY DEF Fail
<1>3. pc'[c] = EndLabel(c) /\ pc'[c] \in {"leave", "done"}
  BY <1>1 DEF TaskType, EndLabel
<1>4. Mine(c)' = Mine(c) /\ Open(c)' = Open(c) /\ phase'[c] = phase[c] /\ work'[c] = work[c]
  BY <1>2 DEF Mine, Open, vars
<1>5. StageOf(c)'
  BY <1>1, <1>2, <1>3, <1>4 DEF ResultOf, StageOf
<1>6. ASSUME work[c].kind \in {"single", "batch"} PROVE PlainResult(c)'
  <2>1. todo[c] = <<>> /\ pending[c] = <<>> /\ Distinct(chunk[c]) /\ chunk[c] \in Seq(Entry)
    BY <1>1, <1>6 DEF ResultOf, StageOf, PlainResult, TaskType
  <2>2. Open(c) = ToSet(chunk[c])
    BY <2>1 DEF Open, ToSet
  <2>3. Reports(results[c], Mine(c) \ Open(c), DOMAIN values[c])
    BY <1>1, <1>6 DEF ResultOf, PlainResult, Working
  <2>4. results'[c] = results[c] \o [i \in DOMAIN chunk[c] |-> Result(chunk[c][i], FALSE)]
    BY <1>1, <1>6 DEF Failed
  <2>5. Reports(results'[c], (Mine(c) \ Open(c)) \cup ToSet(chunk[c]), DOMAIN values[c])
    BY <2>1, <2>2, <2>3, <2>4, ReportsFailed
  <2>6. (Mine(c) \ Open(c)) \cup ToSet(chunk[c]) = Mine(c)
    BY <1>1, <2>2 DEF CallOf
  <2> QED
    BY <1>2, <1>3, <1>4, <2>5, <2>6 DEF PlainResult, Working
<1>7. ASSUME work[c].kind = "fan_out" PROVE FanOutResult(c)'
  <2>1. results[c] = <<>> /\ DOMAIN values[c] \subseteq Mine(c)
    BY <1>1, <1>7 DEF ResultOf, FanOutResult, Working
  <2>2. results'[c] = Append(<<>>, Result(c, FALSE))
    BY <1>1, <1>7, <2>1 DEF Failed
  <2>3. results'[c] = <<Result(c, FALSE)>>
    BY <2>2
  <2> QED
    BY <1>2, <1>3, <1>4, <2>1, <2>3 DEF FanOutResult, Working
<1> QED
  BY <1>4, <1>5, <1>6, <1>7 DEF ResultOf

LEMMA PanicResult ==
  ASSUME DispatchInv, ResultInv, NEW c \in Caller, Panic(c)
  PROVE  ResultOf(c)'
<1>1. TaskType /\ CallOf(c) /\ ResultOf(c) /\ pc[c] = "call"
  BY DEF DispatchInv, ResultInv, Panic, At
<1>2. UNCHANGED <<vars, work, todo, pending, chunk, values>>
  BY DEF Panic
<1>3. pc'[c] \in {"leave", "done"}
  BY <1>1 DEF TaskType, Panic, Goto, EndLabel
<1>4. Mine(c)' = Mine(c) /\ Open(c)' = Open(c) /\ phase'[c] = phase[c] /\ work'[c] = work[c]
  BY <1>2 DEF Mine, Open, vars
<1>5. StageOf(c)'
  BY <1>1, <1>2, <1>3, <1>4 DEF ResultOf, StageOf
<1>6. results'[c] = SetToSeq({Result(n, FALSE) : n \in NodesOf(c)})
  BY DEF Panic, ResultInv
<1>7. ASSUME work[c].kind \in {"single", "batch"} PROVE PlainResult(c)'
  <2>1. NodesOf(c) = Mine(c)
    BY <1>7 DEF NodesOf, Mine
  <2>2. Mine(c) \subseteq Entry /\ IsFiniteSet(Mine(c))
    BY <1>1, WorkType, FiniteMine DEF TaskType
  <2>3. Reports(results'[c], Mine(c), DOMAIN values[c])
    BY <1>6, <2>1, <2>2, ReportsPanic
  <2> QED
    BY <1>2, <1>3, <1>4, <2>3 DEF PlainResult, Working
<1>8. ASSUME work[c].kind = "fan_out" PROVE FanOutResult(c)'
  <2>1. DOMAIN values[c] \subseteq Mine(c)
    BY <1>1, <1>8 DEF ResultOf, FanOutResult
  <2>2. {Result(n, FALSE) : n \in NodesOf(c)} = {Result(c, FALSE)}
    BY <1>8 DEF NodesOf
  <2>3. results'[c] = <<Result(c, FALSE)>>
    BY <1>6, <2>2, SetToSeqOfOne
  <2> QED
    BY <1>2, <1>3, <1>4, <2>1, <2>3 DEF FanOutResult, Working
<1> QED
  BY <1>4, <1>5, <1>7, <1>8 DEF ResultOf

\* An output answers its entry; an entry that is left out fails.
LEMMA StoreResult ==
  ASSUME DispatchInv, AnswerInv, ResultInv, NEW c \in Caller, Store(c)
  PROVE  ResultOf(c)'
<1> DEFINE e == Head(chunk[c])
           there == e \in DOMAIN received[c]
           fan == work[c].kind = "fan_out"
<1>1. /\ pc[c] = "store" /\ chunk[c] # <<>> /\ chunk' = [chunk EXCEPT ![c] = Tail(@)]
      /\ UNCHANGED <<vars, work, todo, pending>>
      /\ values' = IF there THEN [values EXCEPT ![c] = Put(@, e, received[c][e])] ELSE values
      /\ results' = IF there /\ fan THEN results
                    ELSE [results EXCEPT ![c] = Append(@, Result(IF fan THEN c ELSE e, there))]
      /\ pc' = [pc EXCEPT ![c] = IF fan /\ ~there THEN "done" ELSE "store"]
  BY DEF Store, At, Goto
<1>2. TaskType /\ CallOf(c) /\ ResultOf(c) /\ Distinct(chunk[c])
  BY DEF DispatchInv, ResultInv, ResultOf, StageOf
<1>3. /\ e \in Entry /\ ToSet(chunk[c]) = {e} \cup ToSet(Tail(chunk[c]))
      /\ e \notin ToSet(Tail(chunk[c])) /\ e \in ToSet(chunk[c]) /\ Distinct(Tail(chunk[c]))
  BY <1>1, <1>2, TailOf, HeadOf DEF TaskType
<1>4. e \in Mine(c) /\ e \notin ToSet(pending[c]) /\ e \notin ToSet(todo[c]) /\ e \in Open(c)
  BY <1>2, <1>3 DEF CallOf, Open
<1>5. there \in BOOLEAN
  OBVIOUS
<1> HIDE DEF e, there
<1>6. /\ Mine(c)' = Mine(c) /\ chunk'[c] = Tail(chunk[c]) /\ todo'[c] = todo[c]
      /\ pending'[c] = pending[c] /\ phase'[c] = phase[c] /\ work'[c] = work[c]
      /\ pc'[c] = IF fan /\ ~there THEN "done" ELSE "store"
  BY <1>1, <1>2 DEF TaskType, Mine, vars
<1>7. Open(c)' = Open(c) \ {e}
  BY <1>3, <1>4, <1>6 DEF Open
<1>8. DOMAIN values'[c] = IF there THEN DOMAIN values[c] \cup {e} ELSE DOMAIN values[c]
  BY <1>1 DEF AnswerInv, Put
<1>9. StageOf(c)'
  <2>1. phase[c] # "dropping" /\ todo[c] = <<>>
    BY <1>1, <1>2 DEF ResultOf, StageOf
  <2> QED
    BY <1>3, <1>6, <2>1 DEF StageOf
<1>10. ASSUME work[c].kind \in {"single", "batch"} PROVE PlainResult(c)'
  <2>1. Reports(results[c], Mine(c) \ Open(c), DOMAIN values[c]) /\ pending[c] = <<>>
    BY <1>1, <1>2, <1>10 DEF ResultOf, PlainResult, Working
  <2>2. Reports(results[c], Mine(c) \ Open(c), DOMAIN values'[c])
    BY <1>8, <2>1, ReportsMore
  <2>3. there => e \in DOMAIN values'[c]
    BY <1>8
  <2>4. Reports(Append(results[c], Result(e, there)), (Mine(c) \ Open(c)) \cup {e}, DOMAIN values'[c])
    BY <1>3, <1>4, <1>5, <2>2, <2>3, ReportsAppend
  <2>5. (Mine(c) \ Open(c)) \cup {e} = Mine(c)' \ Open(c)'
    BY <1>4, <1>6, <1>7
  <2>6. results'[c] = Append(results[c], Result(e, there)) /\ pc'[c] = "store"
    BY <1>1, <1>6, <1>10 DEF ResultInv
  <2> QED
    BY <1>6, <2>1, <2>4, <2>5, <2>6 DEF PlainResult
<1>11. ASSUME work[c].kind = "fan_out" PROVE FanOutResult(c)'
  <2>1. /\ results[c] = <<>> /\ Mine(c) \subseteq DOMAIN values[c] \cup Open(c)
        /\ DOMAIN values[c] \subseteq Mine(c)
    BY <1>1, <1>2, <1>11 DEF ResultOf, FanOutResult, Working
  <2>2. CASE there
    <3>1. results'[c] = <<>> /\ pc'[c] = "store"
      BY <1>1, <1>6, <1>11, <2>1, <2>2
    <3> QED
      BY <1>4, <1>6, <1>7, <1>8, <2>1, <2>2, <3>1 DEF FanOutResult
  <2>3. CASE ~there
    <3>1. results'[c] = Append(<<>>, Result(c, there)) /\ pc'[c] = "done"
      BY <1>1, <1>6, <1>11, <2>1, <2>3 DEF ResultInv
    <3>2. results'[c] = <<Result(c, there)>>
      BY <3>1
    <3> QED
      BY <1>5, <1>6, <1>8, <2>1, <2>3, <3>1, <3>2 DEF FanOutResult, Working
  <2> QED
    BY <2>2, <2>3
<1> QED
  BY <1>6, <1>9, <1>10, <1>11 DEF ResultOf

\* A step that may hold the guard of a slot, and otherwise only moves on.
LEMMA GuardResult ==
  ASSUME FlightTypeOK, DispatchInv, ResultInv, NEW c \in Caller,
         Acquire(c) \/ Locks(c) \/ Leave(c) \/ Release(c) \/ Abort(c)
  PROVE  ResultInv'
<1>1. UNCHANGED <<work, todo, pending, chunk, values, results>>
  BY DEF Acquire, Locks, Leave, Release, Abort, taskVars
<1>2. pc[c] \in Label /\ phase \in [Caller -> {"idle", "waiting", "executing", "dropping"}] /\ StageOf(c)
  BY DEF DispatchInv, TaskType, FlightTypeOK, ResultInv, ResultOf
<1>3. pc' = [pc EXCEPT ![c] = pc'[c]]
  BY DEF Acquire, Locks, Leave, Release, Abort, taskVars, Goto, DispatchInv, TaskType
<1>4. /\ \/ Acquire(c) /\ phase'[c] = "waiting" /\ pc'[c] = pc[c]
         \/ Locks(c) /\ phase'[c] = "executing" /\ pc[c] = "acquire" /\ pc'[c] = "lookup"
         \/ Leave(c) /\ phase'[c] = "dropping" /\ pc[c] = "leave" /\ pc'[c] = "leave"
         \/ Release(c) /\ phase'[c] = "idle" /\ pc[c] = "leave" /\ pc'[c] = "done"
         \/ Release(c) /\ phase'[c] = "idle" /\ pc[c] = "aborted" /\ pc'[c] = "aborted"
         \/ Abort(c) /\ pc'[c] = "aborted"
      /\ \A d \in Caller : d # c => phase'[d] = phase[d]
  <2>1. CASE Acquire(c)
    BY <1>2, <2>1 DEF Acquire, JoinSlot, NewSlot, Enter, taskVars
  <2>2. CASE Locks(c)
    BY <1>2, <2>2 DEF Locks, Locked, At, Goto, DispatchInv, TaskType
  <2>3. CASE Leave(c)
    BY <1>2, <2>3 DEF Leave, DropGuard, At, taskVars
  <2>4. CASE Release(c)
    BY <1>2, <2>4 DEF Release, Unlock, StageOf, DispatchInv, TaskType
  <2>5. CASE Abort(c)
    BY <1>2, <2>5 DEF Abort, AcquireDropped, DropGuard, vars, Goto, DispatchInv, TaskType
  <2> QED
    BY <2>1, <2>2, <2>3, <2>4, <2>5
<1>5. pc'[c] \in Label
  BY <1>2, <1>4 DEF Label
<1> QED
  BY <1>1, <1>3, <1>4, <1>5, QuietResult

LEMMA NextPreservesResults ==
  ASSUME FlightTypeOK, DispatchInv, AnswerInv, ResultInv, TaskNext
  PROVE  ResultInv'
<1>1. CASE AllEnded
  <2>1. UNCHANGED <<phase, work, pc, todo, pending, chunk, values, results>>
    BY <1>1 DEF AllEnded, allVars, taskVars, vars
  <2> QED
    BY <2>1, OtherResult DEF ResultInv
<1>2. ASSUME NEW c \in Caller, Answer(c) \/ TryAgain(c) \/ \E e \in Entry : Act(c, e)
      PROVE  ResultInv'
  <2>1. UNCHANGED <<vars, work, todo, pending, chunk, values, results>>
    BY <1>2 DEF Answer, TryAgain, Act
  <2>2. PICK l \in {"call", "store"} : pc' = [pc EXCEPT ![c] = l] /\ pc[c] \in {"call", "sleep"}
    BY <1>2 DEF Answer, TryAgain, Act, Goto, At, DispatchInv, TaskType
  <2>3. phase' = phase /\ phase[c] # "dropping"
    BY <2>1, <2>2 DEF vars, ResultInv, ResultOf, StageOf
  <2>4. l \in Label
    BY <2>2 DEF Label
  <2> QED
    BY <2>1, <2>2, <2>3, <2>4, QuietResult
<1>3. ASSUME NEW c \in Caller, Fail(c), pc' = [pc EXCEPT ![c] = "sleep"], results' = results
      PROVE  ResultInv'
  <2>1. UNCHANGED <<vars, work, todo, pending, chunk, values, results>> /\ pc[c] = "call"
    BY <1>3 DEF Fail, At
  <2>2. phase' = phase /\ phase[c] # "dropping"
    BY <2>1 DEF vars, ResultInv, ResultOf, StageOf
  <2>3. "sleep" \in Label
    BY DEF Label
  <2> QED
    BY <1>3, <2>1, <2>2, <2>3, QuietResult
<1>4. ASSUME NEW c \in Caller, ResultOf(c)',
             \/ Begin(c) \/ LookUp(c) \/ NextCall(c) \/ Panic(c) \/ Store(c)
             \/ Fail(c) /\ results' = Failed(c)
      PROVE  ResultInv'
  <2>1. /\ UNCHANGED <<vars, work>> /\ DOMAIN results' = Caller
        /\ \A d \in Caller : d # c =>
             /\ pc'[d] = pc[d] /\ todo'[d] = todo[d] /\ pending'[d] = pending[d]
             /\ chunk'[d] = chunk[d] /\ values'[d] = values[d] /\ results'[d] = results[d]
    <3>1. CASE Begin(c)
      BY <3>1 DEF Begin, Goto, DispatchInv, TaskType, ResultInv
    <3>2. CASE LookUp(c)
      BY <3>2 DEF LookUp, DispatchInv, TaskType, AnswerInv, ResultInv
    <3>3. CASE NextCall(c)
      BY <3>3 DEF NextCall, Goto, DispatchInv, TaskType, ResultInv
    <3>4. CASE Panic(c)
      BY <3>4 DEF Panic, Goto, DispatchInv, TaskType, ResultInv
    <3>5. CASE Store(c)
      BY <3>5 DEF Store, Goto, DispatchInv, TaskType, AnswerInv, ResultInv
    <3>6. CASE Fail(c) /\ results' = Failed(c)
      BY <3>6 DEF Fail, Failed, Goto, DispatchInv, TaskType, ResultInv
    <3> QED
      BY <1>4, <3>1, <3>2, <3>3, <3>4, <3>5, <3>6
  <2>2. \A d \in Caller : d # c => ResultOf(d)'
    BY <2>1, OtherResult DEF vars
  <2> QED
    BY <1>4, <2>1, <2>2 DEF ResultInv
<1>5. ASSUME NEW c \in Caller, Fail(c)
      PROVE  ResultInv'
  <2>1. \/ pc' = [pc EXCEPT ![c] = EndLabel(c)] /\ results' = Failed(c)
        \/ pc' = [pc EXCEPT ![c] = "sleep"] /\ results' = results
    BY <1>5 DEF Fail, Goto
  <2> QED
    BY <1>3, <1>4, <1>5, <2>1, FailResult
<1>6. ASSUME NEW c \in Caller, Begin(c) \/ LookUp(c) \/ NextCall(c) \/ Panic(c) \/ Store(c)
      PROVE  ResultInv'
  BY <1>4, <1>6, BeginResult, LookUpResult, NextCallResult, PanicResult, StoreResult
<1> QED
  BY <1>1, <1>2, <1>5, <1>6, GuardResult DEF TaskNext, TaskStep

----------------------------------------------------------------------------
(* The theorems.                                                           *)

\* A task touches the single-flight table only through its operations.
LEMMA TaskStepsFlight ==
  ASSUME DispatchInv, TaskNext
  PROVE  [Next]_vars
<1>1. ASSUME NEW c \in Caller, Acquire(c)
      PROVE  Next
  <2>1. work[c].kind = "single" /\ EntryKey(c, TheEntry(c)) # NoKey /\ work \in Workloads
    BY <1>1 DEF Acquire, At, DispatchInv, TurnOf, TaskType
  <2>2. EntryKey(c, TheEntry(c)) \in Key
    BY <2>1, WorkType, TaskAssumption DEF EntryKey
  <2> QED
    BY <1>1, <2>2 DEF Acquire, Next
<1>2. ASSUME NEW c \in Caller, Locks(c) \/ Leave(c) \/ Release(c) \/ Abort(c)
      PROVE  [Next]_vars
  BY <1>2 DEF Locks, Leave, Release, Abort, Next
<1>3. ASSUME NEW c \in Caller,
             \/ Begin(c) \/ LookUp(c) \/ NextCall(c) \/ Answer(c) \/ Fail(c) \/ Panic(c)
             \/ TryAgain(c) \/ Store(c) \/ \E e \in Entry : Act(c, e)
      PROVE  UNCHANGED vars
  BY <1>3 DEF Begin, LookUp, NextCall, Answer, Fail, Panic, TryAgain, Store, Act
<1>4. CASE AllEnded
  BY <1>4 DEF AllEnded, allVars
<1> QED
  BY <1>1, <1>2, <1>3, <1>4 DEF TaskNext, TaskStep

LEMMA StutterDispatch == DispatchInv /\ UNCHANGED allVars => DispatchInv' /\ UNCHANGED vars
  BY DEF allVars, taskVars, DispatchInv, TaskType, TurnOf, CallOf, Mine, EntryKey, TheEntry

\* The tasks of dispatch.rs and fanout.rs use the single-flight table of
\* policy.rs as SingleFlight says: dispatch_single alone acquires, with a key,
\* and every way its task ends drops the guard it holds.
THEOREM FlightRefinement == TaskSpec => ImplementsSingleFlight
<1>1. TaskInit => DispatchInv /\ Init
  BY InitEstablishesDispatch DEF TaskInit
<1>2. DispatchInv /\ [TaskNext]_allVars => DispatchInv' /\ [Next]_vars
  BY NextPreservesDispatch, TaskStepsFlight, StutterDispatch
<1> QED
  BY <1>1, <1>2, PTL DEF TaskSpec, ImplementsSingleFlight

\* Whatever the tasks do in between, calls with one key are made by one task
\* at a time (policy.rs:180-181, dispatch.rs).
THEOREM OneCallPerKey == TaskSpec => []OneExecution
<1>1. Init => FlightInv
  BY InitEstablishesFlightInv
<1>2. FlightInv /\ [Next]_vars => FlightInv'
  BY NextPreservesFlightInv
<1>3. FlightInv => OneExecution
  BY InvGivesOneExecution
<1> QED
  BY <1>1, <1>2, <1>3, FlightRefinement, PTL DEF ImplementsSingleFlight

\* Retries never repeat an effect more often than the policy allows, and a
\* tool that is neither idempotent nor pure acts at most once (policy.rs:31-38).
THEOREM EffectsTheorem == TaskSpec => []EffectsBounded
<1>1. TaskInit => DispatchInv
  BY InitEstablishesDispatch
<1>2. DispatchInv /\ [TaskNext]_allVars => DispatchInv'
  BY NextPreservesDispatch, StutterDispatch
<1>3. DispatchInv => EffectsBounded
  <2> SUFFICES ASSUME DispatchInv, NEW c \in Caller, NEW e \in ToSet(work[c].entries)
               PROVE  LET f == work[c].effects
                      IN  /\ ~(f.idempotent \/ f.pure) => performed[e] <= 1
                          /\ performed[e] <= Larger(1, IF f.retry = None THEN 1 ELSE f.retry.max_attempts)
    BY DEF EffectsBounded
  <2>1. performed[e] <= MaxAttempts(work[c].effects)
    BY DEF DispatchInv, CallOf, Mine
  <2>2. performed[e] \in Nat
    BY WorkType DEF DispatchInv, TaskType, Mine
  <2>3. work[c].effects.retry # None => work[c].effects.retry.max_attempts \in Nat
    <3>1. work[c] \in Task
      BY TaskAssumption DEF DispatchInv, TaskType
    <3>2. work[c].effects.retry \in Retry \cup {None}
      BY <3>1 DEF Task
    <3> QED
      BY <3>2 DEF Retry
  <2> QED
    BY <2>1, <2>2, <2>3 DEF MaxAttempts, Larger
<1> QED
  BY <1>1, <1>2, <1>3, PTL DEF TaskSpec

\* Whatever is reported or cached is the tool's answer to that call or to one
\* with its key, however batches are answered (dispatch.rs:228-267), cut and
\* interleaved, and only cacheable tools leave something in the cache.
THEOREM AnswersTheorem == TaskSpec => []AnswersMatch
<1>1. TaskInit => DispatchInv /\ AnswerInv
  BY InitEstablishesDispatch, InitEstablishesAnswers
<1>2. DispatchInv /\ AnswerInv /\ [TaskNext]_allVars => DispatchInv' /\ AnswerInv'
  <2>1. DispatchInv /\ AnswerInv /\ UNCHANGED allVars => AnswerInv'
    BY DEF allVars, taskVars, AnswerInv, AnswersMatch, Mine, EntryKey
  <2> QED
    BY <2>1, NextPreservesDispatch, NextPreservesAnswers, StutterDispatch
<1>3. AnswerInv => AnswersMatch
  BY DEF AnswerInv
<1> QED
  BY <1>1, <1>2, <1>3, PTL DEF TaskSpec
\* What the engine's absorb relies on (dispatch.rs:113-267, fanout.rs): a task
\* that ends reports every node of its unit once, however its look-ups, calls,
\* retries and panics went, and a success only for what has a value.
THEOREM ResultsTheorem == TaskSpec => []OneResultEach
<1> DEFINE Inv == FlightInv /\ DispatchInv /\ AnswerInv /\ ResultInv
<1>1. TaskInit => Inv
  BY InitEstablishesFlightInv, InitEstablishesDispatch, InitEstablishesAnswers,
     InitEstablishesResults DEF TaskInit
<1>2. Inv /\ [TaskNext]_allVars => Inv'
  <2> SUFFICES ASSUME Inv, [TaskNext]_allVars PROVE Inv'
    OBVIOUS
  <2>1. CASE TaskNext
    <3>1. [Next]_vars
      BY <2>1, TaskStepsFlight
    <3>2. FlightInv'
      BY <3>1, NextPreservesFlightInv
    <3>3. DispatchInv' /\ AnswerInv'
      BY <2>1, NextPreservesDispatch, NextPreservesAnswers
    <3>4. ResultInv'
      BY <2>1, NextPreservesResults DEF FlightInv
    <3> QED
      BY <3>2, <3>3, <3>4
  <2>2. CASE UNCHANGED allVars
    <3>1. DispatchInv' /\ UNCHANGED vars
      BY <2>2, StutterDispatch
    <3>2. FlightInv'
      BY <3>1, NextPreservesFlightInv
    <3>3. AnswerInv'
      BY <2>2 DEF allVars, taskVars, AnswerInv, AnswersMatch, Mine, EntryKey
    <3>4. ResultInv'
      <4>1. UNCHANGED <<phase, work, pc, todo, pending, chunk, values, results>>
        BY <2>2 DEF allVars, taskVars, vars
      <4> QED
        BY <4>1, OtherResult DEF ResultInv
    <3> QED
      BY <3>1, <3>2, <3>3, <3>4
  <2> QED
    BY <2>1, <2>2
<1>3. Inv => OneResultEach
  <2> SUFFICES ASSUME Inv, NEW c \in Caller, pc[c] = "done", work[c].kind # "idle"
               PROVE  /\ Len(results[c]) = Cardinality(NodesOf(c))
                      /\ {results[c][i].node : i \in DOMAIN results[c]} = NodesOf(c)
                      /\ \A i \in DOMAIN results[c] : results[c][i].ok =>
                           IF work[c].kind = "fan_out" THEN DOMAIN values[c] = ToSet(work[c].entries)
                           ELSE results[c][i].node \in DOMAIN values[c]
    BY DEF OneResultEach, At
  <2>1. ResultOf(c) /\ work[c].kind \in {"single", "batch", "fan_out"}
    <3>1. work[c] \in Task
      BY TaskAssumption DEF DispatchInv, TaskType
    <3> QED
      BY <3>1 DEF Task, ResultInv
  <2>2. CASE work[c].kind \in {"single", "batch"}
    <3>1. Reports(results[c], Mine(c), DOMAIN values[c])
      BY <2>1, <2>2 DEF ResultOf, PlainResult
    <3>2. NodesOf(c) = Mine(c)
      BY <2>2 DEF NodesOf, Mine
    <3>3. \A i \in DOMAIN results[c] : results[c][i].ok => results[c][i].node \in DOMAIN values[c]
      BY <3>1 DEF Reports
    <3>4. Len(results[c]) = Cardinality(Mine(c)) /\ {results[c][i].node : i \in DOMAIN results[c]} = Mine(c)
      BY <3>1, ReportsCount
    <3> QED
      BY <2>2, <3>2, <3>3, <3>4
  <2>3. CASE work[c].kind = "fan_out"
    <3>1. PICK ok \in BOOLEAN : results[c] = <<Result(c, ok)>> /\ (ok => DOMAIN values[c] = Mine(c))
      BY <2>1, <2>3 DEF ResultOf, FanOutResult
    <3>2. NodesOf(c) = {c} /\ Cardinality({c}) = 1
      BY <2>3, FS_Singleton DEF NodesOf
    <3>3. Len(results[c]) = 1 /\ DOMAIN results[c] = {1} /\ results[c][1] = Result(c, ok)
      BY <3>1
    <3>4. results[c][1].node = c /\ results[c][1].ok = ok
      BY <3>3 DEF Result
    <3> QED
      BY <2>3, <3>1, <3>2, <3>3, <3>4 DEF Mine
  <2> QED
    BY <2>1, <2>2, <2>3
<1> QED
  BY <1>1, <1>2, <1>3, PTL DEF TaskSpec
=============================================================================
