-------------------------- MODULE McpClientProofs --------------------------
(* Proofs about McpClient.                                                 *)
EXTENDS McpClient, FiniteSetTheorems, TLAPS

Labels == {"start", "session", "initialize", "handshake", "initialized", "register", "write",
           "await", "done"}
ChildStates == {"none", "running", "closing", "exited", "served"}
ReaderStates == {"none", "reading", "answering", "draining", "ended"}

\* A caller that makes a session, and one that makes its calls on one.
Making(c) == pc[c] \in {"initialize", "handshake", "initialized"}
Calling(c) == pc[c] \in {"register", "write", "await"}

SessionTypes ==
  /\ session \in Proc \cup {0} /\ spawned \in Nat
  /\ dead \in [Proc -> BOOLEAN] /\ child \in [Proc -> ChildStates] /\ reader \in [Proc -> ReaderStates]
  /\ pc \in [Caller -> Labels] /\ using \in [Caller -> Proc \cup {0}]
  /\ closing \in [stage : {"open", "grace", "closed"}, session : Proc \cup {0}]

\* A session that has not been spawned is in its initial state, and nobody
\* has it.
Unspawned ==
  /\ session <= spawned /\ closing.session <= spawned
  /\ \A c \in Caller : using[c] <= spawned
  /\ \A s \in Proc : s > spawned => child[s] = "none" /\ ~dead[s] /\ reader[s] = "none"

\* A session is made under the lock of the slot, which is empty meanwhile;
\* calls are made on the session in the slot, or on one that has died.
SessionUse ==
  /\ \A c \in Caller : Making(c) => slotLock = c /\ session = 0 /\ using[c] \in Proc
  /\ \A c \in Caller : Calling(c) => using[c] \in Proc /\ (using[c] = session \/ dead[using[c]])

SessionInv == SessionTypes /\ Unspawned /\ SessionUse

LEMMA SessionInit == ClientInit => SessionInv
<1> SUFFICES ASSUME ClientInit PROVE SessionInv
  OBVIOUS
<1> PICK w \in Workloads :
      /\ session = 0 /\ slotLock = Nobody
      /\ spawned = IF w.script = <<>> THEN 0 ELSE 1
      /\ dead = [s \in Proc |-> FALSE] /\ reader = [s \in Proc |-> "none"]
      /\ pc = [c \in Caller |-> IF w.work[c].calls = 0 THEN "done" ELSE "start"]
      /\ using = [c \in Caller |-> 0]
      /\ closing = [stage |-> IF w.shutdown THEN "open" ELSE "closed", session |-> 0]
      /\ child = [s \in Proc |-> IF s <= spawned THEN "running" ELSE "none"]
  BY DEF ClientInit
<1>0. spawned \in {0, 1}
  OBVIOUS
<1>1. SessionTypes
  BY <1>0 DEF SessionTypes, Labels, ChildStates, ReaderStates
<1>2. Unspawned
  BY <1>0, ClientAssumption DEF Unspawned
<1>3. SessionUse
  BY DEF SessionUse, Making, Calling
<1> QED
  BY <1>1, <1>2, <1>3 DEF SessionInv

\* A caller that returns leaves the others as they are.
LEMMA ReturnUse ==
  ASSUME SessionTypes, SessionUse, NEW c \in Caller,
         pc' = [pc EXCEPT ![c] = "done"],
         slotLock' = IF slotLock = c THEN Nobody ELSE slotLock,
         session' = session, using' = using, \A s \in Proc : dead[s] => dead'[s]
  PROVE  SessionUse'
<1>1. \A d \in Caller : Making(d)' => d # c /\ Making(d) /\ slotLock' = slotLock
  BY DEF SessionTypes, SessionUse, Making
<1>2. \A d \in Caller : Calling(d)' => Calling(d)
  BY DEF SessionTypes, Calling
<1> QED
  BY <1>1, <1>2 DEF SessionUse

\* What a step does to the variables of SessionInv, one case for each way.
LEMMA SessionStep ==
  ASSUME SessionInv, [Next]_vars
  PROVE  SessionInv'
<1> USE DEF SessionInv
<1>a. ASSUME NEW c \in Caller, Begin(c) PROVE SessionInv'
  <2> USE <1>a DEF Begin, Goto, At, serverVars
  <2>1. pc' \in [Caller -> Labels] /\ pc'[c] \in {"done", "session"} /\ \A d \in Caller \ {c} : pc'[d] = pc[d]
    BY DEF SessionTypes, Labels
  <2>2. SessionTypes' /\ Unspawned'
    BY <2>1 DEF SessionTypes, Unspawned
  <2>3. SessionUse'
    BY <2>1 DEF SessionUse, Making, Calling
  <2> QED
    BY <2>2, <2>3
<1>b. ASSUME NEW c \in Caller, Reuse(c) PROVE SessionInv'
  <2> USE <1>b DEF Reuse, Goto, At, serverVars
  <2>0. session \in Proc
    BY DEF NoneAlive
  <2>1. /\ pc' = [pc EXCEPT ![c] = "register"] /\ pc' \in [Caller -> Labels]
        /\ using' = [using EXCEPT ![c] = session] /\ using' \in [Caller -> Proc \cup {0}]
    BY <2>0 DEF SessionTypes, Labels
  <2>2. SessionTypes'
    BY <2>1 DEF SessionTypes
  <2>3. Unspawned'
    BY <2>1 DEF SessionTypes, Unspawned
  <2>4. SessionUse'
    BY <2>0, <2>1, ClientAssumption DEF SessionTypes, SessionUse, Making, Calling
  <2> QED
    BY <2>2, <2>3, <2>4
<1>c. ASSUME NEW c \in Caller, Spawn(c) PROVE SessionInv'
  <2> DEFINE s == spawned + 1
  <2> USE <1>c DEF Spawn, Goto, At, MustSpawn, SpawnedSlot
  <2>1. /\ s \in Proc /\ s \in Nat /\ s > spawned /\ session' = 0 /\ slotLock' = c /\ spawned' = s
        /\ slotLock = Nobody /\ dead' = dead /\ closing' = closing
        /\ child' = [child EXCEPT ![s] = "running"] /\ reader' = [reader EXCEPT ![s] = "reading"]
        /\ pc' = [pc EXCEPT ![c] = "initialize"] /\ using' = [using EXCEPT ![c] = s]
    BY DEF SessionTypes
  <2>2. SessionTypes'
    BY <2>1 DEF SessionTypes, Labels, ChildStates, ReaderStates
  <2>3. Unspawned'
    <3>1. Proc \cup {0} \subseteq Nat
      BY ClientAssumption
    <3>2. \A d \in Caller : using[d] \in Nat
      BY <3>1 DEF SessionTypes
    <3>3. closing.session \in Nat
      BY <3>1 DEF SessionTypes
    <3> QED
      BY <2>1, <3>2, <3>3, ClientAssumption DEF SessionTypes, Unspawned
  <2>4. SessionUse'
    <3>1. \A d \in Caller : ~Making(d)
      BY <2>1, ClientAssumption DEF SessionUse
    <3>2. \A d \in Caller \ {c} : Calling(d) => using[d] \in Proc /\ dead[using[d]]
      BY <2>1 DEF SessionUse, NoneAlive
    <3> QED
      BY <2>1, <3>1, <3>2 DEF SessionTypes, SessionUse, Making, Calling
  <2> QED
    BY <2>2, <2>3, <2>4
<1>d. ASSUME NEW c \in Caller, SpawnFails(c) PROVE SessionInv'
  <2> USE <1>d DEF SpawnFails, Goto, At, MustSpawn
  <2>1. /\ session' = 0 /\ slotLock = Nobody /\ pc' = [pc EXCEPT ![c] = "done"]
        /\ UNCHANGED <<spawned, slotLock, dead, child, reader, using, closing>>
    OBVIOUS
  <2>2. SessionTypes'
    BY <2>1 DEF SessionTypes, Labels
  <2>3. Unspawned'
    BY <2>1 DEF SessionTypes, Unspawned
  <2>4. SessionUse'
    <3>1. \A d \in Caller : ~Making(d)
      BY <2>1, ClientAssumption DEF SessionUse
    <3>2. \A d \in Caller : Calling(d) => using[d] \in Proc /\ dead[using[d]]
      BY <2>1 DEF SessionUse, NoneAlive
    <3> QED
      BY <2>1, <3>1, <3>2 DEF SessionTypes, SessionUse, Making, Calling
  <2> QED
    BY <2>2, <2>3, <2>4
<1>e. ASSUME NEW c \in Caller, Register(c) PROVE SessionInv'
  <2>1. /\ At(c, "register") /\ pc' = [pc EXCEPT ![c] = "write"]
        /\ UNCHANGED <<session, slotLock, spawned, dead, child, reader, using, closing>>
    BY <1>e DEF Register, Goto, serverVars
  <2>2. SessionTypes'
    BY <2>1 DEF SessionTypes, Labels
  <2>3. Unspawned'
    BY <2>1 DEF Unspawned
  <2>4. SessionUse'
    BY <2>1 DEF SessionTypes, SessionUse, Making, Calling, At
  <2> QED
    BY <2>2, <2>3, <2>4
<1>f. ASSUME NEW c \in Caller, Written(c) PROVE SessionInv'
  <2> USE <1>f DEF Written, Goto, At, PutLine, Session, Writing
  <2>1. UNCHANGED <<spawned, dead, child, reader, using, closing>>
    OBVIOUS
  <2>2. CASE pc[c] = "initialized"
    <3>1. /\ session' = using[c] /\ slotLock' = Nobody /\ pc' = [pc EXCEPT ![c] = "register"]
          /\ using[c] \in Proc /\ session = 0 /\ slotLock = c
      BY <2>2 DEF SessionUse, Making
    <3>2. SessionTypes' /\ Unspawned'
      BY <2>1, <3>1 DEF SessionTypes, Labels, Unspawned
    <3>3. \A d \in Caller : d # c => ~Making(d) /\ (Calling(d) => using[d] \in Proc /\ dead[using[d]])
      BY <3>1, ClientAssumption DEF SessionUse
    <3> QED
      BY <2>1, <3>1, <3>2, <3>3 DEF SessionTypes, SessionUse, Making, Calling
  <2>3. CASE pc[c] # "initialized"
    <3>1. /\ UNCHANGED <<session, slotLock>>
          /\ \/ pc[c] = "initialize" /\ pc' = [pc EXCEPT ![c] = "handshake"]
             \/ pc[c] = "write" /\ \E l \in {"register", "await"} : pc' = [pc EXCEPT ![c] = l]
      BY <2>3
    <3>2. SessionTypes' /\ Unspawned'
      BY <2>1, <3>1 DEF SessionTypes, Labels, Unspawned
    <3>3. SessionUse'
      BY <2>1, <3>1 DEF SessionTypes, SessionUse, Making, Calling
    <3> QED
      BY <3>2, <3>3
  <2> QED
    BY <2>2, <2>3
<1>g. ASSUME NEW c \in Caller, WriteFails(c) PROVE SessionInv'
  <2>1. /\ Writing(c) /\ child[using[c]] # "running" /\ dead' = [dead EXCEPT ![using[c]] = TRUE]
        /\ pc' = [pc EXCEPT ![c] = "done"] /\ slotLock' = IF slotLock = c THEN Nobody ELSE slotLock
        /\ UNCHANGED <<session, spawned, child, reader, using, closing>>
    BY <1>g DEF WriteFails, Return, Goto, Session, serverVars
  <2>2. using[c] \in Proc /\ using[c] <= spawned
    BY <2>1 DEF Writing, SessionUse, Making, Calling, Unspawned
  <2>3. SessionTypes' /\ \A s \in Proc : dead[s] => dead'[s]
    BY <2>1 DEF SessionTypes, Labels
  <2>4. Unspawned'
    BY <2>1, <2>2, ClientAssumption DEF SessionTypes, Unspawned
  <2>5. SessionUse'
    BY <2>1, <2>3, ReturnUse
  <2> QED
    BY <2>3, <2>4, <2>5
<1>h. ASSUME NEW c \in Caller, Answered(c) PROVE SessionInv'
  <2> USE <1>h DEF Answered, Return, Goto, At, Awaiting
  <2>1. UNCHANGED <<session, spawned, dead, child, reader, using, closing>>
    BY DEF serverVars
  <2>2. \/ /\ pc' = [pc EXCEPT ![c] = "done"]
           /\ slotLock' = IF slotLock = c THEN Nobody ELSE slotLock
        \/ /\ pc[c] = "handshake" /\ pc' = [pc EXCEPT ![c] = "initialized"] /\ slotLock' = slotLock
        \/ /\ pc[c] = "await" /\ slotLock' = slotLock
           /\ \E l \in {"await", "start"} : pc' = [pc EXCEPT ![c] = l]
    OBVIOUS
  <2>3. SessionTypes' /\ Unspawned'
    <3>1. \E l \in Labels : pc' = [pc EXCEPT ![c] = l]
      BY <2>2 DEF Labels
    <3>2. pc' \in [Caller -> Labels]
      BY <3>1 DEF SessionTypes
    <3>3. SessionTypes'
      BY <2>1, <3>2 DEF SessionTypes
    <3>4. Unspawned'
      BY <2>1 DEF Unspawned
    <3> QED
      BY <3>3, <3>4
  <2>4. SessionUse'
    <3>1. CASE /\ pc' = [pc EXCEPT ![c] = "done"]
               /\ slotLock' = IF slotLock = c THEN Nobody ELSE slotLock
      BY <2>1, <3>1, ReturnUse
    <3>2. CASE pc[c] = "handshake" /\ pc' = [pc EXCEPT ![c] = "initialized"] /\ slotLock' = slotLock
      BY <2>1, <3>2 DEF SessionTypes, SessionUse, Making, Calling
    <3>3. CASE /\ pc[c] = "await" /\ slotLock' = slotLock
               /\ \E l \in {"await", "start"} : pc' = [pc EXCEPT ![c] = l]
      BY <2>1, <3>3 DEF SessionTypes, SessionUse, Making, Calling
    <3> QED
      BY <2>2, <3>1, <3>2, <3>3
  <2> QED
    BY <2>3, <2>4
<1>i. ASSUME NEW c \in Caller, TimedOut(c) \/ Dropped(c) PROVE SessionInv'
  <2>1. /\ pc' = [pc EXCEPT ![c] = "done"] /\ slotLock' = IF slotLock = c THEN Nobody ELSE slotLock
        /\ UNCHANGED <<session, spawned, dead, child, reader, using, closing>>
    BY <1>i DEF TimedOut, Dropped, Return, Goto, serverVars
  <2>2. SessionTypes' /\ Unspawned'
    BY <2>1 DEF SessionTypes, Labels, Unspawned
  <2>3. SessionUse'
    BY <2>1, ReturnUse
  <2> QED
    BY <2>2, <2>3
<1>j. ASSUME NEW s \in Proc, RouteLine(s) \/ Drain(s) PROVE SessionInv'
  <2>1. /\ reader[s] # "none"
        /\ reader' = reader \/ \E l \in {"answering", "ended"} : reader' = [reader EXCEPT ![s] = l]
        /\ UNCHANGED <<session, slotLock, spawned, dead, child, pc, using, closing>>
    BY <1>j DEF RouteLine, Drain, serverVars
  <2>2. SessionTypes' /\ Unspawned'
    BY <2>1 DEF SessionTypes, ReaderStates, Unspawned
  <2>3. SessionUse'
    BY <2>1 DEF SessionUse, Making, Calling
  <2> QED
    BY <2>2, <2>3
<1>k. ASSUME NEW s \in Proc, ReaderAnswers(s) \/ ReaderEnds(s) PROVE SessionInv'
  <2>1. /\ reader[s] # "none" /\ \E l \in {"reading", "draining"} : reader' = [reader EXCEPT ![s] = l]
        /\ dead' = dead \/ dead' = [dead EXCEPT ![s] = TRUE]
        /\ UNCHANGED <<session, slotLock, spawned, child, pc, using, closing>>
    BY <1>k DEF ReaderAnswers, ReaderEnds, PutLine, serverVars
  <2>2. SessionTypes' /\ \A t \in Proc : dead[t] => dead'[t]
    BY <2>1 DEF SessionTypes, ReaderStates
  <2>3. Unspawned'
    BY <2>1 DEF SessionTypes, Unspawned
  <2>4. SessionUse'
    BY <2>1, <2>2 DEF SessionUse, Making, Calling
  <2> QED
    BY <2>2, <2>3, <2>4
<1>l. CASE Shutdown
  <2>1. /\ closing.stage = "open" /\ slotLock = Nobody /\ session \in Proc /\ session' = 0
        /\ dead' = [dead EXCEPT ![session] = TRUE]
        /\ closing' = [stage |-> "grace", session |-> session]
        /\ UNCHANGED <<slotLock, spawned, child, reader, pc, using>>
    BY <1>l DEF Shutdown, serverVars, SessionTypes
  <2>2. SessionTypes'
    BY <2>1 DEF SessionTypes
  <2>3. Unspawned'
    BY <2>1, ClientAssumption DEF SessionTypes, Unspawned
  <2>4. SessionUse'
    <3>1. \A d \in Caller : ~Making(d)'
      BY <2>1, ClientAssumption DEF SessionUse, Making
    <3>2. \A d \in Caller : Calling(d)' => using[d] \in Proc /\ dead'[using[d]]
      BY <2>1 DEF SessionUse, SessionTypes, Calling
    <3> QED
      BY <2>1, <3>1, <3>2 DEF SessionUse
  <2> QED
    BY <2>2, <2>3, <2>4
<1>m. CASE GraceEnds
  <2> DEFINE t == closing.session
  <2>1. /\ closing.stage = "grace" /\ closing' = [closing EXCEPT !.stage = "closed"]
        /\ child' = [child EXCEPT ![t] = IF @ \in {"exited", "served"} THEN @ ELSE "exited"]
        /\ UNCHANGED <<session, slotLock, spawned, dead, reader, pc, using>>
    BY <1>m DEF GraceEnds
  <2>2. SessionTypes'
    BY <2>1 DEF SessionTypes, ChildStates
  <2>3. Unspawned'
    <3>1. \A s \in Proc : s > spawned => s # t
      BY ClientAssumption DEF SessionTypes, Unspawned
    <3>2. closing'.session = closing.session
      BY <2>1 DEF SessionTypes
    <3>3. \A s \in Proc : s # t => child'[s] = child[s]
      BY <2>1 DEF SessionTypes
    <3> QED
      BY <2>1, <3>1, <3>2, <3>3 DEF Unspawned
  <2>4. SessionUse'
    BY <2>1 DEF SessionUse, Making, Calling
  <2> QED
    BY <2>2, <2>3, <2>4
<1>n. ASSUME NEW s \in Proc, SessionDropped(s) \/ ((ServerStep(s) \/ ServerFault(s)) /\ UNCHANGED clientVars)
      PROVE  SessionInv'
  <2>1. /\ UNCHANGED <<session, slotLock, spawned, dead, reader, pc, using, closing>>
        /\ child[s] # "none" \/ reader[s] # "none"
        /\ child' = child \/ \E l \in {"closing", "exited", "served"} : child' = [child EXCEPT ![s] = l]
    BY <1>n DEF SessionDropped, ServerStep, ServerFault, ReadLine, WriteLine, ServeEnds, Dead, Handle,
                Misbehave, Dies, HandlerPanics, clientVars
  <2>2. SessionTypes'
    BY <2>1 DEF SessionTypes, ChildStates
  <2>3. Unspawned'
    BY <2>1 DEF SessionTypes, Unspawned
  <2>4. SessionUse'
    BY <2>1 DEF SessionUse, Making, Calling
  <2> QED
    BY <2>2, <2>3, <2>4
<1>o. CASE (\E c \in Caller : LockStdin(c)) \/ (\E s \in Proc : ReaderLocks(s) \/ OutputRead(s))
           \/ AllEnded \/ UNCHANGED vars
  <2>1. UNCHANGED <<session, slotLock, spawned, dead, child, reader, pc, using, closing>>
    BY <1>o DEF LockStdin, ReaderLocks, OutputRead, AllEnded, vars, serverVars, clientVars
  <2> QED
    BY <2>1 DEF SessionTypes, Unspawned, SessionUse, Making, Calling
<1> QED
  BY <1>a, <1>b, <1>c, <1>d, <1>e, <1>f, <1>g, <1>h, <1>i, <1>j, <1>k, <1>l, <1>m, <1>n, <1>o
  DEF Next, CallerStep, ReaderStep

\* Every reachable state satisfies SessionInv.
THEOREM SessionTheorem == ClientSpec => []SessionInv
<1>1. SessionInv /\ [Next]_vars => SessionInv'
  BY SessionStep
<1> QED
  BY <1>1, SessionInit, PTL DEF ClientSpec

\* stdio.rs:5-6, the session mutex guards respawning: of the sessions that
\* calls are made on, one at most is alive.
THEOREM OneSessionTheorem == ClientSpec => []OneLiveSession
<1>1. SessionInv => OneLiveSession
  <2> SUFFICES ASSUME SessionInv, NEW s \in Proc, NEW t \in Proc, s # t, Shared(s), Shared(t)
               PROVE  dead[s] \/ dead[t]
    BY DEF OneLiveSession
  <2>1. \A u \in Proc : Shared(u) => u = session \/ dead[u]
    BY DEF SessionInv, SessionUse, Calling, Shared, Session
  <2> QED
    BY <2>1
<1> QED
  BY <1>1, SessionTheorem, PTL

----------------------------------------------------------------------------
(* Answers reach the callers they are for.                                 *)

Kinds == {"initialize", "initialized", "call", "garbled", "answer", "result", "tool_error", "version",
          "bad_version", "error", "no_result", "parse_error", "noise", "not_text", "request", "closed"}
Lines == [kind : Kinds, id : Nat, call : (Caller \X Nat) \cup {NoCall}]

\* An id is handed out once: to one call of one caller, or to the handshake
\* of one session.
IdInv ==
  /\ nextId \in Nat /\ nextId <= MaxId
  /\ ids \in [Caller -> Seq(Nat)] /\ initId \in [Proc -> Nat]
  /\ \A c \in Caller : \A i \in DOMAIN ids[c] : ids[c][i] > 0 /\ ids[c][i] <= nextId
  /\ \A c, d \in Caller : \A i \in DOMAIN ids[c] : \A j \in DOMAIN ids[d] :
       ids[c][i] = ids[d][j] => c = d /\ i = j
  /\ \A s \in Proc : initId[s] <= nextId
  /\ \A s \in Proc : \A c \in Caller : \A i \in DOMAIN ids[c] : initId[s] # ids[c][i]

\* A line is about the call that has its id, or about no call at all.
AboutCall(m) == \E c \in Caller : \E i \in DOMAIN ids[c] : m.call = <<c, i>> /\ m.id = ids[c][i]
AboutNone(m) == m.id <= nextId /\ \A c \in Caller : \A i \in DOMAIN ids[c] : m.id # ids[c][i]

\* What is asked of a server, and what a server tells.
Asked == {m \in Lines : \/ m.kind = "call" /\ AboutCall(m)
                        \/ m.kind = "initialize" /\ AboutNone(m)
                        \/ m.kind \in {"initialized", "garbled", "not_text", "answer"}}
Told == {m \in Lines : \/ m.kind \in {"result", "tool_error"} /\ AboutCall(m)
                       \/ m.kind \in {"version", "bad_version"} /\ AboutNone(m)
                       \/ m.kind \in {"error", "no_result"}
                       \/ m.kind \in {"parse_error", "noise", "not_text", "request"}}

LEMMA IdInitial == ClientInit => IdInv
<1> SUFFICES ASSUME ClientInit PROVE IdInv
  OBVIOUS
<1>1. nextId = 0 /\ ids = [c \in Caller |-> <<>>] /\ initId = [s \in Proc |-> 0]
  BY DEF ClientInit
<1> QED
  BY <1>1, ClientAssumption DEF IdInv

\* A caller takes the next id.
Taken(c) ==
  /\ nextId < MaxId /\ nextId' = nextId + 1 /\ ids' = [ids EXCEPT ![c] = Append(@, nextId + 1)]
  /\ initId' = initId

LEMMA IdCases ==
  ASSUME [Next]_vars
  PROVE  \/ UNCHANGED <<nextId, ids, initId>>
         \/ \E c \in Caller : Taken(c)
         \/ \E s \in Proc : /\ nextId < MaxId /\ nextId' = nextId + 1 /\ ids' = ids
                            /\ initId' = [initId EXCEPT ![s] = nextId + 1]
<1>1. ASSUME NEW c \in Caller, CallerStep(c) \/ SpawnFails(c) \/ Dropped(c)
      PROVE  \/ UNCHANGED <<nextId, ids, initId>> \/ Taken(c)
             \/ \E s \in Proc : /\ nextId < MaxId /\ nextId' = nextId + 1 /\ ids' = ids
                                /\ initId' = [initId EXCEPT ![s] = nextId + 1]
  <2>1. CASE Begin(c) \/ Register(c)
    BY <2>1 DEF Begin, Register, Taken
  <2>2. CASE Spawn(c)
    BY <2>2 DEF Spawn
  <2>3. CASE Reuse(c) \/ LockStdin(c) \/ Written(c) \/ WriteFails(c) \/ Answered(c)
    BY <2>3 DEF Reuse, LockStdin, Written, WriteFails, Answered
  <2>4. CASE TimedOut(c) \/ SpawnFails(c) \/ Dropped(c)
    BY <2>4 DEF TimedOut, SpawnFails, Dropped
  <2> QED
    BY <1>1, <2>1, <2>2, <2>3, <2>4 DEF CallerStep
<1>2. ASSUME NEW s \in Proc, ReaderStep(s) \/ UNCHANGED clientVars
      PROVE  UNCHANGED <<nextId, ids, initId>>
  BY <1>2 DEF ReaderStep, RouteLine, ReaderLocks, ReaderAnswers, ReaderEnds, Drain, SessionDropped,
              OutputRead, clientVars
<1>3. CASE Shutdown \/ GraceEnds \/ AllEnded \/ UNCHANGED vars
  BY <1>3 DEF Shutdown, GraceEnds, AllEnded, vars, clientVars
<1> QED
  BY <1>1, <1>2, <1>3 DEF Next

\* Whatever a line was about it is about in the next state.
LEMMA IdStep ==
  ASSUME IdInv, [Next]_vars
  PROVE  IdInv' /\ Asked \subseteq Asked' /\ Told \subseteq Told'
<1>0. \A d, e \in Caller : \A i \in DOMAIN ids[d] : \A j \in DOMAIN ids[e] :
        ids[d][i] = ids[e][j] => d = e /\ i = j
  BY Zenon DEF IdInv
<1>1. CASE UNCHANGED <<nextId, ids, initId>>
  BY <1>1 DEF IdInv, Asked, Told, AboutCall, AboutNone
<1>2. ASSUME NEW c \in Caller, Taken(c)
      PROVE  IdInv' /\ Asked \subseteq Asked' /\ Told \subseteq Told'
  <2> DEFINE n == Len(ids[c]) + 1
  <2>0. nextId + 1 \in Nat /\ nextId < nextId + 1 /\ ids[c] \in Seq(Nat) /\ n \in Nat
    BY DEF IdInv
  <2>1. /\ ids' \in [Caller -> Seq(Nat)] /\ nextId' = nextId + 1
        /\ \A d \in Caller \ {c} : ids'[d] = ids[d]
        /\ DOMAIN ids'[c] = DOMAIN ids[c] \cup {n} /\ n \notin DOMAIN ids[c]
        /\ ids'[c][n] = nextId + 1 /\ \A i \in DOMAIN ids[c] : ids'[c][i] = ids[c][i]
    <3>1. ids'[c] = Append(ids[c], nextId + 1) /\ \A d \in Caller \ {c} : ids'[d] = ids[d]
      BY <1>2 DEF Taken, IdInv
    <3>2. ids' \in [Caller -> Seq(Nat)]
      BY <1>2, <2>0 DEF Taken, IdInv
    <3> QED
      BY <1>2, <2>0, <3>1, <3>2 DEF Taken
  <2>2. \A d \in Caller : \A i \in DOMAIN ids[d] : i \in DOMAIN ids'[d] /\ ids'[d][i] = ids[d][i]
    BY <2>1
  <2>3. \A d \in Caller : \A i \in DOMAIN ids'[d] :
          \/ i \in DOMAIN ids[d] /\ ids'[d][i] = ids[d][i] /\ ids[d][i] <= nextId /\ ids[d][i] \in Nat
          \/ d = c /\ i = n /\ ids'[d][i] = nextId + 1
    BY <2>1 DEF IdInv
  <2>4. nextId' \in Nat /\ nextId' <= MaxId /\ initId' = initId
    BY <1>2, <2>0, ClientAssumption DEF Taken, IdInv
  <2>5. \A d \in Caller : \A i \in DOMAIN ids'[d] : ids'[d][i] > 0 /\ ids'[d][i] <= nextId'
    <3> SUFFICES ASSUME NEW d \in Caller, NEW i \in DOMAIN ids'[d]
                 PROVE  ids'[d][i] > 0 /\ ids'[d][i] <= nextId'
      OBVIOUS
    <3>1. CASE i \in DOMAIN ids[d] /\ ids'[d][i] = ids[d][i] /\ ids[d][i] <= nextId /\ ids[d][i] \in Nat
      BY <2>0, <2>1, <3>1 DEF IdInv
    <3>2. CASE ids'[d][i] = nextId + 1
      BY <2>0, <2>1, <3>2 DEF IdInv
    <3> QED
      BY <2>3, <3>1, <3>2
  <2>6. \A d, e \in Caller : \A i \in DOMAIN ids'[d] : \A j \in DOMAIN ids'[e] :
          ids'[d][i] = ids'[e][j] => d = e /\ i = j
    <3> SUFFICES ASSUME NEW d \in Caller, NEW e \in Caller, NEW i \in DOMAIN ids'[d],
                        NEW j \in DOMAIN ids'[e], ids'[d][i] = ids'[e][j]
                 PROVE  d = e /\ i = j
      OBVIOUS
    <3>1. ~(nextId + 1 <= nextId)
      BY <2>0 DEF IdInv
    <3>2. CASE ids'[d][i] = nextId + 1
      BY <2>3, <3>1, <3>2
    <3>3. CASE ids'[d][i] # nextId + 1
      <4>1. i \in DOMAIN ids[d] /\ ids'[d][i] = ids[d][i]
        BY <2>3, <3>3
      <4>2. j \in DOMAIN ids[e] /\ ids'[e][j] = ids[e][j]
        BY <2>3, <3>3
      <4>3. ids[d][i] = ids[e][j]
        BY <4>1, <4>2
      <4>4. ids[d][i] = ids[e][j] => d = e /\ i = j
        BY <1>0, <4>1, <4>2
      <4> QED
        BY <4>3, <4>4
    <3> QED
      BY <3>2, <3>3
  <2>7. \A m \in Nat : m <= nextId => m <= nextId' /\ m # nextId + 1
    BY <2>0, <2>1 DEF IdInv
  <2>8. IdInv'
    <3>1. \A s \in Proc : initId'[s] <= nextId'
      BY <2>4, <2>7 DEF IdInv
    <3>2. \A s \in Proc : \A d \in Caller : \A i \in DOMAIN ids'[d] : initId'[s] # ids'[d][i]
      <4> SUFFICES ASSUME NEW s \in Proc, NEW d \in Caller, NEW i \in DOMAIN ids'[d]
                   PROVE  initId[s] # ids'[d][i]
        BY <2>4
      <4>1. initId[s] \in Nat /\ initId[s] <= nextId /\ initId[s] # nextId + 1
        BY <2>7 DEF IdInv
      <4>2. i \in DOMAIN ids[d] => initId[s] # ids[d][i]
        BY DEF IdInv
      <4> QED
        BY <2>3, <4>1, <4>2
    <3> QED
      BY <2>1, <2>4, <2>5, <2>6, <3>1, <3>2 DEF IdInv
  <2>9. \A m \in Lines : (AboutCall(m) => AboutCall(m)') /\ (AboutNone(m) => AboutNone(m)')
    <3> SUFFICES ASSUME NEW m \in Lines
                 PROVE  (AboutCall(m) => AboutCall(m)') /\ (AboutNone(m) => AboutNone(m)')
      OBVIOUS
    <3>1. m.id \in Nat
      BY DEF Lines
    <3>2. AboutCall(m) => AboutCall(m)'
      BY <2>2 DEF AboutCall
    <3>3. AboutNone(m) => AboutNone(m)'
      BY <2>3, <2>7, <3>1 DEF AboutNone
    <3> QED
      BY <3>2, <3>3
  <2> QED
    BY <2>8, <2>9 DEF Asked, Told
<1>3. ASSUME NEW s \in Proc, nextId < MaxId, nextId' = nextId + 1, ids' = ids,
             initId' = [initId EXCEPT ![s] = nextId + 1]
      PROVE  IdInv' /\ Asked \subseteq Asked' /\ Told \subseteq Told'
  <2>1. nextId' \in Nat /\ nextId' <= MaxId /\ nextId <= nextId' /\ nextId' # nextId
    BY <1>3, ClientAssumption DEF IdInv
  <2>2. \A m \in Nat : m <= nextId => m <= nextId' /\ m # nextId + 1
    BY <2>1, <1>3 DEF IdInv
  <2>3. /\ initId' \in [Proc -> Nat] /\ initId'[s] = nextId + 1
        /\ \A t \in Proc : t # s => initId'[t] = initId[t]
    BY <1>3, <2>1 DEF IdInv
  <2>4. \A t \in Proc : initId'[t] <= nextId'
    BY <1>3, <2>1, <2>2, <2>3 DEF IdInv
  <2>5. \A c \in Caller : \A i \in DOMAIN ids[c] : ids[c][i] \in Nat
    BY DEF IdInv
  <2>6. IdInv'
    BY <1>3, <2>1, <2>2, <2>3, <2>4, <2>5 DEF IdInv
  <2>7. \A m \in Lines : (AboutCall(m) => AboutCall(m)') /\ (AboutNone(m) => AboutNone(m)')
    <3>1. \A m \in Lines : m.id \in Nat
      BY DEF Lines
    <3> QED
      BY <1>3, <2>2, <3>1 DEF AboutCall, AboutNone
  <2> QED
    BY <2>6, <2>7 DEF Asked, Told
<1> QED
  BY <1>1, <1>2, <1>3, IdCases

OnProc(f) == f = [s \in Proc |-> f[s]]

PipesTyped ==
  /\ OnProc(stdin) /\ OnProc(taken) /\ OnProc(tasks)
  /\ OnProc(channel) /\ OnProc(stdout) /\ OnProc(replied)

Blank(s) ==
  /\ stdin[s] = <<>> /\ taken[s] = <<>> /\ tasks[s] = {}
  /\ channel[s] = <<>> /\ stdout[s] = <<>> /\ replied[s] = <<>>

\* What is under way between a session and its server.
PipesOf(s) ==
  /\ stdin[s] \in Seq(Asked) /\ taken[s] \in Seq(Asked)
  /\ \A i \in tasks[s] : i \in DOMAIN taken[s] /\ taken[s][i].kind \in Asks
  /\ channel[s] \in Seq(Told) /\ stdout[s] \in Seq(Told) /\ replied[s] \in Seq(Told)

PipeInv ==
  /\ PipesTyped
  /\ \A s \in Proc : s > spawned => Blank(s)
  /\ \A s \in Proc : reader[s] # "none" => PipesOf(s)

\* What is sent to no slot.
Unrouted == {"request", "noise", "not_text", "parse_error"}

\* A slot holds an answer with its own id, or the news that the session is
\* closed.
MailInv ==
  /\ mail = [i \in 1..MaxId |-> mail[i]]
  /\ \A i \in 1..MaxId : mail[i] # Nothing =>
       \/ mail[i].kind = "closed"
       \/ mail[i] \in Told /\ mail[i].id = i /\ mail[i].kind \notin Unrouted

LEMMA PipeInit == ClientInit => PipeInv /\ MailInv
<1> SUFFICES ASSUME ClientInit PROVE PipeInv /\ MailInv
  OBVIOUS
<1> PICK w \in Workloads :
      /\ spawned = IF w.script = <<>> THEN 0 ELSE 1
      /\ mail = [i \in 1..MaxId |-> Nothing] /\ reader = [s \in Proc |-> "none"]
      /\ stdin = [s \in Proc |-> IF s = 1 THEN w.script ELSE <<>>]
      /\ stdout = [s \in Proc |-> <<>>] /\ tasks = [s \in Proc |-> {}]
      /\ channel = [s \in Proc |-> <<>>] /\ replied = [s \in Proc |-> <<>>]
      /\ taken = [s \in Proc |-> <<>>]
  BY DEF ClientInit
<1>1. PipesTyped
  BY DEF PipesTyped, OnProc
<1>2. \A s \in Proc : s > spawned => Blank(s)
  BY ClientAssumption DEF Blank
<1>3. \A s \in Proc : reader[s] # "none" => PipesOf(s)
  OBVIOUS
<1>4. MailInv
  BY DEF MailInv
<1> QED
  BY <1>1, <1>2, <1>3, <1>4 DEF PipeInv

LEMMA SeqMono ==
  ASSUME NEW A, NEW B, A \subseteq B, NEW q \in Seq(A)
  PROVE  q \in Seq(B)
OBVIOUS

\* A step that leaves the pipes of a session alone.
LEMMA PipesKept ==
  ASSUME NEW s \in Proc, PipesOf(s), Asked \subseteq Asked', Told \subseteq Told',
         stdin'[s] = stdin[s], taken'[s] = taken[s], tasks'[s] = tasks[s],
         channel'[s] = channel[s], stdout'[s] = stdout[s], replied'[s] = replied[s]
  PROVE  PipesOf(s)'
<1>1. stdin'[s] \in Seq(Asked') /\ taken'[s] \in Seq(Asked')
  BY SeqMono DEF PipesOf
<1>2. channel'[s] \in Seq(Told') /\ stdout'[s] \in Seq(Told') /\ replied'[s] \in Seq(Told')
  BY SeqMono DEF PipesOf
<1>3. \A i \in tasks'[s] : i \in DOMAIN taken'[s] /\ taken'[s][i].kind \in Asks
  BY DEF PipesOf
<1> QED
  BY <1>1, <1>2, <1>3 DEF PipesOf

\* A step that changes the pipes of one session.
LEMMA PipesAt ==
  ASSUME PipeInv, Asked \subseteq Asked', Told \subseteq Told', NEW s \in Proc,
         PipesTyped', spawned' = spawned, ~(s > spawned),
         \A t \in Proc : reader[t] = "none" => reader'[t] = "none",
         \A t \in Proc \ {s} :
           /\ stdin'[t] = stdin[t] /\ taken'[t] = taken[t] /\ tasks'[t] = tasks[t]
           /\ channel'[t] = channel[t] /\ stdout'[t] = stdout[t] /\ replied'[t] = replied[t],
         reader[s] # "none" => PipesOf(s)'
  PROVE  PipeInv'
<1>1. \A t \in Proc : t > spawned' => Blank(t)'
  BY DEF PipeInv, Blank
<1>2. \A t \in Proc : reader'[t] # "none" => PipesOf(t)'
  BY PipesKept DEF PipeInv
<1> QED
  BY <1>1, <1>2 DEF PipeInv

LEMMA PipesSame ==
  ASSUME PipeInv, Asked \subseteq Asked', Told \subseteq Told', spawned' = spawned,
         \A t \in Proc : reader[t] = "none" => reader'[t] = "none",
         UNCHANGED <<stdin, taken, tasks, channel, stdout, replied>>
  PROVE  PipeInv'
<1>1. PipesTyped' /\ \A t \in Proc : t > spawned' => Blank(t)'
  BY DEF PipeInv, Blank, PipesTyped, OnProc
<1>2. \A t \in Proc : reader'[t] # "none" => PipesOf(t)'
  BY PipesKept DEF PipeInv
<1> QED
  BY <1>1, <1>2 DEF PipeInv

\* What handle_line says of a line is told of it.
LEMMA ResponsesTold ==
  ASSUME NEW m \in Asked, m.kind \in Asks, NEW r \in Responses(m)
  PROVE  r \in Told
<1>1. m \in Lines /\ m.id \in Nat /\ m.call \in (Caller \X Nat) \cup {NoCall}
  BY DEF Asked, Lines
<1>2. CASE m.kind = "garbled"
  <2>1. r = Line("parse_error", 0, NoCall)
    BY <1>2 DEF Responses
  <2> QED
    BY <2>1 DEF Told, Line, Lines, Kinds
<1>3. CASE m.kind = "initialize"
  <2>1. r = Line("version", m.id, NoCall)
    BY <1>3 DEF Responses
  <2>2. r \in Lines /\ r.kind = "version" /\ r.id = m.id
    BY <1>1, <2>1 DEF Line, Lines, Kinds
  <2> QED
    BY <1>3, <2>2 DEF Told, Asked, AboutNone
<1>4. CASE m.kind = "call"
  <2>1. \E k \in {"result", "tool_error"} : r = Line(k, m.id, m.call)
    BY <1>4 DEF Responses, CallTool
  <2>2. r \in Lines /\ r.kind \in {"result", "tool_error"} /\ r.id = m.id /\ r.call = m.call
    BY <1>1, <2>1 DEF Line, Lines, Kinds
  <2> QED
    BY <1>4, <2>2 DEF Told, Asked, AboutCall
<1>5. CASE m.kind = "answer"
  <2>1. r = Line("error", m.id, NoCall)
    BY <1>5 DEF Responses
  <2> QED
    BY <1>1, <2>1 DEF Told, Line, Lines, Kinds
<1> QED
  BY <1>2, <1>3, <1>4, <1>5 DEF Asks

LEMMA UnaskedTold ==
  ASSUME NEW s \in Proc, PipesOf(s), IdInv, NEW r \in Unasked(s)
  PROVE  r \in Told
<1>1. CASE r \in {Line("noise", 0, NoCall), Line("not_text", 0, NoCall), Line("request", 1, NoCall)}
  BY <1>1 DEF Told, Line, Lines, Kinds
<1>2. CASE \E i \in DOMAIN replied[s] : r = replied[s][i]
  BY <1>2 DEF PipesOf
<1>3. ASSUME NEW i \in tasks[s], taken[s][i].kind = "initialize",
             r = Line("bad_version", taken[s][i].id, NoCall)
      PROVE  r \in Told
  <2> DEFINE m == taken[s][i]
  <2>0. m \in Asked
    BY DEF PipesOf
  <2>1. m \in Asked /\ m.id \in Nat
    BY <2>0 DEF Asked, Lines
  <2>2. r \in Lines /\ r.kind = "bad_version" /\ r.id = m.id
    BY <1>3, <2>1 DEF Line, Lines, Kinds
  <2> QED
    BY <1>3, <2>1, <2>2 DEF Told, Asked, AboutNone
<1>4. ASSUME NEW i \in tasks[s], NEW kind \in {"error", "no_result"},
             r = Line(kind, taken[s][i].id, taken[s][i].call)
      PROVE  r \in Told
  <2>1. taken[s][i] \in Asked
    BY DEF PipesOf
  <2>2. taken[s][i].id \in Nat /\ taken[s][i].call \in (Caller \X Nat) \cup {NoCall}
    BY <2>1 DEF Asked, Lines
  <2> QED
    BY <1>4, <2>2 DEF Told, Line, Lines, Kinds
<1> QED
  BY <1>1, <1>2, <1>3, <1>4 DEF Unasked

\* How many ids and answers a caller has.
Counted(c) ==
  /\ pc[c] # "done" => Len(got[c]) < work[c].calls
  /\ work[c].pipelined =>
       /\ pc[c] = "await" => work[c].calls <= Len(ids[c])
       /\ pc[c] = "write" => 0 < Len(ids[c])
  /\ ~work[c].pipelined =>
       /\ pc[c] = "start" => Len(ids[c]) = Len(got[c])
       /\ pc[c] \in Labels \ {"start", "done"} => Len(ids[c]) = Len(got[c]) + 1

CallInv ==
  /\ work \in [Caller -> Job] /\ got \in [Caller -> Seq(Lines)]
  /\ \A c \in Caller : Counted(c)
  /\ OwnAnswers

AnswerInv == IdInv /\ PipeInv /\ MailInv /\ CallInv

LEMMA AnswerInit == ClientInit => AnswerInv
<1> SUFFICES ASSUME ClientInit PROVE AnswerInv
  OBVIOUS
<1> PICK w \in Workloads :
      /\ work = w.work /\ ids = [c \in Caller |-> <<>>] /\ got = [c \in Caller |-> <<>>]
      /\ pc = [c \in Caller |-> IF w.work[c].calls = 0 THEN "done" ELSE "start"]
  BY DEF ClientInit
<1>1. work \in [Caller -> Job]
  BY ClientAssumption
<1>2. \A c \in Caller : work[c].calls \in Nat
  BY <1>1 DEF Job
<1>3. \A c \in Caller : Counted(c)
  BY <1>2 DEF Counted
<1>4. got \in [Caller -> Seq(Lines)] /\ OwnAnswers
  BY DEF OwnAnswers
<1> QED
  BY <1>1, <1>3, <1>4, IdInitial, PipeInit DEF AnswerInv, CallInv

\* A server handles what it reads, and says what it was asked for.
LEMMA ServerPipes ==
  ASSUME SessionInv, AnswerInv, Asked \subseteq Asked', Told \subseteq Told', NEW s \in Proc,
         ServerStep(s) \/ ServerFault(s), UNCHANGED clientVars
  PROVE  PipeInv'
<1> USE DEF AnswerInv
<1>0. spawned' = spawned /\ reader' = reader /\ Asked' = Asked /\ Told' = Told
  BY DEF clientVars, Asked, Told, AboutCall, AboutNone
<1>1. child[s] # "none" /\ ~(s > spawned)
  <2>1. child[s] # "none"
    BY DEF ServerStep, ServerFault, ReadLine, WriteLine, ServeEnds, Dead, Handle, Misbehave, Dies,
           HandlerPanics
  <2> QED
    BY <2>1 DEF SessionInv, Unspawned
<1>2. CASE ServeEnds(s) \/ Dead(s) \/ Dies(s)
  <2>1. UNCHANGED <<stdin, taken, tasks, channel, stdout, replied>>
    BY <1>2 DEF ServeEnds, Dead, Dies
  <2> QED
    BY <1>0, <2>1, PipesSame
<1>3. CASE ReadLine(s)
  <2>1. /\ stdin[s] # <<>> /\ stdin' = [stdin EXCEPT ![s] = Tail(@)]
        /\ taken' = [taken EXCEPT ![s] = Append(@, Head(stdin[s]))]
        /\ tasks' = IF Head(stdin[s]).kind \in Asks
                    THEN [tasks EXCEPT ![s] = @ \cup {Len(taken[s]) + 1}] ELSE tasks
        /\ UNCHANGED <<channel, stdout, replied>>
    BY <1>3 DEF ReadLine
  <2>2. /\ OnProc(stdin)' /\ OnProc(taken)' /\ OnProc(tasks)'
        /\ stdin'[s] = Tail(stdin[s]) /\ taken'[s] = Append(taken[s], Head(stdin[s]))
        /\ \A t \in Proc \ {s} : stdin'[t] = stdin[t] /\ taken'[t] = taken[t] /\ tasks'[t] = tasks[t]
    BY <2>1 DEF PipeInv, PipesTyped, OnProc
  <2>3. tasks'[s] = tasks[s] \/ ( /\ Head(stdin[s]).kind \in Asks
                                 /\ tasks'[s] = tasks[s] \cup {Len(taken[s]) + 1})
    BY <2>1 DEF PipeInv, PipesTyped, OnProc
  <2>4. PipesTyped'
    BY <2>1, <2>2 DEF PipeInv, PipesTyped, OnProc
  <2>5. ASSUME PipesOf(s) PROVE PipesOf(s)'
    <3>1. Head(stdin[s]) \in Asked /\ Tail(stdin[s]) \in Seq(Asked)
      BY <2>1, <2>5 DEF PipesOf
    <3>2. stdin'[s] \in Seq(Asked) /\ taken'[s] \in Seq(Asked)
      BY <2>2, <2>5, <3>1 DEF PipesOf
    <3>3. \A i \in tasks'[s] : i \in DOMAIN taken'[s] /\ taken'[s][i].kind \in Asks
      <4>1. /\ taken[s] \in Seq(Asked) /\ \A i \in tasks[s] : i \in DOMAIN taken[s] /\ taken[s][i].kind \in Asks
        BY <2>5 DEF PipesOf
      <4> QED
        BY <2>2, <2>3, <3>1, <4>1
    <3> QED
      BY <1>0, <2>1, <2>5, <3>2, <3>3 DEF PipesOf
  <2> QED
    BY <1>0, <1>1, <2>1, <2>2, <2>4, <2>5, PipesAt DEF PipeInv
<1>4. ASSUME NEW i \in tasks[s], NEW r, channel' = [channel EXCEPT ![s] = Append(@, r)],
             tasks' = tasks \/ tasks' = [tasks EXCEPT ![s] = @ \ {i}],
             UNCHANGED <<stdin, taken, stdout, replied>>, PipesOf(s) => r \in Told
      PROVE  PipeInv'
  <2>1. /\ OnProc(channel)' /\ OnProc(tasks)' /\ channel'[s] = Append(channel[s], r)
        /\ tasks'[s] \subseteq tasks[s]
        /\ \A t \in Proc \ {s} : channel'[t] = channel[t] /\ tasks'[t] = tasks[t]
    <3>1. /\ OnProc(channel)' /\ channel'[s] = Append(channel[s], r)
          /\ \A t \in Proc \ {s} : channel'[t] = channel[t]
      BY <1>4 DEF PipeInv, PipesTyped, OnProc
    <3>2. CASE tasks' = tasks
      BY <3>1, <3>2 DEF PipeInv, PipesTyped, OnProc
    <3>3. CASE tasks' = [tasks EXCEPT ![s] = @ \ {i}]
      <4>1. OnProc(tasks)' /\ tasks'[s] = tasks[s] \ {i} /\ \A t \in Proc \ {s} : tasks'[t] = tasks[t]
        BY <3>3 DEF PipeInv, PipesTyped, OnProc
      <4> QED
        BY <3>1, <4>1
    <3> QED
      BY <1>4, <3>2, <3>3
  <2>2. PipesTyped'
    BY <1>4, <2>1 DEF PipeInv, PipesTyped, OnProc
  <2>3. PipesOf(s) => PipesOf(s)'
    BY <1>0, <1>4, <2>1 DEF PipesOf
  <2> QED
    BY <1>0, <1>1, <1>4, <2>1, <2>2, <2>3, PipesAt DEF PipeInv
<1>5. ASSUME NEW i \in tasks[s], Handle(s, i) PROVE PipeInv'
  <2>1. PICK r \in Responses(taken[s][i]) : channel' = [channel EXCEPT ![s] = Append(@, r)]
    BY <1>5 DEF Handle
  <2>2. PipesOf(s) => r \in Told
    BY ResponsesTold DEF PipesOf
  <2> QED
    BY <1>4, <1>5, <2>1, <2>2 DEF Handle
<1>6. ASSUME Misbehave(s) PROVE PipeInv'
  <2>1. PICK r \in Unasked(s) : channel' = [channel EXCEPT ![s] = Append(@, r)]
    BY <1>6 DEF Misbehave
  <2>2. PipesOf(s) => r \in Told
    BY UnaskedTold
  <2>3. UNCHANGED <<stdin, taken, tasks, stdout, replied>>
    BY <1>6 DEF Misbehave
  <2>4. /\ OnProc(channel)' /\ channel'[s] = Append(channel[s], r)
        /\ \A t \in Proc \ {s} : channel'[t] = channel[t]
    BY <2>1 DEF PipeInv, PipesTyped, OnProc
  <2>5. PipesTyped'
    BY <2>3, <2>4 DEF PipeInv, PipesTyped, OnProc
  <2>6. PipesOf(s) => PipesOf(s)'
    BY <1>0, <2>2, <2>3, <2>4 DEF PipesOf
  <2> QED
    BY <1>0, <1>1, <2>3, <2>4, <2>5, <2>6, PipesAt DEF PipeInv
<1>7. ASSUME NEW i \in tasks[s], HandlerPanics(s, i) PROVE PipeInv'
  <2>1. tasks' = [tasks EXCEPT ![s] = @ \ {i}] /\ UNCHANGED <<stdin, taken, channel, stdout, replied>>
    BY <1>7 DEF HandlerPanics
  <2>2. OnProc(tasks)' /\ tasks'[s] \subseteq tasks[s] /\ \A t \in Proc \ {s} : tasks'[t] = tasks[t]
    BY <2>1 DEF PipeInv, PipesTyped, OnProc
  <2>3. PipesTyped'
    BY <2>1, <2>2 DEF PipeInv, PipesTyped, OnProc
  <2>4. PipesOf(s) => PipesOf(s)'
    BY <1>0, <2>1, <2>2 DEF PipesOf
  <2> QED
    BY <1>0, <1>1, <2>1, <2>2, <2>3, <2>4, PipesAt DEF PipeInv
<1>8. CASE WriteLine(s)
  <2>1. /\ channel[s] # <<>> /\ channel' = [channel EXCEPT ![s] = Tail(@)]
        /\ stdout' = [stdout EXCEPT ![s] = Append(@, Head(channel[s]))]
        /\ replied' = [replied EXCEPT ![s] = Append(@, Head(channel[s]))]
        /\ UNCHANGED <<stdin, taken, tasks>>
    BY <1>8 DEF WriteLine
  <2>2. /\ OnProc(stdout)' /\ OnProc(replied)' /\ OnProc(channel)'
        /\ channel'[s] = Tail(channel[s]) /\ stdout'[s] = Append(stdout[s], Head(channel[s]))
        /\ replied'[s] = Append(replied[s], Head(channel[s]))
        /\ \A t \in Proc \ {s} :
             channel'[t] = channel[t] /\ stdout'[t] = stdout[t] /\ replied'[t] = replied[t]
    BY <2>1 DEF PipeInv, PipesTyped, OnProc
  <2>3. PipesTyped'
    BY <2>1, <2>2 DEF PipeInv, PipesTyped, OnProc
  <2>4. ASSUME PipesOf(s) PROVE PipesOf(s)'
    <3>1. Head(channel[s]) \in Told /\ Tail(channel[s]) \in Seq(Told)
      BY <2>1, <2>4 DEF PipesOf
    <3>2. stdout'[s] \in Seq(Told) /\ replied'[s] \in Seq(Told) /\ channel'[s] \in Seq(Told)
      BY <2>2, <2>4, <3>1 DEF PipesOf
    <3> QED
      BY <1>0, <2>1, <2>4, <3>2 DEF PipesOf
  <2> QED
    BY <1>0, <1>1, <2>1, <2>2, <2>3, <2>4, PipesAt DEF PipeInv
<1> QED
  BY <1>2, <1>3, <1>5, <1>6, <1>7, <1>8 DEF ServerStep, ServerFault

LEMMA SentAsked ==
  ASSUME NEW s, NEW m \in Asked, NEW l \in Sent(s, m)
  PROVE  /\ l \in Asked
         /\ l.kind = "call" => l = m
         /\ ~torn[s] => l = m
<1>1. CASE torn[s]
  <2>1. l = Line("garbled", 0, NoCall) \/ l = Line("not_text", 0, NoCall)
    BY <1>1 DEF Sent
  <2> QED
    BY <1>1, <2>1 DEF Asked, Line, Lines, Kinds
<1>2. CASE ~torn[s]
  BY <1>2 DEF Sent
<1> QED
  BY <1>1, <1>2

\* A line put on the input of a server.
LEMMA PutPipes ==
  ASSUME SessionInv, AnswerInv, Asked \subseteq Asked', Told \subseteq Told', NEW s \in Proc,
         NEW m, m \in Asked, PutLine(s, m), spawned' = spawned, ~(s > spawned),
         \A t \in Proc : reader[t] = "none" => reader'[t] = "none"
  PROVE  PipeInv'
<1>0. PICK l \in Sent(s, m) : stdin' = [stdin EXCEPT ![s] = Append(@, l)]
  BY DEF PutLine
<1>1. /\ stdin' = [stdin EXCEPT ![s] = Append(@, l)] /\ UNCHANGED <<taken, tasks, channel, stdout, replied>>
  BY <1>0 DEF PutLine
<1>2. l \in Asked
  BY SentAsked
<1>3. OnProc(stdin)' /\ stdin'[s] = Append(stdin[s], l) /\ \A t \in Proc \ {s} : stdin'[t] = stdin[t]
  BY <1>1 DEF AnswerInv, PipeInv, PipesTyped, OnProc
<1>4. PipesTyped'
  BY <1>1, <1>3 DEF AnswerInv, PipeInv, PipesTyped, OnProc
<1>5. ASSUME PipesOf(s) PROVE PipesOf(s)'
  <2>1. stdin'[s] \in Seq(Asked)
    BY <1>2, <1>3, <1>5 DEF PipesOf
  <2>2. stdin'[s] \in Seq(Asked') /\ taken[s] \in Seq(Asked')
    BY <1>5, <2>1, SeqMono DEF PipesOf
  <2>3. channel[s] \in Seq(Told') /\ stdout[s] \in Seq(Told') /\ replied[s] \in Seq(Told')
    BY <1>5, SeqMono DEF PipesOf
  <2> QED
    BY <1>1, <1>5, <2>2, <2>3 DEF PipesOf
<1> QED
  BY <1>1, <1>3, <1>4, <1>5, PipesAt DEF AnswerInv, PipeInv

\* A line taken off the output of a server.
LEMMA TakePipes ==
  ASSUME AnswerInv, Asked \subseteq Asked', Told \subseteq Told', NEW s \in Proc,
         stdout[s] # <<>>, stdout' = [stdout EXCEPT ![s] = Tail(@)],
         UNCHANGED <<stdin, taken, tasks, channel, replied, spawned>>,
         \A t \in Proc : reader[t] = "none" => reader'[t] = "none"
  PROVE  PipeInv'
<1>1. ~(s > spawned)
  BY DEF AnswerInv, PipeInv, Blank
<1>2. OnProc(stdout)' /\ stdout'[s] = Tail(stdout[s]) /\ \A t \in Proc \ {s} : stdout'[t] = stdout[t]
  BY DEF AnswerInv, PipeInv, PipesTyped, OnProc
<1>3. PipesTyped'
  BY <1>2 DEF AnswerInv, PipeInv, PipesTyped, OnProc
<1>4. ASSUME PipesOf(s) PROVE PipesOf(s)'
  <2>1. stdout'[s] \in Seq(Told)
    BY <1>2, <1>4 DEF PipesOf
  <2>2. stdin[s] \in Seq(Asked') /\ taken[s] \in Seq(Asked')
    BY <1>4, SeqMono DEF PipesOf
  <2>3. channel[s] \in Seq(Told') /\ stdout'[s] \in Seq(Told') /\ replied[s] \in Seq(Told')
    BY <1>4, <2>1, SeqMono DEF PipesOf
  <2> QED
    BY <1>4, <2>2, <2>3 DEF PipesOf
<1> QED
  BY <1>1, <1>2, <1>3, <1>4, PipesAt DEF AnswerInv, PipeInv

LEMMA OutgoingAsked ==
  ASSUME SessionInv, AnswerInv, NEW c \in Caller, Writing(c)
  PROVE  Outgoing(c) \in Asked
<1>1. CASE At(c, "initialize")
  <2>1. Outgoing(c) = Line("initialize", initId[using[c]], NoCall) /\ using[c] \in Proc
    BY <1>1 DEF Outgoing, Session, SessionInv, SessionUse, Making, At
  <2>2. Outgoing(c) \in Lines
    BY <2>1 DEF AnswerInv, IdInv, Line, Lines, Kinds
  <2>3. Outgoing(c).kind = "initialize" /\ AboutNone(Outgoing(c))
    BY <2>1 DEF AnswerInv, IdInv, Line, AboutNone
  <2> QED
    BY <2>2, <2>3 DEF Asked
<1>2. CASE At(c, "initialized")
  <2>1. Outgoing(c) = Line("initialized", 0, NoCall)
    BY <1>2 DEF Outgoing, At
  <2> QED
    BY <2>1 DEF Asked, Line, Lines, Kinds
<1>3. CASE At(c, "write")
  <2>1. Outgoing(c) = Line("call", ids[c][Len(ids[c])], <<c, Len(ids[c])>>)
    BY <1>3 DEF Outgoing, At, LastId
  <2>2. ids[c] \in Seq(Nat) /\ Len(got[c]) \in Nat
    BY DEF AnswerInv, IdInv, CallInv
  <2>3. 0 < Len(ids[c])
    BY <1>3, <2>2 DEF AnswerInv, CallInv, Counted, At, Labels
  <2>4. Len(ids[c]) \in DOMAIN ids[c] /\ ids[c][Len(ids[c])] \in Nat /\ Len(ids[c]) \in Nat
    BY <2>2, <2>3
  <2>5. Outgoing(c) \in Lines /\ Outgoing(c).kind = "call" /\ AboutCall(Outgoing(c))
    BY <2>1, <2>4 DEF Line, Lines, Kinds, AboutCall
  <2> QED
    BY <2>5 DEF Asked
<1> QED
  BY <1>1, <1>2, <1>3 DEF Writing, At

LEMMA PipeStep ==
  ASSUME SessionInv, AnswerInv, [Next]_vars
  PROVE  PipeInv'
<1>0. Asked \subseteq Asked' /\ Told \subseteq Told'
  BY IdStep DEF AnswerInv
<1>a. ASSUME NEW c \in Caller, Spawn(c) PROVE PipeInv'
  <2>0. PICK s \in Proc : s = spawned + 1
    BY <1>a DEF Spawn
  <2>1. /\ s \in Proc /\ spawned' = s /\ s > spawned /\ \A t \in Proc : t > s => t > spawned
        /\ reader' = [reader EXCEPT ![s] = "reading"]
        /\ UNCHANGED <<stdin, taken, tasks, channel, stdout, replied>>
    BY <1>a, <2>0, ClientAssumption DEF Spawn, SessionInv, SessionTypes
  <2>2. PipesTyped' /\ \A t \in Proc : t > spawned' => Blank(t)'
    BY <2>1 DEF AnswerInv, PipeInv, PipesTyped, OnProc, Blank
  <2>3. Blank(s)
    BY <2>1 DEF AnswerInv, PipeInv
  <2>4. PipesOf(s)'
    BY <2>1, <2>3 DEF Blank, PipesOf
  <2>5. \A t \in Proc \ {s} : reader'[t] # "none" => PipesOf(t)'
    <3>1. \A t \in Proc \ {s} : reader'[t] = reader[t]
      BY <2>1 DEF SessionInv, SessionTypes
    <3> QED
      BY <1>0, <2>1, <3>1, PipesKept DEF AnswerInv, PipeInv
  <2> QED
    BY <2>2, <2>4, <2>5 DEF PipeInv
<1>b. ASSUME NEW c \in Caller, Written(c) PROVE PipeInv'
  <2>1. using[c] \in Proc /\ ~(using[c] > spawned)
    <3>1. using[c] \in Proc /\ using[c] <= spawned
      BY <1>b DEF Written, Writing, SessionInv, SessionUse, Making, Calling, Unspawned
    <3>2. using[c] \in Nat /\ spawned \in Nat
      BY <3>1, ClientAssumption DEF SessionInv, SessionTypes
    <3> QED
      BY <3>1, <3>2
  <2>2. Outgoing(c) \in Asked
    BY <1>b, OutgoingAsked DEF Written
  <2> QED
    BY <1>0, <1>b, <2>1, <2>2, PutPipes DEF Written, Session
<1>c. ASSUME NEW s \in Proc, ReaderAnswers(s) PROVE PipeInv'
  <2>1. ~(s > spawned) /\ spawned' = spawned /\ reader' = [reader EXCEPT ![s] = "reading"]
    BY <1>c DEF ReaderAnswers, SessionInv, Unspawned
  <2>2. \A t \in Proc : reader[t] = "none" => reader'[t] = "none"
    BY <1>c, <2>1 DEF ReaderAnswers, SessionInv, SessionTypes
  <2>3. CASE child[s] \in {"running", "closing"}
    <3>1. PutLine(s, Line("answer", 1, NoCall))
      BY <1>c, <2>3 DEF ReaderAnswers
    <3>2. Line("answer", 1, NoCall) \in Asked
      BY DEF Asked, Line, Lines, Kinds
    <3> QED
      BY <1>0, <2>1, <2>2, <3>1, <3>2, PutPipes
  <2>4. CASE child[s] \notin {"running", "closing"}
    BY <1>0, <1>c, <2>1, <2>2, <2>4, PipesSame DEF ReaderAnswers, serverVars, AnswerInv
  <2> QED
    BY <2>3, <2>4
<1>d. ASSUME NEW s \in Proc, RouteLine(s) \/ ReaderEnds(s) PROVE PipeInv'
  <2>1. /\ UNCHANGED <<stdin, taken, tasks, channel, replied, spawned>>
        /\ stdout' = stdout \/ (stdout[s] # <<>> /\ stdout' = [stdout EXCEPT ![s] = Tail(@)])
    BY <1>d DEF RouteLine, ReaderEnds
  <2>2. \A t \in Proc : reader[t] = "none" => reader'[t] = "none"
    BY <1>d DEF RouteLine, ReaderEnds, SessionInv, SessionTypes
  <2>3. CASE stdout' = stdout
    BY <1>0, <2>1, <2>2, <2>3, PipesSame DEF AnswerInv
  <2>4. CASE stdout[s] # <<>> /\ stdout' = [stdout EXCEPT ![s] = Tail(@)]
    BY <1>0, <2>1, <2>2, <2>4, TakePipes
  <2> QED
    BY <2>1, <2>3, <2>4
<1>i. ASSUME NEW s \in Proc, OutputRead(s) PROVE PipeInv'
  <2>1. /\ stdout[s] # <<>> /\ stdout' = [stdout EXCEPT ![s] = Tail(@)]
        /\ UNCHANGED <<stdin, taken, tasks, channel, replied, spawned, reader>>
    BY <1>i DEF OutputRead, clientVars
  <2> QED
    BY <1>0, <2>1, TakePipes
<1>e. ASSUME NEW s \in Proc, (ServerStep(s) \/ ServerFault(s)) /\ UNCHANGED clientVars PROVE PipeInv'
  BY <1>0, <1>e, ServerPipes
<1>f. ASSUME NEW c \in Caller,
             \/ Begin(c) \/ Reuse(c) \/ Register(c) \/ LockStdin(c) \/ WriteFails(c) \/ Answered(c)
             \/ TimedOut(c) \/ SpawnFails(c) \/ Dropped(c)
      PROVE  PipeInv'
  <2>1. spawned' = spawned /\ reader' = reader /\ UNCHANGED <<stdin, taken, tasks, channel, stdout, replied>>
    BY <1>f DEF Begin, Reuse, Register, LockStdin, WriteFails, Answered, TimedOut, SpawnFails, Dropped,
                serverVars
  <2> QED
    BY <1>0, <2>1, PipesSame DEF AnswerInv
<1>g. ASSUME NEW s \in Proc, ReaderLocks(s) \/ Drain(s) \/ SessionDropped(s) PROVE PipeInv'
  <2>1. /\ spawned' = spawned /\ UNCHANGED <<stdin, taken, tasks, channel, stdout, replied>>
        /\ \/ reader' = reader
           \/ reader[s] # "none" /\ reader' = [reader EXCEPT ![s] = "ended"]
    BY <1>g DEF ReaderLocks, Drain, SessionDropped, serverVars, clientVars
  <2>2. \A t \in Proc : reader[t] = "none" => reader'[t] = "none"
    BY <2>1 DEF SessionInv, SessionTypes
  <2> QED
    BY <1>0, <2>1, <2>2, PipesSame DEF AnswerInv
<1>h. CASE Shutdown \/ GraceEnds \/ AllEnded \/ UNCHANGED vars
  <2>1. spawned' = spawned /\ reader' = reader /\ UNCHANGED <<stdin, taken, tasks, channel, stdout, replied>>
    BY <1>h DEF Shutdown, GraceEnds, AllEnded, vars, serverVars, clientVars
  <2> QED
    BY <1>0, <2>1, PipesSame DEF AnswerInv
<1> QED
  BY <1>a, <1>b, <1>c, <1>d, <1>e, <1>f, <1>g, <1>h, <1>i DEF Next, CallerStep, ReaderStep

\* route_line sends an answer to the slot with its id, and to no other.
LEMMA MailStep ==
  ASSUME SessionInv, AnswerInv, [Next]_vars
  PROVE  MailInv'
<1>0. Told \subseteq Told'
  BY IdStep DEF AnswerInv
<1>1. CASE mail' = mail
  BY <1>0, <1>1 DEF AnswerInv, MailInv
<1>2. ASSUME NEW s \in Proc, RouteLine(s) PROVE MailInv'
  <2> DEFINE m == Head(stdout[s])
  <2>1. m \in Told
    <3>1. stdout[s] \in Seq(Told) /\ stdout[s] # <<>>
      BY <1>2 DEF RouteLine, AnswerInv, PipeInv, PipesOf
    <3> QED
      BY <3>1
  <2>2. CASE mail' = mail
    BY <1>1, <2>2
  <2>3. CASE /\ m.kind \notin Unrouted
             /\ mail' = [i \in DOMAIN mail |-> IF i \in Routed(s, m) THEN m ELSE mail[i]]
    <3> HIDE DEF m
    <3>1. DOMAIN mail = 1..MaxId
      BY DEF AnswerInv, MailInv
    <3>2. mail' = [i \in 1..MaxId |-> mail'[i]]
      BY <2>3, <3>1
    <3>3. \A i \in 1..MaxId : mail'[i] = mail[i] \/ (mail'[i] = m /\ m.id = i)
      BY <2>3, <3>1 DEF Routed
    <3> QED
      BY <1>0, <2>1, <2>3, <3>2, <3>3 DEF AnswerInv, MailInv
  <2> QED
    BY <1>2, <2>2, <2>3 DEF RouteLine, OutputOver, Unrouted
<1>3. ASSUME NEW s \in Proc, Drain(s) PROVE MailInv'
  <2>1. mail' = [i \in DOMAIN mail |-> IF i \in pending[s] THEN Line("closed", i, NoCall) ELSE mail[i]]
    BY <1>3 DEF Drain
  <2>2. DOMAIN mail = 1..MaxId
    BY DEF AnswerInv, MailInv
  <2>3. mail' = [i \in 1..MaxId |-> mail'[i]]
    BY <2>1, <2>2
  <2>4. \A i \in 1..MaxId : mail'[i] = mail[i] \/ mail'[i].kind = "closed"
    BY <2>1, <2>2 DEF Line
  <2> QED
    BY <1>0, <2>3, <2>4 DEF AnswerInv, MailInv
<1>4. ASSUME NEW c \in Caller, CallerStep(c) \/ SpawnFails(c) \/ Dropped(c) PROVE mail' = mail
  BY <1>4 DEF CallerStep, Begin, Reuse, Spawn, Register, LockStdin, Written, WriteFails, Answered,
              TimedOut, SpawnFails, Dropped
<1>5. ASSUME NEW s \in Proc, \/ ReaderLocks(s) \/ ReaderAnswers(s) \/ ReaderEnds(s)
                            \/ SessionDropped(s) \/ OutputRead(s)
      PROVE  mail' = mail
  BY <1>5 DEF ReaderLocks, ReaderAnswers, ReaderEnds, SessionDropped, OutputRead, clientVars
<1>6. CASE UNCHANGED clientVars \/ Shutdown \/ GraceEnds \/ AllEnded \/ UNCHANGED vars
  BY <1>1, <1>6 DEF Shutdown, GraceEnds, AllEnded, vars, clientVars
<1> QED
  BY <1>1, <1>2, <1>3, <1>4, <1>5, <1>6 DEF Next, ReaderStep

\* A caller's step leaves the others' counts alone.
LEMMA CountsAt ==
  ASSUME AnswerInv, SessionInv, NEW c \in Caller, NEW l \in Labels,
         work' = work, pc' = [pc EXCEPT ![c] = l],
         \A d \in Caller \ {c} : ids'[d] = ids[d],
         \A d \in Caller \ {c} : got'[d] = got[d],
         pc'[c] = l => Counted(c)'
  PROVE  \A d \in Caller : Counted(d)'
<1>1. pc'[c] = l /\ \A d \in Caller \ {c} : pc'[d] = pc[d]
  BY DEF SessionInv, SessionTypes
<1>2. \A d \in Caller \ {c} : Counted(d)'
  BY <1>1 DEF AnswerInv, CallInv, Counted
<1> QED
  BY <1>1, <1>2

LEMMA CallStep ==
  ASSUME SessionInv, AnswerInv, [Next]_vars
  PROVE  CallInv'
<1>0. \A c \in Caller : /\ work[c].calls \in Nat /\ work[c].pipelined \in BOOLEAN
                        /\ Len(got[c]) \in Nat /\ Len(ids[c]) \in Nat /\ ids[c] \in Seq(Nat)
  BY DEF AnswerInv, CallInv, IdInv, Job
<1>1. CASE UNCHANGED <<work, pc, ids, got>>
  BY <1>1 DEF AnswerInv, CallInv, Counted, OwnAnswers
<1>2. ASSUME work' = work, got' = got, \A d \in Caller : Counted(d)' PROVE CallInv'
  BY <1>2 DEF AnswerInv, CallInv, OwnAnswers
<1>a. ASSUME NEW c \in Caller, Begin(c) PROVE CallInv'
  <2>1. pc[c] = "start" /\ work' = work /\ got' = got /\ Len(got[c]) < work[c].calls
    BY <1>a DEF Begin, At, AnswerInv, CallInv, Counted
  <2>2. pc' = [pc EXCEPT ![c] = "session"] /\ \A d \in Caller \ {c} : ids'[d] = ids[d]
    <3>1. work[c].calls # 0
      BY <1>0, <2>1
    <3>2. ids' = ids \/ ids' = [ids EXCEPT ![c] = Append(@, nextId + 1)]
      BY <1>a DEF Begin
    <3>3. \A d \in Caller \ {c} : ids'[d] = ids[d]
      BY <3>2 DEF AnswerInv, IdInv
    <3> QED
      BY <1>a, <3>1, <3>3 DEF Begin, Goto
  <2>3. ~work[c].pipelined => Len(ids'[c]) = Len(got[c]) + 1
    <3> SUFFICES ASSUME ~work[c].pipelined PROVE Len(ids'[c]) = Len(got[c]) + 1
      OBVIOUS
    <3>1. ids'[c] = Append(ids[c], nextId + 1) /\ Len(ids[c]) = Len(got[c])
      BY <1>0, <1>a, <2>1 DEF Begin, AnswerInv, IdInv, CallInv, Counted
    <3>2. nextId + 1 \in Nat
      BY DEF AnswerInv, IdInv
    <3> QED
      BY <1>0, <3>1, <3>2
  <2>4. pc'[c] = "session" => Counted(c)'
    BY <2>1, <2>3 DEF Counted
  <2>5. \A d \in Caller : Counted(d)'
    BY <2>1, <2>2, <2>4, CountsAt DEF Labels
  <2> QED
    BY <1>2, <2>1, <2>5
<1>b. ASSUME NEW c \in Caller, NEW l \in Labels, pc' = [pc EXCEPT ![c] = l],
             UNCHANGED <<work, ids, got>>, l # "start",
             l = "await" => ~work[c].pipelined \/ work[c].calls <= Len(ids[c]),
             l = "write" => ~work[c].pipelined \/ 0 < Len(ids[c]),
             pc[c] = "done" => l = "done", pc[c] = "start" => l = "done"
      PROVE  CallInv'
  <2>1. pc'[c] = l => Counted(c)'
    <3>1. pc[c] \in Labels
      BY DEF SessionInv, SessionTypes
    <3> QED
      BY <1>b, <3>1 DEF AnswerInv, CallInv, Counted
  <2>2. \A d \in Caller : Counted(d)'
    BY <1>b, <2>1, CountsAt
  <2> QED
    BY <1>2, <1>b, <2>2
<1>c. ASSUME NEW c \in Caller, Reuse(c) \/ Spawn(c) PROVE CallInv'
  <2>1. pc[c] = "session" /\ \E l \in {"register", "initialize"} : pc' = [pc EXCEPT ![c] = l]
    BY <1>c DEF Reuse, Spawn, MustSpawn, At, Goto
  <2>2. UNCHANGED <<work, ids, got>>
    BY <1>c DEF Reuse, Spawn
  <2> QED
    BY <1>b, <2>1, <2>2 DEF Labels
<1>d. ASSUME NEW c \in Caller, SpawnFails(c) \/ WriteFails(c) \/ TimedOut(c) \/ Dropped(c) PROVE CallInv'
  <2>1. pc' = [pc EXCEPT ![c] = "done"] /\ UNCHANGED <<work, ids, got>>
    BY <1>d DEF SpawnFails, WriteFails, TimedOut, Dropped, Return, Goto
  <2> QED
    BY <1>b, <2>1 DEF Labels
<1>e. ASSUME NEW c \in Caller, Register(c) PROVE CallInv'
  <2>1. pc[c] = "register" /\ pc' = [pc EXCEPT ![c] = "write"] /\ work' = work /\ got' = got
    BY <1>e DEF Register, At, Goto
  <2>2. CASE work[c].pipelined
    <3>1. ids' = [ids EXCEPT ![c] = Append(@, nextId + 1)] /\ nextId + 1 \in Nat
      BY <1>e, <2>2 DEF Register, AnswerInv, IdInv
    <3>2. ids'[c] = Append(ids[c], nextId + 1) /\ \A d \in Caller \ {c} : ids'[d] = ids[d]
      BY <3>1 DEF AnswerInv, IdInv
    <3>3. 0 < Len(ids'[c])
      BY <1>0, <3>1, <3>2
    <3>4. pc'[c] = "write" => Counted(c)'
      BY <2>1, <2>2, <3>3 DEF AnswerInv, CallInv, Counted
    <3>5. \A d \in Caller : Counted(d)'
      BY <2>1, <3>2, <3>4, CountsAt DEF Labels
    <3> QED
      BY <1>2, <2>1, <3>5
  <2>3. CASE ~work[c].pipelined
    <3>1. ids' = ids
      BY <1>e, <2>3 DEF Register
    <3> QED
      BY <1>b, <2>1, <2>3, <3>1 DEF Labels
  <2> QED
    BY <2>2, <2>3
<1>f. ASSUME NEW c \in Caller, Written(c) PROVE CallInv'
  <2>1. UNCHANGED <<work, ids, got>> /\ pc[c] \in {"initialize", "initialized", "write"}
    BY <1>f DEF Written, Writing
  <2>2. \/ \E l \in {"handshake", "register"} : pc' = [pc EXCEPT ![c] = l]
        \/ /\ pc' = [pc EXCEPT ![c] = "await"]
           /\ ~(work[c].pipelined /\ Len(ids[c]) < work[c].calls)
    BY <1>f, <2>1 DEF Written, At, Goto
  <2>3. ~(Len(ids[c]) < work[c].calls) => work[c].calls <= Len(ids[c])
    BY <1>0
  <2>4. CASE \E l \in {"handshake", "register"} : pc' = [pc EXCEPT ![c] = l]
    BY <1>b, <2>1, <2>4 DEF Labels
  <2>5. CASE /\ pc' = [pc EXCEPT ![c] = "await"]
             /\ ~(work[c].pipelined /\ Len(ids[c]) < work[c].calls)
    BY <1>b, <2>1, <2>3, <2>5 DEF Labels
  <2> QED
    BY <2>2, <2>4, <2>5
<1>g. ASSUME NEW c \in Caller, Answered(c) PROVE CallInv'
  <2> DEFINE m == mail[Awaited(c)]
             all == Append(got[c], m)
  <2>1. work' = work /\ ids' = ids /\ pc[c] \in {"handshake", "await"} /\ m # Nothing
    BY <1>g DEF Answered, Awaiting
  <2>2. CASE ErrorCode(m) # ""
    <3>1. pc' = [pc EXCEPT ![c] = "done"] /\ got' = got
      BY <1>g, <2>2 DEF Answered, Return, Goto
    <3> QED
      BY <1>b, <2>1, <3>1 DEF Labels
  <2>3. CASE ErrorCode(m) = "" /\ pc[c] = "handshake"
    <3>1. pc' = [pc EXCEPT ![c] = "initialized"] /\ got' = got
      BY <1>g, <2>3 DEF Answered, At, Goto
    <3> QED
      BY <1>b, <2>1, <2>3, <3>1 DEF Labels
  <2>4. CASE ErrorCode(m) = "" /\ pc[c] = "await"
    <3> DEFINE n == Len(got[c]) + 1
    <3>1. n \in DOMAIN ids[c] /\ Awaited(c) = ids[c][n] /\ Len(got[c]) < work[c].calls
      <4>1. Len(got[c]) < work[c].calls
        BY <2>4 DEF AnswerInv, CallInv, Counted
      <4>2. work[c].calls <= Len(ids[c]) \/ Len(ids[c]) = n
        BY <1>0, <2>4 DEF AnswerInv, CallInv, Counted, Labels
      <4>3. n \in 1..Len(ids[c])
        BY <1>0, <4>1, <4>2
      <4> QED
        <5>1. Awaited(c) = ids[c][n]
          BY <2>4 DEF Awaited, At
        <5>2. DOMAIN ids[c] = 1..Len(ids[c])
          BY <1>0
        <5> QED
          BY <4>1, <4>3, <5>1, <5>2
    <3>2. m \in Told /\ m.id = ids[c][n] /\ m.kind \in {"result", "tool_error", "version"}
      <4>1. ids[c][n] \in 1..MaxId
        BY <3>1, ClientAssumption DEF AnswerInv, IdInv
      <4>2. m.kind \notin {"closed", "bad_version", "error", "no_result"}
        BY <2>4 DEF ErrorCode
      <4>3. m \in Told /\ m.id = ids[c][n] /\ m.kind \notin Unrouted
        BY <2>1, <3>1, <4>1, <4>2 DEF AnswerInv, MailInv
      <4> QED
        BY <4>2, <4>3 DEF Told, Unrouted
    <3>3. m \in Lines /\ m.call = <<c, n>>
      <4>1. m \in Lines /\ (AboutCall(m) \/ AboutNone(m))
        BY <3>2 DEF Told
      <4>2. AboutCall(m)
        BY <3>1, <3>2, <4>1 DEF AboutNone
      <4> QED
        <5>0. PICK d \in Caller : \E i \in DOMAIN ids[d] : m.call = <<d, i>> /\ m.id = ids[d][i]
          BY <4>2 DEF AboutCall
        <5>1. PICK i \in DOMAIN ids[d] : m.call = <<d, i>> /\ m.id = ids[d][i]
          BY <5>0
        <5>2. d = c /\ i = n
          <6> HIDE DEF m, n
          <6>1. n \in DOMAIN ids[c] /\ ids[d][i] = ids[c][n]
            BY <3>1, <3>2, <5>1
          <6> QED
            BY <6>1 DEF AnswerInv, IdInv
        <5> QED
          BY <4>1, <5>1, <5>2
    <3> HIDE DEF m
    <3>4. got' = [got EXCEPT ![c] = all] /\ \E l \in {"done", "await", "start"} :
            /\ pc' = [pc EXCEPT ![c] = l]
            /\ l # "done" => Len(all) # work[c].calls
            /\ l = "await" => work[c].pipelined
            /\ l = "start" => ~work[c].pipelined
      BY <1>g, <2>4 DEF Answered, At, Goto, Return, m
    <3>5. /\ got'[c] = all /\ \A d \in Caller \ {c} : got'[d] = got[d]
          /\ got' \in [Caller -> Seq(Lines)]
      BY <3>3, <3>4 DEF AnswerInv, CallInv
    <3>6. Len(all) = n /\ all[n] = m /\ \A i \in DOMAIN got[c] : all[i] = got[c][i]
      BY <3>3 DEF AnswerInv, CallInv
    <3>7. DOMAIN all = DOMAIN got[c] \cup {n}
      BY <3>3 DEF AnswerInv, CallInv
    <3>8. OwnAnswers'
      <4> HIDE DEF all, n
      <4>1. \A i \in DOMAIN all : all[i].call = <<c, i>>
        BY <3>3, <3>6, <3>7 DEF AnswerInv, CallInv, OwnAnswers
      <4> QED
        BY <3>5, <4>1 DEF AnswerInv, CallInv, OwnAnswers
    <3>9. \A d \in Caller : Counted(d)'
      <4>1. PICK l \in {"done", "await", "start"} :
              /\ pc' = [pc EXCEPT ![c] = l]
              /\ l # "done" => Len(all) # work[c].calls
              /\ l = "await" => work[c].pipelined
              /\ l = "start" => ~work[c].pipelined
        BY <3>4
      <4>2. l # "done" => Len(got'[c]) < work[c].calls
        BY <1>0, <3>1, <3>5, <3>6, <4>1
      <4>3. l = "await" => work[c].calls <= Len(ids[c])
        BY <2>4, <4>1 DEF AnswerInv, CallInv, Counted
      <4>4. l = "start" => Len(ids[c]) = Len(got'[c])
        BY <2>4, <3>5, <3>6, <4>1 DEF AnswerInv, CallInv, Counted, Labels
      <4>5. pc'[c] = l => Counted(c)'
        BY <2>1, <4>1, <4>2, <4>3, <4>4 DEF Counted
      <4> QED
        BY <2>1, <3>5, <4>1, <4>5, CountsAt DEF Labels
    <3> QED
      BY <2>1, <3>5, <3>8, <3>9 DEF AnswerInv, CallInv
  <2> QED
    BY <2>1, <2>2, <2>3, <2>4
<1>h. ASSUME NEW c \in Caller, LockStdin(c) PROVE CallInv'
  BY <1>1, <1>h DEF LockStdin
<1>i. ASSUME NEW s \in Proc, ReaderStep(s) \/ UNCHANGED clientVars PROVE CallInv'
  <2>1. UNCHANGED <<work, pc, ids, got>>
    BY <1>i DEF ReaderStep, RouteLine, ReaderLocks, ReaderAnswers, ReaderEnds, Drain, SessionDropped,
                OutputRead, clientVars
  <2> QED
    BY <1>1, <2>1
<1>j. CASE Shutdown \/ GraceEnds \/ AllEnded \/ UNCHANGED vars
  BY <1>1, <1>j DEF Shutdown, GraceEnds, AllEnded, vars, clientVars
<1> QED
  BY <1>a, <1>c, <1>d, <1>e, <1>f, <1>g, <1>h, <1>i, <1>j DEF Next, CallerStep

LEMMA AnswerInvariant == ClientSpec => []AnswerInv
<1>1. SessionInv /\ AnswerInv /\ [Next]_vars => AnswerInv'
  BY IdStep, PipeStep, MailStep, CallStep DEF AnswerInv
<1> QED
  BY <1>1, AnswerInit, SessionTheorem, PTL DEF ClientSpec

\* route_line and await_response: whatever comes late, twice, in another
\* order or for a call that was given up, a caller's answer is the server's
\* answer to that very call, for any callers, jobs, sessions and faults.
THEOREM OwnAnswersTheorem == ClientSpec => []OwnAnswers
<1>1. AnswerInv => OwnAnswers
  BY DEF AnswerInv, CallInv
<1> QED
  BY <1>1, AnswerInvariant, PTL

----------------------------------------------------------------------------
(* No call before the handshake.                                           *)

\* All that was written to a server, read or not.
Stream(s) == taken[s] \o stdin[s]

\* A sequence of lines has the first line of a handshake, or both of them,
\* and its calls follow a handshake.
Greets(q) == \E j \in DOMAIN q : q[j].kind = "initialize"
Opens(q) == \E j, k \in DOMAIN q : j < k /\ q[j].kind = "initialize" /\ q[k].kind = "initialized"
CallsFollow(q) ==
  \A i \in DOMAIN q : q[i].kind = "call" =>
    \E j, k \in 1..(i - 1) : q[j].kind = "initialize" /\ q[k].kind = "initialized" /\ j < k

LEMMA AppendOpens ==
  ASSUME NEW S, NEW q \in Seq(S), NEW m \in S
  PROVE  /\ Greets(q) \/ m.kind = "initialize" => Greets(Append(q, m))
         /\ Opens(q) \/ (Greets(q) /\ m.kind = "initialized") => Opens(Append(q, m))
         /\ CallsFollow(q) /\ (m.kind = "call" => Opens(q)) => CallsFollow(Append(q, m))
<1> DEFINE r == Append(q, m)
           n == Len(q) + 1
<1>1. /\ DOMAIN r = 1..n /\ DOMAIN q = 1..Len(q) /\ r[n] = m /\ Len(q) \in Nat
      /\ \A i \in 1..Len(q) : r[i] = q[i] /\ i \in 1..n /\ i < n /\ i \in 1..(n - 1)
  OBVIOUS
<1>2. n \in 1..n
  BY <1>1
<1> HIDE DEF r
<1>3. Greets(q) \/ m.kind = "initialize" => Greets(r)
  BY <1>1, <1>2 DEF Greets
<1>4. Opens(q) \/ (Greets(q) /\ m.kind = "initialized") => Opens(r)
  BY <1>1, <1>2 DEF Greets, Opens
<1>5. ASSUME CallsFollow(q), m.kind = "call" => Opens(q) PROVE CallsFollow(r)
  <2> SUFFICES ASSUME NEW i \in 1..n, r[i].kind = "call"
               PROVE  \E j, k \in 1..(i - 1) : r[j].kind = "initialize" /\ r[k].kind = "initialized" /\ j < k
    BY <1>1 DEF CallsFollow
  <2>1. CASE i \in 1..Len(q)
    <3>1. PICK j \in 1..(i - 1), k \in 1..(i - 1) :
            q[j].kind = "initialize" /\ q[k].kind = "initialized" /\ j < k
      BY <1>1, <1>5, <2>1 DEF CallsFollow
    <3>2. j \in 1..Len(q) /\ k \in 1..Len(q)
      BY <1>1, <2>1
    <3> QED
      BY <1>1, <3>1, <3>2
  <2>2. CASE i = n
    <3>1. PICK j \in 1..Len(q), k \in 1..Len(q) :
            q[j].kind = "initialize" /\ q[k].kind = "initialized" /\ j < k
      BY <1>1, <1>5, <2>2 DEF Opens
    <3>2. j \in 1..(n - 1) /\ k \in 1..(n - 1)
      BY <1>1
    <3> QED
      BY <1>1, <2>2, <3>1, <3>2
  <2> QED
    BY <1>1, <2>1, <2>2
<1> QED
  BY <1>3, <1>4, <1>5 DEF r

LEMMA ConcatAppend ==
  ASSUME NEW S, NEW p \in Seq(S), NEW q \in Seq(S), NEW m \in S
  PROVE  p \o Append(q, m) = Append(p \o q, m)
OBVIOUS

LEMMA ConcatType ==
  ASSUME NEW S, NEW p \in Seq(S), NEW q \in Seq(S)
  PROVE  p \o q \in Seq(S)
OBVIOUS

LEMMA ConcatMove ==
  ASSUME NEW S, NEW p \in Seq(S), NEW q \in Seq(S), q # <<>>
  PROVE  Append(p, Head(q)) \o Tail(q) = p \o q
OBVIOUS

LEMMA ConcatPrefix ==
  ASSUME NEW S, NEW p \in Seq(S), NEW q \in Seq(S)
  PROVE  /\ DOMAIN p = 1..Len(p) /\ Len(p) \in Nat
         /\ \A j \in 1..Len(p) : j \in DOMAIN (p \o q) /\ (p \o q)[j] = p[j]
<1>1. DOMAIN p = 1..Len(p) /\ Len(p) \in Nat /\ Len(q) \in Nat
  OBVIOUS
<1>2. p \o q \in Seq(S) /\ Len(p \o q) = Len(p) + Len(q)
  OBVIOUS
<1>3. \A j \in 1..Len(p) : (p \o q)[j] = p[j]
  OBVIOUS
<1>4. DOMAIN (p \o q) = 1..(Len(p) + Len(q))
  BY <1>2
<1>5. \A j \in 1..Len(p) : j \in 1..(Len(p) + Len(q))
  BY <1>1
<1> QED
  BY <1>1, <1>3, <1>4, <1>5

LEMMA PutStream ==
  ASSUME SessionInv, AnswerInv, NEW t \in Proc, NEW m \in Asked, PutLine(t, m),
         NEW s \in Proc, reader[s] # "none"
  PROVE  /\ s # t => Stream(s)' = Stream(s)
         /\ s = t => \E l \in Sent(t, m) : Stream(s)' = Append(Stream(s), l)
<1>0. PICK l \in Sent(t, m) : stdin' = [stdin EXCEPT ![t] = Append(@, l)]
  BY DEF PutLine
<1>1. l \in Asked
  BY SentAsked
<1>2. stdin' = [stdin EXCEPT ![t] = Append(@, l)] /\ taken' = taken
  BY <1>0 DEF PutLine
<1>3. stdin'[t] = Append(stdin[t], l) /\ (s # t => stdin'[s] = stdin[s])
  BY <1>2 DEF AnswerInv, PipeInv, PipesTyped, OnProc
<1>4. taken[s] \in Seq(Asked) /\ stdin[s] \in Seq(Asked)
  BY DEF AnswerInv, PipeInv, PipesOf
<1>5. s = t => Stream(s)' = Append(Stream(s), l)
  <2>1. taken[s] \o Append(stdin[s], l) = Append(taken[s] \o stdin[s], l)
    <3>1. \A p, q \in Seq(Asked) : \A x \in Asked : p \o Append(q, x) = Append(p \o q, x)
      BY ConcatAppend
    <3> QED
      BY <1>1, <1>4, <3>1
  <2> QED
    BY <1>2, <1>3, <2>1, Zenon DEF Stream
<1>6. s # t => Stream(s)' = Stream(s)
  BY <1>2, <1>3 DEF Stream
<1> QED
  BY <1>5, <1>6

\* The stream of a session grows by what is written to it, and a call is
\* written by a caller that has the session.
LEMMA StreamStep ==
  ASSUME SessionInv, AnswerInv, [Next]_vars, NEW s \in Proc, reader[s] # "none"
  PROVE  \/ Stream(s)' = Stream(s)
         \/ \E m \in Asked : /\ Stream(s)' = Append(Stream(s), m)
                             /\ m.kind = "call" => \E c \in Caller : Calling(c) /\ using[c] = s
<1>1. CASE stdin' = stdin /\ taken' = taken
  BY <1>1 DEF Stream
<1>2. ASSUME NEW c \in Caller, Written(c)
      PROVE  \/ Stream(s)' = Stream(s)
             \/ \E m \in Asked : /\ Stream(s)' = Append(Stream(s), m)
                                 /\ m.kind = "call" => \E d \in Caller : Calling(d) /\ using[d] = s
  <2>1. using[c] \in Proc /\ PutLine(using[c], Outgoing(c)) /\ Outgoing(c) \in Asked /\ Writing(c)
    BY <1>2, OutgoingAsked DEF Written, Writing, Session, SessionInv, SessionUse, Making, Calling
  <2>2. \A m \in Sent(using[c], Outgoing(c)) : m \in Asked /\ (m.kind = "call" => m = Outgoing(c))
    BY <2>1, SentAsked
  <2>3. Outgoing(c).kind = "call" => Calling(c)
    BY <2>1 DEF Outgoing, Line, At, Calling, Writing
  <2>4. s # using[c] => Stream(s)' = Stream(s)
    BY <2>1, PutStream
  <2>5. s = using[c] => \E m \in Sent(using[c], Outgoing(c)) : Stream(s)' = Append(Stream(s), m)
    BY <2>1, PutStream
  <2> QED
    BY <2>1, <2>2, <2>3, <2>4, <2>5
<1>3. ASSUME NEW t \in Proc, ReaderAnswers(t)
      PROVE  \/ Stream(s)' = Stream(s)
             \/ \E m \in Asked : Stream(s)' = Append(Stream(s), m) /\ m.kind # "call"
  <2>1. CASE child[t] \in {"running", "closing"}
    <3>1. PutLine(t, Line("answer", 1, NoCall))
      BY <1>3, <2>1 DEF ReaderAnswers
    <3>2. Line("answer", 1, NoCall) \in Asked /\ Line("answer", 1, NoCall).kind = "answer"
      BY DEF Asked, Line, Lines, Kinds
    <3>3. s # t => Stream(s)' = Stream(s)
      BY <3>1, <3>2, PutStream
    <3>4. s = t => \E m \in Sent(t, Line("answer", 1, NoCall)) : Stream(s)' = Append(Stream(s), m)
      BY <3>1, <3>2, PutStream
    <3>5. \A m \in Sent(t, Line("answer", 1, NoCall)) : m \in Asked /\ m.kind # "call"
      BY <3>2, SentAsked
    <3> QED
      BY <3>3, <3>4, <3>5
  <2>2. CASE child[t] \notin {"running", "closing"}
    <3>1. stdin' = stdin /\ taken' = taken
      BY <1>3, <2>2 DEF ReaderAnswers, serverVars
    <3> QED
      BY <3>1 DEF Stream
  <2> QED
    BY <2>1, <2>2
<1>4. ASSUME NEW t \in Proc, ReadLine(t) PROVE Stream(s)' = Stream(s)
  <2>1. /\ stdin[t] # <<>> /\ stdin' = [stdin EXCEPT ![t] = Tail(@)]
        /\ taken' = [taken EXCEPT ![t] = Append(@, Head(stdin[t]))]
    BY <1>4 DEF ReadLine
  <2>2. /\ s # t => stdin'[s] = stdin[s] /\ taken'[s] = taken[s]
        /\ s = t => stdin'[s] = Tail(stdin[s]) /\ taken'[s] = Append(taken[s], Head(stdin[s]))
    BY <2>1 DEF AnswerInv, PipeInv, PipesTyped, OnProc
  <2>3. taken[s] \in Seq(Asked) /\ stdin[s] \in Seq(Asked)
    BY DEF AnswerInv, PipeInv, PipesOf
  <2> QED
    <3>1. s = t => Append(taken[s], Head(stdin[s])) \o Tail(stdin[s]) = taken[s] \o stdin[s]
      BY <2>1, <2>3, ConcatMove
    <3>2. CASE s = t
      BY <2>2, <3>1, <3>2, Zenon DEF Stream
    <3>3. CASE s # t
      BY <2>2, <3>3, Zenon DEF Stream
    <3> QED
      BY <3>2, <3>3
<1>5. ASSUME NEW t \in Proc, ServerStep(t) \/ ServerFault(t), ~ReadLine(t)
      PROVE  stdin' = stdin /\ taken' = taken
  BY <1>5 DEF ServerStep, ServerFault, WriteLine, ServeEnds, Dead, Handle, Misbehave, Dies, HandlerPanics
<1>6. ASSUME NEW c \in Caller, CallerStep(c) \/ SpawnFails(c) \/ Dropped(c), ~Written(c)
      PROVE  stdin' = stdin /\ taken' = taken
  BY <1>6 DEF CallerStep, Begin, Reuse, Spawn, Register, LockStdin, WriteFails, Answered,
              TimedOut, SpawnFails, Dropped, serverVars
<1>7. ASSUME NEW t \in Proc, ReaderStep(t), ~ReaderAnswers(t) PROVE stdin' = stdin /\ taken' = taken
  BY <1>7 DEF ReaderStep, RouteLine, ReaderLocks, ReaderEnds, Drain, SessionDropped, OutputRead, serverVars
<1>8. CASE Shutdown \/ GraceEnds \/ AllEnded \/ UNCHANGED vars
  BY <1>1, <1>8 DEF Shutdown, GraceEnds, AllEnded, vars, serverVars
<1> QED
  BY <1>1, <1>2, <1>3, <1>4, <1>5, <1>6, <1>7, <1>8 DEF Next

\* How far the handshake of a session is; who makes one is alone with it,
\* and its lines are whole.
Greeted(s) == Greets(Stream(s))
Opened(s) == Opens(Stream(s))
Orderly(s) == CallsFollow(Stream(s))

CallerGreeted(c) ==
  \A s \in Proc : using[c] = s =>
    /\ Making(c) \/ Calling(c) => reader[s] # "none"
    /\ pc[c] \in {"handshake", "initialized"} => Greeted(s)
    /\ Calling(c) => Opened(s)
    /\ Making(c) => ~torn[s] /\ \A d \in Caller \ {c} : using[d] # s

GreetInv ==
  /\ torn \in [Proc -> BOOLEAN] /\ \A s \in Proc : s > spawned => ~torn[s]
  /\ \A s \in Proc : reader[s] # "none" => Orderly(s)
  /\ \A s \in Proc : session = s => reader[s] # "none" /\ Opened(s)
  /\ \A c \in Caller : CallerGreeted(c)

LEMMA GreetInit == ClientInit => GreetInv
<1> SUFFICES ASSUME ClientInit PROVE GreetInv
  OBVIOUS
<1>1. /\ torn = [s \in Proc |-> FALSE] /\ reader = [s \in Proc |-> "none"] /\ session = 0
      /\ \E w \in Workloads : pc = [c \in Caller |-> IF w.work[c].calls = 0 THEN "done" ELSE "start"]
  BY DEF ClientInit
<1>2. \A c \in Caller : pc[c] \in {"start", "done"}
  BY <1>1
<1>3. \A c \in Caller : CallerGreeted(c)
  BY <1>2 DEF CallerGreeted, Making, Calling
<1> QED
  BY <1>1, <1>3, ClientAssumption DEF GreetInv

\* What was opened stays open.
LEMMA GreetGrows ==
  ASSUME SessionInv, AnswerInv, GreetInv, [Next]_vars, NEW s \in Proc, reader[s] # "none"
  PROVE  (Greeted(s) => Greeted(s)') /\ (Opened(s) => Opened(s)') /\ Orderly(s)'
<1>0. Orderly(s)
  BY DEF GreetInv
<1>1. CASE Stream(s)' = Stream(s)
  BY <1>0, <1>1 DEF Greeted, Opened, Orderly, Greets, Opens, CallsFollow
<1>2. ASSUME NEW m \in Asked, Stream(s)' = Append(Stream(s), m),
             m.kind = "call" => \E c \in Caller : Calling(c) /\ using[c] = s
      PROVE  (Greeted(s) => Greeted(s)') /\ (Opened(s) => Opened(s)') /\ Orderly(s)'
  <2>1. Stream(s) \in Seq(Asked)
    BY DEF AnswerInv, PipeInv, PipesOf, Stream
  <2>2. m.kind = "call" => Opened(s)
    BY <1>2 DEF GreetInv, CallerGreeted
  <2>3. /\ Greets(Stream(s)) => Greets(Append(Stream(s), m))
        /\ Opens(Stream(s)) => Opens(Append(Stream(s), m))
        /\ CallsFollow(Append(Stream(s), m))
    BY <1>0, <2>1, <2>2, AppendOpens DEF Orderly, Opened
  <2> QED
    BY <1>2, <2>3 DEF Greeted, Opened, Orderly, Greets, Opens, CallsFollow
<1>3. \/ Stream(s)' = Stream(s)
      \/ \E m \in Asked : /\ Stream(s)' = Append(Stream(s), m)
                          /\ m.kind = "call" => \E c \in Caller : Calling(c) /\ using[c] = s
  BY StreamStep
<1>4. CASE Stream(s)' # Stream(s)
  <2>1. PICK m \in Asked : /\ Stream(s)' = Append(Stream(s), m)
                           /\ m.kind = "call" => \E c \in Caller : Calling(c) /\ using[c] = s
    BY <1>3, <1>4
  <2> QED
    BY <1>2, <2>1
<1> QED
  BY <1>1, <1>4

\* A caller that goes on as it was stays as far as it was.
LEMMA CallerKept ==
  ASSUME SessionInv, AnswerInv, GreetInv, [Next]_vars, NEW c \in Caller,
         \A s \in Proc : reader[s] # "none" => reader'[s] # "none",
         pc'[c] = pc[c], using'[c] = using[c],
         Making(c) => ~torn'[using[c]] /\ \A d \in Caller \ {c} : using'[d] = using[d]
  PROVE  CallerGreeted(c)'
<1> SUFFICES ASSUME NEW s \in Proc, using[c] = s
             PROVE  /\ Making(c) \/ Calling(c) => reader'[s] # "none"
                    /\ pc[c] \in {"handshake", "initialized"} => Greeted(s)'
                    /\ Calling(c) => Opened(s)'
                    /\ Making(c) => ~torn'[s] /\ \A d \in Caller \ {c} : using'[d] # s
  BY DEF CallerGreeted, Making, Calling
<1>1. CallerGreeted(c)
  BY DEF GreetInv
<1>2. reader[s] # "none" => (Greeted(s) => Greeted(s)') /\ (Opened(s) => Opened(s)')
  BY GreetGrows
<1>3. pc[c] \in {"handshake", "initialized"} => Making(c)
  BY DEF Making
<1> QED
  BY <1>1, <1>2, <1>3 DEF CallerGreeted

LEMMA ReaderKept ==
  ASSUME SessionInv, [Next]_vars, NEW s \in Proc, reader[s] # "none"
  PROVE  reader'[s] # "none"
<1>1. ASSUME NEW c \in Caller, CallerStep(c) \/ SpawnFails(c) \/ Dropped(c) PROVE reader'[s] # "none"
  <2>1. reader' = reader \/ \E t : reader' = [reader EXCEPT ![t] = "reading"]
    BY <1>1 DEF CallerStep, Begin, Reuse, Spawn, Register, LockStdin, Written, WriteFails, Answered,
                TimedOut, SpawnFails, Dropped
  <2> QED
    BY <2>1 DEF SessionInv, SessionTypes
<1>2. ASSUME NEW t \in Proc, ReaderStep(t) \/ UNCHANGED clientVars PROVE reader'[s] # "none"
  <2>1. reader' = reader \/ \E l \in {"reading", "answering", "draining", "ended"} :
                             reader' = [reader EXCEPT ![t] = l]
    BY <1>2 DEF ReaderStep, RouteLine, ReaderLocks, ReaderAnswers, ReaderEnds, Drain, SessionDropped,
                OutputRead, clientVars
  <2> QED
    BY <2>1 DEF SessionInv, SessionTypes
<1>3. CASE Shutdown \/ GraceEnds \/ AllEnded \/ UNCHANGED vars
  BY <1>3 DEF Shutdown, GraceEnds, AllEnded, vars, clientVars
<1> QED
  BY <1>1, <1>2, <1>3 DEF Next

\* A caller that has returned needs nothing.
LEMMA ReturnGreeted ==
  ASSUME NEW c \in Caller,
         pc'[c] \notin {"initialize", "handshake", "initialized", "register", "write", "await"}
  PROVE  CallerGreeted(c)'
BY DEF CallerGreeted, Making, Calling

LEMMA GreetStep ==
  ASSUME SessionInv, AnswerInv, GreetInv, [Next]_vars
  PROVE  GreetInv'
<1>0. \A s \in Proc : reader[s] # "none" => reader'[s] # "none"
  BY ReaderKept
<1>1. \A s \in Proc : reader[s] # "none" => Orderly(s)' /\ (Opened(s) => Opened(s)')
  BY GreetGrows
<1>2. ASSUME \A s \in Proc : reader'[s] # "none" => reader[s] # "none",
             session' = session \/ session' = 0,
             torn' \in [Proc -> BOOLEAN], \A s \in Proc : s > spawned' => ~torn'[s],
             \A c \in Caller : CallerGreeted(c)'
      PROVE  GreetInv'
  <2>1. \A s \in Proc : session' = s => reader'[s] # "none" /\ Opened(s)'
    BY <1>0, <1>1, <1>2, ClientAssumption DEF GreetInv
  <2> QED
    BY <1>1, <1>2, <2>1 DEF GreetInv
<1>3. ASSUME NEW c \in Caller, NEW l \in Labels, pc' = [pc EXCEPT ![c] = l],
             using' = using, reader' = reader, spawned' = spawned, session' = session \/ session' = 0,
             torn' \in [Proc -> BOOLEAN], \A s \in Proc : s # using[c] => torn'[s] = torn[s],
             torn'[using[c]] => using[c] <= spawned, CallerGreeted(c)'
      PROVE  GreetInv'
  <2>1. \A d \in Caller \ {c} : pc'[d] = pc[d]
    BY <1>3 DEF SessionInv, SessionTypes
  <2>2. \A d \in Caller \ {c} : Making(d) => using[d] \in Proc /\ using[d] # using[c] /\ ~torn[using[d]]
    BY DEF GreetInv, CallerGreeted, SessionInv, SessionUse
  <2>3. \A d \in Caller : CallerGreeted(d)'
    BY <1>0, <1>3, <2>1, <2>2, CallerKept
  <2>4. \A s \in Proc : s > spawned' => ~torn'[s]
    <3>1. spawned \in Nat /\ \A s \in Proc : s \in Nat
      BY ClientAssumption DEF SessionInv, SessionTypes
    <3> QED
      BY <1>3, <3>1 DEF GreetInv
  <2> QED
    BY <1>2, <1>3, <2>3, <2>4
<1>4. torn \in [Proc -> BOOLEAN] /\ \A s \in Proc : s > spawned => ~torn[s]
  BY DEF GreetInv
<1>5. \A c \in Caller : using[c] <= spawned
  BY DEF SessionInv, Unspawned
<1>6. ASSUME NEW c \in Caller, NEW l \in {"start", "session", "done"}, pc' = [pc EXCEPT ![c] = l],
             UNCHANGED <<using, reader, spawned, torn>>, session' = session \/ session' = 0
      PROVE  GreetInv'
  <2>1. pc'[c] = l
    BY <1>6 DEF SessionInv, SessionTypes
  <2>2. CallerGreeted(c)'
    BY <2>1, ReturnGreeted
  <2> QED
    BY <1>3, <1>4, <1>5, <1>6, <2>2 DEF Labels
<1>7. ASSUME UNCHANGED <<pc, using, session, spawned>>,
             torn' = torn \/ \E t : torn' = [torn EXCEPT ![t] = FALSE],
             \A s \in Proc : reader'[s] # "none" => reader[s] # "none"
      PROVE  GreetInv'
  <2>1. torn' \in [Proc -> BOOLEAN] /\ \A s \in Proc : ~torn[s] => ~torn'[s]
    BY <1>4, <1>7
  <2>2. \A c \in Caller : Making(c) => using[c] \in Proc /\ ~torn[using[c]]
    BY DEF GreetInv, CallerGreeted, SessionInv, SessionUse
  <2>3. \A c \in Caller : CallerGreeted(c)'
    BY <1>0, <1>7, <2>1, <2>2, CallerKept
  <2> QED
    BY <1>2, <1>4, <1>7, <2>1, <2>3
<1>a. ASSUME NEW c \in Caller, Begin(c) \/ SpawnFails(c) \/ WriteFails(c) \/ TimedOut(c) PROVE GreetInv'
  <2>1. /\ UNCHANGED <<using, reader, spawned, torn>> /\ (session' = session \/ session' = 0)
        /\ \E l \in {"session", "done"} : pc' = [pc EXCEPT ![c] = l]
    BY <1>a DEF Begin, SpawnFails, WriteFails, TimedOut, Return, Goto
  <2> QED
    BY <1>6, <2>1
<1>b. ASSUME NEW c \in Caller, Reuse(c) PROVE GreetInv'
  <2>1. /\ session \in Proc /\ using' = [using EXCEPT ![c] = session] /\ pc' = [pc EXCEPT ![c] = "register"]
        /\ slotLock = Nobody /\ UNCHANGED <<session, reader, spawned, torn>>
    BY <1>b DEF Reuse, NoneAlive, Goto
  <2>2. /\ pc'[c] = "register" /\ using'[c] = session
        /\ \A d \in Caller \ {c} : pc'[d] = pc[d] /\ using'[d] = using[d]
    BY <2>1 DEF SessionInv, SessionTypes
  <2>3. \A d \in Caller : ~Making(d)
    BY <2>1, ClientAssumption DEF SessionInv, SessionUse
  <2>4. \A d \in Caller \ {c} : CallerGreeted(d)'
    BY <1>0, <2>2, <2>3, CallerKept
  <2>5. CallerGreeted(c)'
    <3>1. \A s \in Proc : session = s => reader'[s] # "none" /\ Opened(s)'
      BY <1>0, <1>1 DEF GreetInv
    <3> QED
      BY <2>2, <3>1 DEF CallerGreeted, Making, Calling
  <2> QED
    BY <1>2, <1>4, <2>1, <2>4, <2>5
<1>c. ASSUME NEW c \in Caller, Spawn(c) PROVE GreetInv'
  <2>0. PICK s \in Proc : s = spawned + 1
    BY <1>c DEF Spawn
  <2>1. /\ using' = [using EXCEPT ![c] = s] /\ pc' = [pc EXCEPT ![c] = "initialize"] /\ session' = 0
        /\ reader' = [reader EXCEPT ![s] = "reading"] /\ spawned' = s /\ slotLock = Nobody
        /\ UNCHANGED <<torn, stdin, taken>>
    BY <1>c, <2>0 DEF Spawn, MustSpawn, SpawnedSlot, Goto
  <2>2. /\ pc'[c] = "initialize" /\ using'[c] = s /\ reader'[s] = "reading"
        /\ \A d \in Caller \ {c} : pc'[d] = pc[d] /\ using'[d] = using[d]
        /\ \A t \in Proc \ {s} : reader'[t] = reader[t]
    BY <2>1 DEF SessionInv, SessionTypes
  <2>3. /\ s > spawned /\ \A t \in Proc : t > s => t > spawned
        /\ \A d \in Caller : using[d] # s
    <3>1. spawned \in Nat /\ \A t \in Proc : t \in Nat
      BY ClientAssumption DEF SessionInv, SessionTypes
    <3> QED
      BY <1>5, <2>0, <3>1
  <2>4. \A d \in Caller : ~Making(d)
    BY <2>1, ClientAssumption DEF SessionInv, SessionUse
  <2>5. \A d \in Caller \ {c} : CallerGreeted(d)'
    BY <1>0, <2>2, <2>4, CallerKept
  <2>6. CallerGreeted(c)'
    BY <1>4, <2>1, <2>2, <2>3 DEF CallerGreeted, Making, Calling
  <2>7. Orderly(s)'
    <3>1. stdin'[s] = <<>> /\ taken'[s] = <<>>
      BY <2>1, <2>3 DEF AnswerInv, PipeInv, Blank
    <3>2. Stream(s)' = <<>>
      BY <3>1 DEF Stream
    <3> QED
      BY <3>2 DEF Orderly, CallsFollow
  <2>8. \A t \in Proc : session' = t => reader'[t] # "none" /\ Opened(t)'
    BY <2>1, ClientAssumption
  <2>9. \A t \in Proc : reader'[t] # "none" => Orderly(t)'
    BY <1>1, <2>2, <2>7
  <2> QED
    BY <1>4, <2>1, <2>3, <2>5, <2>6, <2>8, <2>9 DEF GreetInv
<1>d. ASSUME NEW c \in Caller, Register(c) PROVE GreetInv'
  <2>1. /\ pc[c] = "register" /\ pc' = [pc EXCEPT ![c] = "write"]
        /\ UNCHANGED <<using, reader, spawned, torn, session>>
    BY <1>d DEF Register, At, Goto
  <2>2. pc'[c] = "write"
    BY <2>1 DEF SessionInv, SessionTypes
  <2>3. CallerGreeted(c)'
    BY <1>0, <1>1, <2>1, <2>2 DEF GreetInv, CallerGreeted, Making, Calling
  <2> QED
    BY <1>3, <1>4, <1>5, <2>1, <2>3 DEF Labels
<1>e. ASSUME NEW c \in Caller, Answered(c) PROVE GreetInv'
  <2>1. UNCHANGED <<using, reader, spawned, torn, session>>
    BY <1>e DEF Answered
  <2>2. CASE \E l \in {"start", "done"} : pc' = [pc EXCEPT ![c] = l]
    BY <1>6, <2>1, <2>2
  <2>3. CASE pc[c] = "await" /\ pc' = [pc EXCEPT ![c] = "await"]
    <3>1. pc' = pc
      BY <2>3 DEF SessionInv, SessionTypes
    <3> QED
      BY <1>7, <2>1, <3>1
  <2>4. CASE pc[c] = "handshake" /\ pc' = [pc EXCEPT ![c] = "initialized"]
    <3>1. pc'[c] = "initialized"
      BY <2>4 DEF SessionInv, SessionTypes
    <3>2. \A s \in Proc : reader[s] # "none" /\ Greeted(s) => Greeted(s)'
      BY GreetGrows
    <3>3. CallerGreeted(c)'
      BY <1>0, <2>1, <2>4, <3>1, <3>2 DEF GreetInv, CallerGreeted, Making, Calling
    <3> QED
      BY <1>3, <1>4, <1>5, <2>1, <2>4, <3>3 DEF Labels
  <2> QED
    BY <1>e, <2>2, <2>3, <2>4 DEF Answered, Awaiting, Return, Goto, At
<1>f. ASSUME NEW c \in Caller, Dropped(c) PROVE GreetInv'
  <2>1. pc' = [pc EXCEPT ![c] = "done"] /\ UNCHANGED <<using, reader, spawned, session>>
    BY <1>f DEF Dropped, Return, Goto
  <2>2. torn' = torn \/ torn' = [torn EXCEPT ![using[c]] = TRUE]
    BY <1>f DEF Dropped, Session
  <2>3. torn' \in [Proc -> BOOLEAN] /\ \A s \in Proc : s # using[c] => torn'[s] = torn[s]
    BY <1>4, <2>2
  <2>4. pc'[c] = "done"
    BY <2>1 DEF SessionInv, SessionTypes
  <2>5. CallerGreeted(c)'
    BY <2>4, ReturnGreeted
  <2> QED
    BY <1>3, <1>5, <2>1, <2>3, <2>5 DEF Labels
<1>g. ASSUME NEW c \in Caller, LockStdin(c) PROVE GreetInv'
  BY <1>7, <1>g DEF LockStdin
<1>h. ASSUME NEW s \in Proc,
             \/ RouteLine(s) \/ ReaderLocks(s) \/ ReaderEnds(s) \/ Drain(s) \/ SessionDropped(s)
             \/ OutputRead(s) \/ UNCHANGED clientVars
      PROVE  GreetInv'
  <2>1. /\ UNCHANGED <<pc, using, session, spawned, torn>>
        /\ \/ reader' = reader
           \/ /\ reader[s] # "none"
              /\ \E l \in {"answering", "draining", "ended"} : reader' = [reader EXCEPT ![s] = l]
    BY <1>h DEF RouteLine, ReaderLocks, ReaderEnds, Drain, SessionDropped, OutputRead, clientVars
  <2>2. \A t \in Proc : reader'[t] # "none" => reader[t] # "none"
    BY <2>1 DEF SessionInv, SessionTypes
  <2> QED
    BY <1>7, <2>1, <2>2
<1>i. CASE GraceEnds \/ AllEnded \/ UNCHANGED vars
  BY <1>7, <1>i DEF GraceEnds, AllEnded, vars, clientVars
<1>j. CASE Shutdown
  <2>1. session' = 0 /\ UNCHANGED <<pc, using, spawned, torn, reader>>
    BY <1>j DEF Shutdown
  <2>2. \A c \in Caller : CallerGreeted(c)'
    <3>1. \A c \in Caller : Making(c) => using[c] \in Proc /\ ~torn[using[c]]
      BY DEF GreetInv, CallerGreeted, SessionInv, SessionUse
    <3> QED
      BY <1>0, <2>1, <3>1, CallerKept
  <2> QED
    BY <1>2, <1>4, <2>1, <2>2
<1>k. ASSUME NEW s \in Proc, ReaderAnswers(s) PROVE GreetInv'
  <2>1. /\ UNCHANGED <<pc, using, session, spawned>> /\ reader[s] # "none"
        /\ reader' = [reader EXCEPT ![s] = "reading"]
        /\ torn' = torn \/ torn' = [torn EXCEPT ![s] = FALSE]
    BY <1>k DEF ReaderAnswers, PutLine
  <2>2. \A t \in Proc : reader'[t] # "none" => reader[t] # "none"
    BY <2>1 DEF SessionInv, SessionTypes
  <2> QED
    BY <1>7, <2>1, <2>2
<1>l. ASSUME NEW c \in Caller, Written(c) PROVE GreetInv'
  <2>0. Writing(c) /\ PutLine(using[c], Outgoing(c)) /\ UNCHANGED <<using, reader, spawned>>
    BY <1>l DEF Written, Session
  <2>1. PICK s \in Proc : s = using[c]
    BY <2>0 DEF Writing, SessionInv, SessionUse, Making, Calling
  <2>2. /\ reader[s] # "none" /\ reader'[s] # "none" /\ torn' = [torn EXCEPT ![s] = FALSE]
        /\ Opened(s) => Opened(s)'
    BY <1>0, <1>1, <2>0, <2>1 DEF GreetInv, CallerGreeted, Writing, Making, Calling, PutLine
  <2>3. torn' \in [Proc -> BOOLEAN] /\ ~torn'[s] /\ \A t \in Proc : t # s => torn'[t] = torn[t]
    BY <1>4, <2>2
  <2>4. Stream(s) \in Seq(Asked)
    BY <2>2 DEF AnswerInv, PipeInv, PipesOf, Stream
  <2>5. Making(c) => Stream(s)' = Append(Stream(s), Outgoing(c)) /\ \A d \in Caller \ {c} : using[d] # s
    <3>1. Outgoing(c) \in Asked
      BY <2>0, OutgoingAsked
    <3>2. Making(c) => ~torn[s] /\ \A d \in Caller \ {c} : using[d] # s
      BY <2>1 DEF GreetInv, CallerGreeted
    <3>3. \E l \in Sent(s, Outgoing(c)) : Stream(s)' = Append(Stream(s), l)
      BY <2>0, <2>1, <2>2, <3>1, PutStream
    <3> QED
      BY <3>1, <3>2, <3>3, SentAsked
  <2>6. CASE pc[c] = "initialize"
    <3>1. pc' = [pc EXCEPT ![c] = "handshake"] /\ session' = session
      BY <1>l, <2>6 DEF Written, At, Goto
    <3>2. pc'[c] = "handshake"
      BY <3>1 DEF SessionInv, SessionTypes
    <3>3. Outgoing(c).kind = "initialize" /\ Outgoing(c) \in Asked
      BY <2>0, <2>6, OutgoingAsked DEF Outgoing, Line, At
    <3>4. Greeted(s)'
      <4>1. Greets(Append(Stream(s), Outgoing(c)))
        BY <2>4, <3>3, AppendOpens
      <4> QED
        BY <2>5, <2>6, <4>1 DEF Greeted, Greets, Making
    <3>5. CallerGreeted(c)'
      BY <2>0, <2>1, <2>2, <2>3, <2>5, <2>6, <3>2, <3>4 DEF CallerGreeted, Making, Calling
    <3> QED
      BY <1>3, <2>0, <2>1, <2>3, <3>1, <3>5 DEF Labels
  <2>7. CASE pc[c] = "initialized"
    <3>1. pc' = [pc EXCEPT ![c] = "register"] /\ session' = s
      BY <1>l, <2>1, <2>7 DEF Written, At, Goto, Session
    <3>2. pc'[c] = "register" /\ \A d \in Caller \ {c} : pc'[d] = pc[d]
      BY <3>1 DEF SessionInv, SessionTypes
    <3>3. Outgoing(c).kind = "initialized" /\ Outgoing(c) \in Asked
      BY <2>0, <2>7, OutgoingAsked DEF Outgoing, Line, At
    <3>4. Opened(s)'
      <4>1. Greets(Stream(s))
        BY <2>1, <2>7 DEF GreetInv, CallerGreeted, Greeted
      <4>2. Opens(Append(Stream(s), Outgoing(c)))
        BY <2>4, <3>3, <4>1, AppendOpens
      <4> QED
        BY <2>5, <2>7, <4>2 DEF Opened, Opens, Making
    <3>5. CallerGreeted(c)'
      BY <2>0, <2>1, <2>2, <3>2, <3>4 DEF CallerGreeted, Making, Calling
    <3>6. \A d \in Caller \ {c} : ~Making(d)
      BY <2>7 DEF SessionInv, SessionUse, Making
    <3>7. \A d \in Caller : CallerGreeted(d)'
      BY <1>0, <2>0, <3>2, <3>5, <3>6, CallerKept
    <3>8. \A t \in Proc : session' = t => reader'[t] # "none" /\ Opened(t)'
      BY <2>2, <3>1, <3>4
    <3>9. \A t \in Proc : reader'[t] # "none" => Orderly(t)'
      BY <1>1, <2>0
    <3>10. \A t \in Proc : t > spawned' => ~torn'[t]
      BY <1>4, <2>0, <2>3
    <3> QED
      BY <2>3, <3>7, <3>8, <3>9, <3>10 DEF GreetInv
  <2>8. CASE pc[c] = "write"
    <3>1. session' = session /\ \E l \in {"register", "await"} : pc' = [pc EXCEPT ![c] = l]
      BY <1>l, <2>8 DEF Written, At, Goto
    <3>2. pc'[c] \in {"register", "await"}
      BY <3>1 DEF SessionInv, SessionTypes
    <3>3. Opened(s)'
      BY <2>1, <2>2, <2>8 DEF GreetInv, CallerGreeted, Calling
    <3>4. CallerGreeted(c)'
      BY <2>0, <2>1, <2>2, <3>2, <3>3 DEF CallerGreeted, Making, Calling
    <3> QED
      BY <1>3, <2>0, <2>1, <2>3, <3>1, <3>4 DEF Labels
  <2> QED
    BY <2>0, <2>6, <2>7, <2>8 DEF Writing
<1> QED
  BY <1>a, <1>b, <1>c, <1>d, <1>e, <1>f, <1>g, <1>h, <1>i, <1>j, <1>k, <1>l DEF Next, CallerStep, ReaderStep

LEMMA GreetInvariant == ClientSpec => []GreetInv
<1>1. SessionInv /\ AnswerInv /\ GreetInv /\ [Next]_vars => GreetInv'
  BY GreetStep
<1> QED
  BY <1>1, GreetInit, AnswerInvariant, SessionTheorem, PTL DEF ClientSpec

\* start_session: a server is sent no call before the handshake is complete,
\* whatever is dropped, cut off or shut down in between.
THEOREM HandshakeTheorem == ClientSpec => []HandshakeFirst
<1>1. AnswerInv /\ GreetInv => HandshakeFirst
  <2> SUFFICES ASSUME AnswerInv, GreetInv, NEW s \in Proc, reader[s] # "none", NEW i \in DOMAIN taken[s],
                      taken[s][i].kind = "call"
               PROVE  \E j, k \in 1..(i - 1) : /\ taken[s][j].kind = "initialize"
                                              /\ taken[s][k].kind = "initialized" /\ j < k
    BY DEF HandshakeFirst
  <2>1. taken[s] \in Seq(Asked) /\ stdin[s] \in Seq(Asked) /\ CallsFollow(Stream(s))
    BY DEF AnswerInv, PipeInv, PipesOf, GreetInv, Orderly
  <2>2. /\ DOMAIN taken[s] = 1..Len(taken[s]) /\ Len(taken[s]) \in Nat
        /\ \A j \in 1..Len(taken[s]) : j \in DOMAIN Stream(s) /\ Stream(s)[j] = taken[s][j]
    BY <2>1, ConcatPrefix DEF Stream
  <2>3. PICK j \in 1..(i - 1), k \in 1..(i - 1) :
          Stream(s)[j].kind = "initialize" /\ Stream(s)[k].kind = "initialized" /\ j < k
    BY <2>1, <2>2 DEF CallsFollow
  <2>4. j \in 1..Len(taken[s]) /\ k \in 1..Len(taken[s])
    BY <2>2
  <2> QED
    BY <2>2, <2>3, <2>4
<1> QED
  BY <1>1, GreetInvariant, AnswerInvariant, PTL

----------------------------------------------------------------------------
(* A slow call is not a dead server.                                       *)

\* What may be said of a session that is dead.
Excused(s) ==
  \/ child[s] # "running"
  \/ closing = [stage |-> "grace", session |-> s]
  \/ OutputFailed(s)

\* What is on its way to the reader was written.
Flushed(s) == \A i \in DOMAIN stdout[s] : \E j \in DOMAIN replied[s] : replied[s][j] = stdout[s][i]

SlowInv ==
  /\ \A s \in Proc : dead[s] => reader[s] # "none" /\ Excused(s)
  /\ \A s \in Proc : reader[s] # "none" => Flushed(s)

LEMMA SlowInit == ClientInit => SlowInv
<1>1. ClientInit => dead = [s \in Proc |-> FALSE] /\ reader = [s \in Proc |-> "none"]
  BY DEF ClientInit
<1> QED
  BY <1>1 DEF SlowInv

\* What the steps do to the output of a session and to the record of it.
LEMMA OutputCases ==
  ASSUME [Next]_vars
  PROVE  \/ UNCHANGED <<stdout, replied>>
         \/ \E t \in Proc : /\ stdout[t] # <<>> /\ stdout' = [stdout EXCEPT ![t] = Tail(@)]
                            /\ replied' = replied
         \/ \E t \in Proc : WriteLine(t)
<1>1. ASSUME NEW c \in Caller, CallerStep(c) \/ SpawnFails(c) \/ Dropped(c)
      PROVE  UNCHANGED <<stdout, replied>>
  BY <1>1 DEF CallerStep, Begin, Reuse, Spawn, Register, LockStdin, Written, PutLine, WriteFails, Answered,
              TimedOut, SpawnFails, Dropped, serverVars
<1>2. ASSUME NEW t \in Proc, ReaderStep(t)
      PROVE  \/ UNCHANGED <<stdout, replied>>
             \/ /\ stdout[t] # <<>> /\ stdout' = [stdout EXCEPT ![t] = Tail(@)]
                /\ replied' = replied
  <2>1. CASE RouteLine(t) \/ ReaderEnds(t) \/ OutputRead(t)
    BY <2>1 DEF RouteLine, ReaderEnds, OutputRead
  <2>2. CASE ReaderLocks(t) \/ ReaderAnswers(t) \/ Drain(t) \/ SessionDropped(t)
    BY <2>2 DEF ReaderLocks, ReaderAnswers, PutLine, Drain, SessionDropped, serverVars
  <2> QED
    BY <1>2, <2>1, <2>2 DEF ReaderStep
<1>3. ASSUME NEW t \in Proc, ServerStep(t) \/ ServerFault(t)
      PROVE  WriteLine(t) \/ UNCHANGED <<stdout, replied>>
  BY <1>3 DEF ServerStep, ServerFault, ReadLine, ServeEnds, Dead, Handle, Misbehave, Dies, HandlerPanics
<1>4. CASE Shutdown \/ GraceEnds \/ AllEnded \/ UNCHANGED vars
  BY <1>4 DEF Shutdown, GraceEnds, AllEnded, vars, serverVars
<1> QED
  BY <1>1, <1>2, <1>3, <1>4 DEF Next

\* What was written stays written.
LEMMA OutputStep ==
  ASSUME AnswerInv, [Next]_vars, NEW s \in Proc, reader[s] # "none"
  PROVE  (OutputFailed(s) => OutputFailed(s)') /\ (Flushed(s) => Flushed(s)')
<1>0. stdout[s] \in Seq(Told) /\ replied[s] \in Seq(Told) /\ channel[s] \in Seq(Told) /\ PipesTyped
  BY DEF AnswerInv, PipeInv, PipesOf
<1>1. CASE stdout'[s] = stdout[s] /\ replied'[s] = replied[s]
  BY <1>1 DEF OutputFailed, Flushed
<1>2. CASE stdout[s] # <<>> /\ stdout'[s] = Tail(stdout[s]) /\ replied'[s] = replied[s]
  <2>1. \A i \in DOMAIN stdout'[s] : i + 1 \in DOMAIN stdout[s] /\ stdout'[s][i] = stdout[s][i + 1]
    BY <1>0, <1>2
  <2> QED
    BY <1>2, <2>1 DEF OutputFailed, Flushed
<1>3. CASE WriteLine(s)
  <2>1. /\ channel[s] # <<>>
        /\ stdout' = [stdout EXCEPT ![s] = Append(@, Head(channel[s]))]
        /\ replied' = [replied EXCEPT ![s] = Append(@, Head(channel[s]))]
    BY <1>3 DEF WriteLine
  <2>2. PICK m \in Told : m = Head(channel[s])
    BY <1>0, <2>1
  <2>3. stdout'[s] = Append(stdout[s], m) /\ replied'[s] = Append(replied[s], m)
    BY <1>0, <2>1, <2>2 DEF PipesTyped, OnProc
  <2>4. /\ \A i \in DOMAIN replied[s] : i \in DOMAIN replied'[s] /\ replied'[s][i] = replied[s][i]
        /\ Len(replied[s]) + 1 \in DOMAIN replied'[s] /\ replied'[s][Len(replied[s]) + 1] = m
    BY <1>0, <2>3
  <2>5. \A i \in DOMAIN stdout'[s] :
          \/ i \in DOMAIN stdout[s] /\ stdout'[s][i] = stdout[s][i]
          \/ stdout'[s][i] = m
    BY <1>0, <2>3
  <2> QED
    BY <2>4, <2>5 DEF OutputFailed, Flushed
<1>4. ASSUME NEW t \in Proc, stdout[t] # <<>>, stdout' = [stdout EXCEPT ![t] = Tail(@)], replied' = replied
      PROVE  \/ stdout'[s] = stdout[s]
             \/ stdout[s] # <<>> /\ stdout'[s] = Tail(stdout[s])
  BY <1>0, <1>4 DEF PipesTyped, OnProc
<1>5. ASSUME NEW t \in Proc, WriteLine(t), t # s
      PROVE  stdout'[s] = stdout[s] /\ replied'[s] = replied[s]
  BY <1>0, <1>5 DEF WriteLine, PipesTyped, OnProc
<1> QED
  BY <1>1, <1>2, <1>3, <1>4, <1>5, OutputCases

\* A process that has gone does not come back.
LEMMA GoneStays ==
  ASSUME SessionInv, [Next]_vars, NEW s \in Proc, reader[s] # "none", child[s] # "running"
  PROVE  child'[s] # "running"
<1>0. ~(s > spawned)
  BY DEF SessionInv, Unspawned
<1>1. ASSUME NEW c \in Caller, Spawn(c) PROVE child'[s] # "running"
  <2>1. s # spawned + 1
    BY <1>0, ClientAssumption DEF SessionInv, SessionTypes
  <2> QED
    BY <1>1, <2>1 DEF Spawn, SessionInv, SessionTypes
<1>2. ASSUME NEW c \in Caller, CallerStep(c) \/ SpawnFails(c) \/ Dropped(c), ~Spawn(c) PROVE child' = child
  BY <1>2 DEF CallerStep, Begin, Reuse, Register, LockStdin, Written, PutLine, WriteFails, Answered,
              TimedOut, SpawnFails, Dropped, serverVars
<1>3. ASSUME NEW t \in Proc, ReaderStep(t), ~SessionDropped(t) PROVE child' = child
  BY <1>3 DEF ReaderStep, RouteLine, ReaderLocks, ReaderAnswers, PutLine, ReaderEnds, Drain, OutputRead,
              serverVars
<1>4. ASSUME NEW t \in Proc, SessionDropped(t) PROVE child'[s] # "running"
  BY <1>4 DEF SessionDropped, SessionInv, SessionTypes
<1>5. ASSUME NEW t \in Proc, ServerStep(t) \/ ServerFault(t) PROVE child'[s] # "running"
  <2>1. child' = child \/ \E l \in {"served", "exited", "closing"} : child' = [child EXCEPT ![t] = l]
    BY <1>5 DEF ServerStep, ServerFault, ReadLine, WriteLine, ServeEnds, Dead, Handle, Misbehave, Dies,
                HandlerPanics
  <2> QED
    BY <2>1 DEF SessionInv, SessionTypes
<1>6. CASE GraceEnds
  BY <1>6 DEF GraceEnds, SessionInv, SessionTypes
<1>7. CASE Shutdown \/ AllEnded \/ UNCHANGED vars
  BY <1>7 DEF Shutdown, AllEnded, vars, serverVars
<1> QED
  BY <1>1, <1>2, <1>3, <1>4, <1>5, <1>6, <1>7 DEF Next

LEMMA ExcusedStays ==
  ASSUME SessionInv, AnswerInv, [Next]_vars, NEW s \in Proc, reader[s] # "none", Excused(s)
  PROVE  Excused(s)'
<1>1. CASE child[s] # "running"
  BY <1>1, GoneStays DEF Excused
<1>2. CASE OutputFailed(s)
  BY <1>2, OutputStep DEF Excused
<1>3. CASE closing = [stage |-> "grace", session |-> s]
  <2>1. closing.stage = "grace" /\ closing.session = s
    BY <1>3
  <2>2. CASE GraceEnds
    BY <2>1, <2>2 DEF GraceEnds, Excused, SessionInv, SessionTypes
  <2>3. CASE closing' = closing
    BY <1>3, <2>3 DEF Excused
  <2>4. ~Shutdown
    BY <2>1 DEF Shutdown
  <2>5. ASSUME NEW c \in Caller, CallerStep(c) \/ SpawnFails(c) \/ Dropped(c) PROVE closing' = closing
    BY <2>5 DEF CallerStep, Begin, Reuse, Spawn, Register, LockStdin, Written, WriteFails, Answered,
                TimedOut, SpawnFails, Dropped
  <2>6. ASSUME NEW t \in Proc, ReaderStep(t) PROVE closing' = closing
    BY <2>6 DEF ReaderStep, RouteLine, ReaderLocks, ReaderAnswers, ReaderEnds, Drain, SessionDropped,
                OutputRead, clientVars
  <2>7. CASE UNCHANGED clientVars \/ AllEnded \/ UNCHANGED vars
    BY <2>3, <2>7 DEF AllEnded, vars, clientVars
  <2> QED
    BY <2>2, <2>3, <2>4, <2>5, <2>6, <2>7 DEF Next
<1> QED
  BY <1>1, <1>2, <1>3 DEF Excused

\* A session is marked dead by a broken pipe, by the end of its output, by a
\* line that is not UTF-8 or by shutdown.
LEMMA DeadStep ==
  ASSUME SessionInv, AnswerInv, GreetInv, SlowInv, [Next]_vars, NEW s \in Proc, dead'[s], ~dead[s]
  PROVE  reader[s] # "none" /\ Excused(s)'
<1>0. dead \in [Proc -> BOOLEAN]
  BY DEF SessionInv, SessionTypes
<1>1. ASSUME NEW c \in Caller, WriteFails(c) PROVE reader[s] # "none" /\ Excused(s)'
  <2>1. using[c] = s /\ Writing(c) /\ child[s] # "running" /\ child' = child
    BY <1>0, <1>1 DEF WriteFails, Session, serverVars
  <2>2. Making(c) \/ Calling(c)
    BY <2>1 DEF Writing, Making, Calling
  <2> QED
    BY <2>1, <2>2 DEF GreetInv, CallerGreeted, Excused
<1>2. ASSUME NEW t \in Proc, ReaderAnswers(t) PROVE reader[s] # "none" /\ Excused(s)'
  <2>1. t = s /\ child[s] # "running" /\ child' = child
    BY <1>0, <1>2 DEF ReaderAnswers, serverVars
  <2> QED
    BY <1>2, <2>1 DEF ReaderAnswers, Excused
<1>3. ASSUME NEW t \in Proc, ReaderEnds(t) PROVE reader[s] # "none" /\ Excused(s)'
  <2>1. t = s /\ reader[s] = "reading" /\ OutputOver(s) /\ UNCHANGED <<child, replied>>
    BY <1>0, <1>3 DEF ReaderEnds
  <2>2. CASE stdout[s] # <<>> /\ Head(stdout[s]).kind = "not_text"
    <3>1. stdout[s] \in Seq(Told)
      BY <2>1 DEF AnswerInv, PipeInv, PipesOf
    <3>2. 1 \in DOMAIN stdout[s] /\ Head(stdout[s]) = stdout[s][1]
      BY <2>2, <3>1
    <3>3. OutputFailed(s)
      BY <2>1, <2>2, <3>2 DEF SlowInv, Flushed, OutputFailed
    <3> QED
      BY <2>1, <3>3 DEF OutputFailed, Excused
  <2>3. CASE child[s] \in {"closing", "exited", "served"}
    BY <2>1, <2>3 DEF Excused
  <2> QED
    BY <2>1, <2>2, <2>3 DEF OutputOver
<1>4. CASE Shutdown
  <2>1. session = s /\ closing' = [stage |-> "grace", session |-> s]
    BY <1>0, <1>4 DEF Shutdown
  <2> QED
    BY <2>1 DEF GreetInv, Excused
<1>5. ASSUME NEW c \in Caller, CallerStep(c) \/ SpawnFails(c) \/ Dropped(c), ~WriteFails(c) PROVE dead' = dead
  BY <1>5 DEF CallerStep, Begin, Reuse, Spawn, Register, LockStdin, Written, Answered, TimedOut, SpawnFails,
              Dropped
<1>6. ASSUME NEW t \in Proc, ReaderStep(t), ~ReaderAnswers(t), ~ReaderEnds(t) PROVE dead' = dead
  BY <1>6 DEF ReaderStep, RouteLine, ReaderLocks, Drain, SessionDropped, OutputRead, clientVars
<1>7. CASE UNCHANGED clientVars \/ GraceEnds \/ AllEnded \/ UNCHANGED vars
  BY <1>7 DEF GraceEnds, AllEnded, vars, clientVars
<1> QED
  BY <1>1, <1>2, <1>3, <1>4, <1>5, <1>6, <1>7 DEF Next

\* A reader does not go back to where it was before its session was made, and
\* when it starts nothing has been written.
LEMMA ReaderCases ==
  ASSUME SessionInv, AnswerInv, [Next]_vars, NEW s \in Proc
  PROVE  /\ reader[s] # "none" => reader'[s] # "none"
         /\ reader[s] = "none" /\ reader'[s] # "none" => stdout'[s] = <<>>
<1>0. reader \in [Proc -> ReaderStates]
  BY DEF SessionInv, SessionTypes
<1>1. ASSUME NEW c \in Caller, Spawn(c)
      PROVE  /\ reader[s] # "none" => reader'[s] # "none"
             /\ reader[s] = "none" /\ reader'[s] # "none" => stdout'[s] = <<>>
  <2>1. /\ reader' = [reader EXCEPT ![spawned + 1] = "reading"] /\ stdout' = stdout
        /\ spawned + 1 > spawned
    BY <1>1 DEF Spawn, SessionInv, SessionTypes
  <2>2. s > spawned => stdout[s] = <<>>
    BY DEF AnswerInv, PipeInv, Blank
  <2> QED
    BY <1>0, <2>1, <2>2
<1>2. ASSUME NEW c \in Caller, CallerStep(c) \/ SpawnFails(c) \/ Dropped(c), ~Spawn(c) PROVE reader' = reader
  BY <1>2 DEF CallerStep, Begin, Reuse, Register, LockStdin, Written, WriteFails, Answered, TimedOut,
              SpawnFails, Dropped
<1>3. ASSUME NEW t \in Proc, ReaderStep(t)
      PROVE  \/ reader' = reader
             \/ /\ reader[t] # "none"
                /\ \E l \in {"reading", "answering", "draining", "ended"} : reader' = [reader EXCEPT ![t] = l]
  BY <1>3 DEF ReaderStep, RouteLine, ReaderLocks, ReaderAnswers, ReaderEnds, Drain, SessionDropped,
              OutputRead, clientVars
<1>4. CASE UNCHANGED clientVars \/ Shutdown \/ GraceEnds \/ AllEnded \/ UNCHANGED vars
  BY <1>4 DEF Shutdown, GraceEnds, AllEnded, vars, clientVars
<1> QED
  BY <1>0, <1>1, <1>2, <1>3, <1>4 DEF Next

LEMMA SlowStep ==
  ASSUME SessionInv, AnswerInv, GreetInv, SlowInv, [Next]_vars
  PROVE  SlowInv'
<1>1. \A s \in Proc : reader[s] # "none" => reader'[s] # "none"
  BY ReaderCases
<1>2. ASSUME NEW s \in Proc, dead'[s] PROVE reader'[s] # "none" /\ Excused(s)'
  <2>1. CASE dead[s]
    BY <1>1, <2>1, ExcusedStays DEF SlowInv
  <2>2. CASE ~dead[s]
    BY <1>1, <1>2, <2>2, DeadStep
  <2> QED
    BY <2>1, <2>2
<1>3. ASSUME NEW s \in Proc, reader'[s] # "none" PROVE Flushed(s)'
  <2>1. CASE reader[s] # "none"
    BY <2>1, OutputStep DEF SlowInv
  <2>2. CASE reader[s] = "none"
    BY <1>3, <2>2, ReaderCases DEF Flushed
  <2> QED
    BY <2>1, <2>2
<1> QED
  BY <1>2, <1>3 DEF SlowInv

\* stdio.rs:170-171, "one slow tool call is not a dead server": a session is
\* marked dead only when its process has gone or is shut down, or has written
\* a line that is not UTF-8, which ends the reader (stdio.rs:304), whatever the
\* callers, their timeouts and the other faults of the servers.
THEOREM SlowTheorem == ClientSpec => []SlowIsNotDead
<1>1. SessionInv /\ AnswerInv /\ GreetInv /\ SlowInv /\ [Next]_vars => SlowInv'
  BY SlowStep
<1>2. SlowInv => SlowIsNotDead
  BY DEF SlowInv, SlowIsNotDead, Excused
<1> QED
  BY <1>1, <1>2, SlowInit, GreetInvariant, AnswerInvariant, SessionTheorem, PTL DEF ClientSpec

----------------------------------------------------------------------------
(* The server answers every line it reads.                                 *)

\* What comes in; a line that is not JSON has no id.
Incoming == {m \in Lines : m.kind \in {"garbled", "not_text"} => m.id = 0}

\* The answers given so far, written or not.
Log(s) == replied[s] \o channel[s]

WithId(q, id) == {i \in DOMAIN q : q[i].id = id}

\* As many answers with an id as there are lines with it that ask for one
\* and whose task has ended.
Settled(s) ==
  \A id \in Nat : Cardinality(WithId(Log(s), id)) = Cardinality(AskedWith(s, id) \ tasks[s])

Served(s) ==
  /\ stdin[s] \in Seq(Incoming) /\ taken[s] \in Seq(Incoming)
  /\ channel[s] \in Seq(Lines) /\ replied[s] \in Seq(Lines)
  /\ \A i \in tasks[s] : i \in DOMAIN taken[s] /\ taken[s][i].kind \in Asks
  /\ Settled(s)
  /\ child[s] = "served" =>
       (stdin[s] = <<>> \/ InputFailed(s)) /\ tasks[s] = {} /\ channel[s] = <<>>

ServedInv == faults \in Nat /\ (faults = 0 => \A s \in Proc : Served(s))

\* A part of a sequence's places is finite.
LEMMA PlacesFinite ==
  ASSUME NEW S, NEW q \in Seq(S), NEW T \in SUBSET DOMAIN q
  PROVE  IsFiniteSet(T) /\ Cardinality(T) \in Nat
<1>1. IsFiniteSet(1..Len(q))
  BY FS_Interval
<1>2. T \in SUBSET (1..Len(q))
  OBVIOUS
<1>3. IsFiniteSet(T)
  BY <1>1, <1>2, FS_Subset
<1> QED
  BY <1>3, FS_CardinalityType

LEMMA ServedInit == ClientInit => ServedInv
<1> SUFFICES ASSUME ClientInit PROVE ServedInv
  OBVIOUS
<1> PICK w \in Workloads :
      /\ spawned = IF w.script = <<>> THEN 0 ELSE 1
      /\ stdin = [s \in Proc |-> IF s = 1 THEN w.script ELSE <<>>]
      /\ tasks = [s \in Proc |-> {}] /\ taken = [s \in Proc |-> <<>>]
      /\ channel = [s \in Proc |-> <<>>] /\ replied = [s \in Proc |-> <<>>]
      /\ child = [s \in Proc |-> IF s <= spawned THEN "running" ELSE "none"] /\ faults = 0
  BY DEF ClientInit
<1>1. SUFFICES ASSUME NEW s \in Proc PROVE Served(s)
  BY DEF ServedInv
<1>2. stdin[s] \in Seq(Incoming)
  <2>1. ScriptLine \subseteq Incoming
    BY DEF ScriptLine, Incoming, Lines, Kinds
  <2>2. w.script \in Seq(Incoming)
    BY <2>1, ClientAssumption, SeqMono
  <2> QED
    BY <2>2
<1>3. Settled(s)
  <2>1. Log(s) = <<>>
    BY DEF Log
  <2>2. \A id \in Nat : WithId(Log(s), id) = {} /\ AskedWith(s, id) \ tasks[s] = {}
    BY <2>1 DEF WithId, AskedWith
  <2> QED
    BY <2>2 DEF Settled
<1> QED
  BY <1>2, <1>3 DEF Served

LEMMA SettledKept ==
  ASSUME NEW s \in Proc, Settled(s), Log(s)' = Log(s), taken'[s] = taken[s], tasks'[s] = tasks[s]
  PROVE  Settled(s)'
<1>1. \A id \in Nat : AskedWith(s, id)' = AskedWith(s, id)
  BY DEF AskedWith
<1>2. \A id \in Nat : WithId(Log(s), id)' = WithId(Log(s), id)
  BY DEF WithId
<1> QED
  BY <1>1, <1>2 DEF Settled

\* A step that leaves a server's side of the pipes alone.
LEMMA ServedKept ==
  ASSUME NEW s \in Proc, Served(s),
         stdin'[s] = stdin[s], taken'[s] = taken[s], tasks'[s] = tasks[s],
         channel'[s] = channel[s], replied'[s] = replied[s],
         child'[s] = "served" => child[s] = "served"
  PROVE  Served(s)'
<1>1. Log(s)' = Log(s)
  BY DEF Log
<1>2. Settled(s)'
  BY <1>1, SettledKept DEF Served
<1> QED
  BY <1>2 DEF Served, Incoming, Lines, InputFailed

LEMMA ReadServed ==
  ASSUME PipesTyped, NEW s \in Proc, Served(s), ReadLine(s)
  PROVE  Served(s)'
<1>1. /\ child[s] = "running" /\ stdin[s] # <<>> /\ child' = child
      /\ stdin'[s] = Tail(stdin[s]) /\ taken'[s] = Append(taken[s], Head(stdin[s]))
      /\ tasks'[s] = IF Head(stdin[s]).kind \in Asks THEN tasks[s] \cup {Len(taken[s]) + 1} ELSE tasks[s]
      /\ channel'[s] = channel[s] /\ replied'[s] = replied[s]
  BY DEF ReadLine, PipesTyped, OnProc
<1>2. /\ stdin[s] \in Seq(Incoming) /\ taken[s] \in Seq(Incoming)
      /\ channel[s] \in Seq(Lines) /\ replied[s] \in Seq(Lines) /\ Settled(s)
      /\ \A i \in tasks[s] : i \in DOMAIN taken[s] /\ taken[s][i].kind \in Asks
  BY DEF Served
<1>3. PICK m \in Incoming : m = Head(stdin[s])
  BY <1>1, <1>2
<1>4. /\ stdin'[s] \in Seq(Incoming) /\ taken'[s] \in Seq(Incoming)
      /\ channel'[s] \in Seq(Lines) /\ replied'[s] \in Seq(Lines)
  BY <1>1, <1>2, <1>3
<1>5. /\ DOMAIN taken'[s] = DOMAIN taken[s] \cup {Len(taken[s]) + 1}
      /\ Len(taken[s]) + 1 \notin DOMAIN taken[s] /\ taken'[s][Len(taken[s]) + 1] = m
      /\ \A i \in DOMAIN taken[s] : taken'[s][i] = taken[s][i]
  BY <1>1, <1>2, <1>3
<1>6. \A i \in tasks'[s] : i \in DOMAIN taken'[s] /\ taken'[s][i].kind \in Asks
  BY <1>1, <1>2, <1>3, <1>5
<1>7. Log(s)' = Log(s)
  BY <1>1 DEF Log
<1>8. \A id \in Nat : AskedWith(s, id)' \ tasks'[s] = AskedWith(s, id) \ tasks[s]
  <2> SUFFICES ASSUME NEW id \in Nat
               PROVE  AskedWith(s, id)' \ tasks'[s] = AskedWith(s, id) \ tasks[s]
    OBVIOUS
  <2> PICK n : n = Len(taken[s]) + 1
    OBVIOUS
  <2>1. n \notin tasks[s] /\ n \notin DOMAIN taken[s]
    BY <1>2, <1>5
  <2>2. \A i \in DOMAIN taken[s] : i \in tasks'[s] <=> i \in tasks[s]
    BY <1>1, <1>5
  <2>3. n \notin AskedWith(s, id)' \ tasks'[s]
    BY <1>1, <1>3, <1>5 DEF AskedWith
  <2>4. \A i \in DOMAIN taken[s] : i \in AskedWith(s, id)' <=> i \in AskedWith(s, id)
    BY <1>5 DEF AskedWith
  <2>5. AskedWith(s, id) \subseteq DOMAIN taken[s] /\ AskedWith(s, id)' \subseteq DOMAIN taken[s] \cup {n}
    BY <1>5 DEF AskedWith
  <2> QED
    BY <2>2, <2>3, <2>4, <2>5
<1>9. Settled(s)'
  BY <1>2, <1>7, <1>8 DEF Settled, WithId
<1> QED
  BY <1>1, <1>4, <1>6, <1>9 DEF Served, Incoming, Lines, InputFailed

LEMMA ResponseId ==
  ASSUME NEW m \in Incoming, m.kind \in Asks, NEW r \in Responses(m)
  PROVE  r \in Lines /\ r.id = m.id
<1>1. m.id \in Nat /\ m.call \in (Caller \X Nat) \cup {NoCall}
  BY DEF Incoming, Lines
<1>2. CASE m.kind = "garbled"
  <2>1. r = Line("parse_error", 0, NoCall) /\ m.id = 0
    BY <1>2 DEF Responses, Incoming
  <2> QED
    BY <2>1 DEF Line, Lines, Kinds
<1>3. CASE m.kind = "initialize"
  <2>1. r = Line("version", m.id, NoCall)
    BY <1>3 DEF Responses
  <2> QED
    BY <1>1, <2>1 DEF Line, Lines, Kinds
<1>4. CASE m.kind = "call"
  <2>1. \E k \in {"result", "tool_error"} : r = Line(k, m.id, m.call)
    BY <1>4 DEF Responses, CallTool
  <2> QED
    BY <1>1, <2>1 DEF Line, Lines, Kinds
<1>5. CASE m.kind = "answer"
  <2>1. r = Line("error", m.id, NoCall)
    BY <1>5 DEF Responses
  <2> QED
    BY <1>1, <2>1 DEF Line, Lines, Kinds
<1> QED
  BY <1>2, <1>3, <1>4, <1>5 DEF Asks

\* A task ends: one answer more, with the id of its line.
LEMMA HandleServed ==
  ASSUME PipesTyped, NEW s \in Proc, Served(s), NEW i, Handle(s, i)
  PROVE  Served(s)'
<1>1. PICK r \in Responses(taken[s][i]) : channel' = [channel EXCEPT ![s] = Append(@, r)]
  BY DEF Handle
<1>2. /\ child[s] = "running" /\ i \in tasks[s] /\ tasks'[s] = tasks[s] \ {i}
      /\ channel'[s] = Append(channel[s], r)
      /\ child' = child /\ stdin' = stdin /\ taken' = taken /\ replied' = replied
  BY <1>1 DEF Handle, PipesTyped, OnProc
<1>3. /\ stdin[s] \in Seq(Incoming) /\ taken[s] \in Seq(Incoming)
      /\ channel[s] \in Seq(Lines) /\ replied[s] \in Seq(Lines) /\ Settled(s)
      /\ \A j \in tasks[s] : j \in DOMAIN taken[s] /\ taken[s][j].kind \in Asks
  BY DEF Served
<1>4. PICK m \in Incoming : m = taken[s][i]
  BY <1>2, <1>3
<1>5. m.kind \in Asks /\ i \in DOMAIN taken[s]
  BY <1>2, <1>3, <1>4
<1>6. r \in Lines /\ r.id = m.id
  BY <1>4, <1>5, ResponseId
<1>7. channel'[s] \in Seq(Lines)
  BY <1>2, <1>3, <1>6
<1>8. /\ Log(s)' = Append(Log(s), r) /\ Log(s) \in Seq(Lines)
  <2>0. replied[s] \in Seq(Lines) /\ channel[s] \in Seq(Lines) /\ r \in Lines
    BY <1>3, <1>6
  <2>1. Log(s)' = replied[s] \o Append(channel[s], r)
    BY <1>2 DEF Log
  <2>2. replied[s] \o Append(channel[s], r) = Append(replied[s] \o channel[s], r)
    <3>1. \A p, q \in Seq(Lines) : \A x \in Lines : p \o Append(q, x) = Append(p \o q, x)
      BY ConcatAppend
    <3> QED
      BY <2>0, <3>1, Zenon
  <2>3. replied[s] \o channel[s] \in Seq(Lines)
    BY <2>0, ConcatType, Zenon
  <2> QED
    BY <2>1, <2>2, <2>3 DEF Log
<1>9. Settled(s)'
  <2> SUFFICES ASSUME NEW id \in Nat
               PROVE  Cardinality(WithId(Log(s), id)') = Cardinality((AskedWith(s, id) \ tasks[s])')
    BY DEF Settled
  <2> PICK n : n = Len(Log(s)) + 1
    OBVIOUS
  <2> PICK A : A = WithId(Log(s), id)
    OBVIOUS
  <2> PICK B : B = AskedWith(s, id) \ tasks[s]
    OBVIOUS
  <2>1. Cardinality(A) = Cardinality(B)
    BY <1>3 DEF Settled
  <2>2. IsFiniteSet(A) /\ n \notin A
    <3>1. A \in SUBSET DOMAIN Log(s) /\ n \notin DOMAIN Log(s)
      BY <1>8 DEF WithId
    <3> QED
      BY <1>8, <3>1, PlacesFinite
  <2>3. IsFiniteSet(B) /\ i \notin B
    <3>1. B \in SUBSET DOMAIN taken[s]
      BY DEF AskedWith
    <3> QED
      BY <1>2, <1>3, <3>1, PlacesFinite
  <2>4. (AskedWith(s, id) \ tasks[s])' = IF m.id = id THEN B \cup {i} ELSE B
    <3>1. AskedWith(s, id)' = AskedWith(s, id)
      BY <1>2 DEF AskedWith
    <3>2. i \in AskedWith(s, id) <=> m.id = id
      BY <1>4, <1>5 DEF AskedWith
    <3> QED
      BY <1>2, <3>1, <3>2
  <2>5. WithId(Log(s), id)' = IF m.id = id THEN A \cup {n} ELSE A
    <3>1. /\ DOMAIN Append(Log(s), r) = DOMAIN Log(s) \cup {n} /\ Append(Log(s), r)[n] = r
          /\ \A j \in DOMAIN Log(s) : Append(Log(s), r)[j] = Log(s)[j]
      BY <1>6, <1>8
    <3>2. WithId(Append(Log(s), r), id) = IF m.id = id THEN A \cup {n} ELSE A
      BY <1>6, <3>1 DEF WithId
    <3> QED
      BY <1>8, <3>2 DEF WithId
  <2>6. CASE m.id = id
    <3>1. Cardinality(A \cup {n}) = Cardinality(A) + 1 /\ Cardinality(B \cup {i}) = Cardinality(B) + 1
      BY <2>2, <2>3, FS_AddElement
    <3> QED
      BY <2>1, <2>4, <2>5, <2>6, <3>1
  <2>7. CASE m.id # id
    BY <2>1, <2>4, <2>5, <2>7
  <2> QED
    BY <2>6, <2>7
<1> QED
  BY <1>2, <1>3, <1>7, <1>9 DEF Served, Incoming, Lines, InputFailed

LEMMA WriteServed ==
  ASSUME PipesTyped, NEW s \in Proc, Served(s), WriteLine(s)
  PROVE  Served(s)'
<1>1. /\ child[s] = "running" /\ channel[s] # <<>> /\ channel'[s] = Tail(channel[s])
      /\ replied'[s] = Append(replied[s], Head(channel[s]))
      /\ child' = child /\ stdin' = stdin /\ taken' = taken /\ tasks' = tasks
  BY DEF WriteLine, PipesTyped, OnProc
<1>2. /\ stdin[s] \in Seq(Incoming) /\ taken[s] \in Seq(Incoming)
      /\ channel[s] \in Seq(Lines) /\ replied[s] \in Seq(Lines) /\ Settled(s)
      /\ \A j \in tasks[s] : j \in DOMAIN taken[s] /\ taken[s][j].kind \in Asks
  BY DEF Served
<1>3. channel'[s] \in Seq(Lines) /\ replied'[s] \in Seq(Lines)
  BY <1>1, <1>2
<1>4. Log(s)' = Log(s)
  BY <1>1, <1>2, ConcatMove DEF Log
<1>5. Settled(s)'
  BY <1>1, <1>2, <1>4, SettledKept
<1> QED
  BY <1>1, <1>2, <1>3, <1>5 DEF Served, Incoming, Lines, InputFailed

LEMMA PutServed ==
  ASSUME PipesTyped, NEW s \in Proc, Served(s), NEW m \in Incoming, PutLine(s, m)
  PROVE  Served(s)'
<1>0. PICK l \in Sent(s, m) : stdin' = [stdin EXCEPT ![s] = Append(@, l)]
  BY DEF PutLine
<1>1. /\ child[s] # "served" /\ stdin'[s] = Append(stdin[s], l)
      /\ child' = child /\ taken' = taken /\ tasks' = tasks /\ channel' = channel /\ replied' = replied
  BY <1>0 DEF PutLine, PipesTyped, OnProc
<1>2. l \in Incoming
  BY DEF Sent, Incoming, Line, Lines, Kinds
<1>3. stdin'[s] \in Seq(Incoming)
  BY <1>1, <1>2 DEF Served
<1>4. Settled(s)'
  <2>1. Log(s)' = Log(s)
    BY <1>1 DEF Log
  <2> QED
    BY <1>1, <2>1, SettledKept DEF Served
<1> QED
  BY <1>1, <1>3, <1>4 DEF Served, Incoming, Lines, InputFailed

LEMMA ServedStep ==
  ASSUME SessionInv, AnswerInv, ServedInv, [Next]_vars
  PROVE  ServedInv'
<1>0. faults \in Nat /\ PipesTyped
  BY DEF ServedInv, AnswerInv, PipeInv
\* The pipes of the other servers stay as they are.
<1>1. ASSUME NEW s \in Proc, faults' = faults, Served(s) => Served(s)',
             \A t \in Proc \ {s} :
               /\ stdin'[t] = stdin[t] /\ taken'[t] = taken[t] /\ tasks'[t] = tasks[t]
               /\ channel'[t] = channel[t] /\ replied'[t] = replied[t] /\ child'[t] = child[t]
      PROVE  ServedInv'
  <2>1. ASSUME faults = 0, NEW t \in Proc PROVE Served(t)'
    <3>1. Served(t)
      BY <2>1 DEF ServedInv
    <3> QED
      BY <1>1, <3>1, ServedKept
  <2> QED
    BY <1>0, <1>1, <2>1 DEF ServedInv
<1>2. ASSUME UNCHANGED <<stdin, taken, tasks, channel, replied, faults>>,
             \A t \in Proc : child'[t] = "served" => child[t] = "served"
      PROVE  ServedInv'
  <2>1. ASSUME faults = 0, NEW t \in Proc PROVE Served(t)'
    <3>1. Served(t)
      BY <2>1 DEF ServedInv
    <3> QED
      BY <1>2, <3>1, ServedKept
  <2> QED
    BY <1>0, <1>2, <2>1 DEF ServedInv
<1>3. ASSUME faults' = faults + 1 PROVE ServedInv'
  BY <1>0, <1>3 DEF ServedInv
<1>a. ASSUME NEW c \in Caller, Spawn(c) PROVE ServedInv'
  <2>1. /\ child' = [child EXCEPT ![spawned + 1] = "running"]
        /\ UNCHANGED <<stdin, taken, tasks, channel, replied, faults>>
    BY <1>a DEF Spawn
  <2>2. \A t \in Proc : child'[t] = "served" => child[t] = "served"
    BY <2>1 DEF SessionInv, SessionTypes
  <2> QED
    BY <1>2, <2>1, <2>2
<1>b. ASSUME NEW s \in Proc, NEW m \in Incoming, PutLine(s, m) PROVE ServedInv'
  <2>1. Served(s) => Served(s)'
    BY <1>0, <1>b, PutServed
  <2>2. /\ faults' = faults /\ UNCHANGED <<taken, tasks, channel, replied, child>>
        /\ \A t \in Proc \ {s} : stdin'[t] = stdin[t]
    BY <1>0, <1>b DEF PutLine, PipesTyped, OnProc
  <2> QED
    BY <1>1, <2>1, <2>2
<1>c. ASSUME NEW c \in Caller, Written(c) PROVE ServedInv'
  <2>1. using[c] \in Proc /\ PutLine(using[c], Outgoing(c)) /\ Writing(c)
    BY <1>c DEF Written, Writing, Session, SessionInv, SessionUse, Making, Calling
  <2>2. Outgoing(c) \in Lines
    BY <2>1, OutgoingAsked DEF Asked
  <2>3. Outgoing(c).kind \notin {"garbled", "not_text"}
    BY <2>1 DEF Outgoing, Writing, Line, At
  <2> QED
    BY <1>b, <2>1, <2>2, <2>3 DEF Incoming
<1>d. ASSUME NEW s \in Proc, ReaderAnswers(s) PROVE ServedInv'
  <2>1. CASE child[s] \in {"running", "closing"}
    <3>1. PutLine(s, Line("answer", 1, NoCall))
      BY <1>d, <2>1 DEF ReaderAnswers
    <3>2. Line("answer", 1, NoCall) \in Incoming
      BY DEF Incoming, Line, Lines, Kinds
    <3> QED
      BY <1>b, <3>1, <3>2
  <2>2. CASE child[s] \notin {"running", "closing"}
    BY <1>2, <1>d, <2>2 DEF ReaderAnswers, serverVars
  <2> QED
    BY <2>1, <2>2
<1>e. ASSUME NEW c \in Caller,
             \/ Begin(c) \/ Reuse(c) \/ Register(c) \/ LockStdin(c) \/ WriteFails(c) \/ Answered(c)
             \/ TimedOut(c)
      PROVE  ServedInv'
  <2>1. UNCHANGED serverVars
    BY <1>e DEF Begin, Reuse, Register, LockStdin, WriteFails, Answered, TimedOut
  <2> QED
    BY <1>2, <2>1 DEF serverVars
<1>f. ASSUME NEW c \in Caller, SpawnFails(c) \/ Dropped(c) PROVE ServedInv'
  BY <1>3, <1>f DEF SpawnFails, Dropped
<1>g. ASSUME NEW s \in Proc,
             RouteLine(s) \/ ReaderLocks(s) \/ ReaderEnds(s) \/ Drain(s) \/ OutputRead(s)
      PROVE  ServedInv'
  <2>1. UNCHANGED <<stdin, taken, tasks, channel, replied, faults, child>>
    BY <1>g DEF RouteLine, ReaderLocks, ReaderEnds, Drain, OutputRead, serverVars
  <2> QED
    BY <1>2, <2>1
<1>h. ASSUME NEW s \in Proc, SessionDropped(s) PROVE ServedInv'
  <2>1. /\ UNCHANGED <<stdin, taken, tasks, channel, replied, faults>>
        /\ child' = [child EXCEPT ![s] = IF @ = "served" THEN @ ELSE "exited"]
    BY <1>h DEF SessionDropped
  <2>2. \A t \in Proc : child'[t] = "served" => child[t] = "served"
    BY <2>1 DEF SessionInv, SessionTypes
  <2> QED
    BY <1>2, <2>1, <2>2
<1>i. ASSUME NEW s \in Proc, ServerFault(s) PROVE ServedInv'
  BY <1>3, <1>i DEF ServerFault, Misbehave, Dies, HandlerPanics
<1>j. ASSUME NEW s \in Proc, ServerStep(s) PROVE ServedInv'
  <2>1. ASSUME ReadLine(s) PROVE ServedInv'
    <3>1. Served(s) => Served(s)'
      BY <1>0, <2>1, ReadServed
    <3>2. /\ UNCHANGED <<faults, child, channel, replied>>
          /\ \A t \in Proc \ {s} : stdin'[t] = stdin[t] /\ taken'[t] = taken[t] /\ tasks'[t] = tasks[t]
      BY <1>0, <2>1 DEF ReadLine, PipesTyped, OnProc
    <3> QED
      BY <1>1, <3>1, <3>2
  <2>2. ASSUME WriteLine(s) PROVE ServedInv'
    <3>1. Served(s) => Served(s)'
      BY <1>0, <2>2, WriteServed
    <3>2. /\ UNCHANGED <<faults, child, stdin, taken, tasks>>
          /\ \A t \in Proc \ {s} : channel'[t] = channel[t] /\ replied'[t] = replied[t]
      BY <1>0, <2>2 DEF WriteLine, PipesTyped, OnProc
    <3> QED
      BY <1>1, <3>1, <3>2
  <2>3. ASSUME NEW i \in tasks[s], Handle(s, i) PROVE ServedInv'
    <3>1. Served(s) => Served(s)'
      BY <1>0, <2>3, HandleServed
    <3>2. /\ UNCHANGED <<faults, child, stdin, taken, replied>>
          /\ \A t \in Proc \ {s} : channel'[t] = channel[t] /\ tasks'[t] = tasks[t]
      BY <1>0, <2>3 DEF Handle, PipesTyped, OnProc
    <3> QED
      BY <1>1, <3>1, <3>2
  <2>4. ASSUME ServeEnds(s) PROVE ServedInv'
    <3>1. /\ stdin[s] = <<>> \/ InputFailed(s)
          /\ tasks[s] = {} /\ channel[s] = <<>>
          /\ UNCHANGED <<faults, stdin, taken, tasks, channel, replied>>
          /\ \A t \in Proc \ {s} : child'[t] = child[t]
      BY <2>4 DEF ServeEnds, InputOver, SessionInv, SessionTypes
    <3>2. ASSUME Served(s) PROVE Served(s)'
      <4>1. Log(s)' = Log(s)
        BY <3>1 DEF Log
      <4>2. Settled(s)'
        BY <3>1, <3>2, <4>1, SettledKept DEF Served
      <4> QED
        BY <3>1, <3>2, <4>2 DEF Served, Incoming, Lines, InputFailed
    <3> QED
      BY <1>1, <3>1, <3>2
  <2>5. ASSUME Dead(s) PROVE ServedInv'
    <3>1. /\ UNCHANGED <<stdin, taken, tasks, channel, replied, faults>>
          /\ child' = [child EXCEPT ![s] = "exited"]
      BY <2>5 DEF Dead
    <3>2. \A t \in Proc : child'[t] = "served" => child[t] = "served"
      BY <3>1 DEF SessionInv, SessionTypes
    <3> QED
      BY <1>2, <3>1, <3>2
  <2> QED
    BY <1>j, <2>1, <2>2, <2>3, <2>4, <2>5 DEF ServerStep
<1>k. CASE Shutdown \/ AllEnded \/ UNCHANGED vars
  <2>1. UNCHANGED serverVars
    BY <1>k DEF Shutdown, AllEnded, vars
  <2> QED
    BY <1>2, <2>1 DEF serverVars
<1>l. CASE GraceEnds
  <2>1. /\ UNCHANGED <<stdin, taken, tasks, channel, replied, faults>>
        /\ child' = [child EXCEPT ![closing.session] = IF @ \in {"exited", "served"} THEN @ ELSE "exited"]
    BY <1>l DEF GraceEnds
  <2>2. \A t \in Proc : child'[t] = "served" => child[t] = "served"
    BY <2>1 DEF SessionInv, SessionTypes
  <2> QED
    BY <1>2, <2>1, <2>2
<1> QED
  BY <1>a, <1>c, <1>d, <1>e, <1>f, <1>g, <1>h, <1>i, <1>j, <1>k, <1>l DEF Next, CallerStep, ReaderStep

\* serve.rs:69-84 and 96-114: a server that returned by itself, in a run
\* without a fault, answered every line it has read that asks for an answer,
\* once, and nothing else, lines that are not JSON and lines handled when the
\* input ended included; and it has read its input to the end, unless it met a
\* line that is not UTF-8.
THEOREM AnsweredTheorem == ClientSpec => []AllAnswered
<1>1. SessionInv /\ AnswerInv /\ ServedInv /\ [Next]_vars => ServedInv'
  BY ServedStep
<1>2. ServedInv => AllAnswered
  <2> SUFFICES ASSUME ServedInv, NEW s \in Proc, child[s] = "served", faults = 0
               PROVE  /\ stdin[s] = <<>> \/ InputFailed(s)
                      /\ \A id \in {taken[s][i].id : i \in DOMAIN taken[s]}
                                 \cup {replied[s][i].id : i \in DOMAIN replied[s]} :
                           Cardinality(AnsweredWith(s, id)) = Cardinality(AskedWith(s, id))
    BY DEF AllAnswered
  <2>1. /\ stdin[s] = <<>> \/ InputFailed(s)
        /\ tasks[s] = {} /\ channel[s] = <<>> /\ Settled(s)
        /\ taken[s] \in Seq(Incoming) /\ replied[s] \in Seq(Lines)
    BY DEF ServedInv, Served
  <2>2. Log(s) = replied[s]
    BY <2>1 DEF Log
  <2>3. \A id \in Nat : Cardinality(AnsweredWith(s, id)) = Cardinality(AskedWith(s, id))
    <3>1. \A id \in Nat : AskedWith(s, id) \ tasks[s] = AskedWith(s, id)
      BY <2>1
    <3>2. \A id \in Nat : AnsweredWith(s, id) = WithId(Log(s), id)
      BY <2>2 DEF AnsweredWith, WithId
    <3> QED
      BY <2>1, <3>1, <3>2 DEF Settled
  <2>4. /\ \A i \in DOMAIN taken[s] : taken[s][i].id \in Nat
        /\ \A i \in DOMAIN replied[s] : replied[s][i].id \in Nat
    <3>1. /\ \A i \in DOMAIN taken[s] : taken[s][i] \in Lines
          /\ \A i \in DOMAIN replied[s] : replied[s][i] \in Lines
      BY <2>1 DEF Incoming
    <3> QED
      BY <3>1 DEF Lines
  <2> QED
    BY <2>1, <2>3, <2>4
<1> QED
  BY <1>1, <1>2, ServedInit, AnswerInvariant, SessionTheorem, PTL DEF ClientSpec
=============================================================================
