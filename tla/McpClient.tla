----------------------------- MODULE McpClient -----------------------------
(***************************************************************************)
(* The stdio client of the MCP adapter (crates/tool-compiler-adapter-mcp/  *)
(* src/stdio.rs): callers share one session, which is respawned when it is *)
(* dead.  A request registers a slot under its id, writes its line and     *)
(* awaits the slot; a reader task per session routes responses to slots,   *)
(* answers requests of the server itself, and fails what is pending when   *)
(* stdout ends or cannot be read.  The slot of the session is locked while it is (re)made,   *)
(* and stdin while a line is written.                                      *)
(*                                                                         *)
(* The session with number s talks to process s of McpServer.  The reader  *)
(* holds a reference to its session until it has ended.                    *)
(***************************************************************************)
EXTENDS McpServer

CONSTANTS
  Caller, Nobody,
  Workloads,    \* what is asked: [work: [Caller -> Job], script: Seq of lines]
  MaxId,        \* bound on request ids
  Nothing       \* a slot without an answer

\* What a caller does: call_tool (one call), call_tools (several, pipelined)
\* or list_tools (one request after the other).
Job == [calls: Nat, pipelined: BOOLEAN]

\* A line of a script; what is not JSON has no id.
ScriptLine ==
  {m \in [kind: {"initialize", "initialized", "call", "answer", "garbled", "not_text"}, id: Nat,
          call: (Caller \X Nat) \cup {NoCall}] : m.kind \in {"garbled", "not_text"} => m.id = 0}

ASSUME ClientAssumption ==
  /\ \A w \in Workloads : w.work \in [Caller -> Job] /\ w.script \in Seq(ScriptLine)
  /\ MaxId \in Nat
  /\ Proc \subseteq Nat \ {0}
  /\ Nobody \notin Caller

VARIABLES
  work,         \* the jobs
  session,      \* McpStdioClient::session: a session, or 0
  slotLock,     \* who holds the mutex around it
  nextId,       \* ids handed out
  spawned,      \* sessions made
  initId,       \* [Proc -> the id of its initialize request]
  dead,         \* [Proc -> Session::dead]
  pending,      \* [Proc -> ids with a slot]
  mail,         \* [ids -> what was sent to the slot, Nothing before]
  stdinLock,    \* [Proc -> who writes]
  torn,         \* [Proc -> a line was cut off in the middle]
  reader,       \* [Proc -> "none", "reading", "answering", "draining", "ended"]
  pc,           \* [Caller -> where it is]
  using,        \* [Caller -> its session]
  ids,          \* [Caller -> the ids of its calls]
  got,          \* [Caller -> the answers to its calls]
  outcome,      \* [Caller -> "", or how its job ended]
  closing       \* shutdown: "open", "grace" or "closed", and its session

clientVars == <<work, session, slotLock, nextId, spawned, initId, dead, pending, mail, stdinLock,
                torn, reader, pc, using, ids, got, outcome, closing>>
vars == <<serverVars, clientVars>>

At(c, label) == pc[c] = label
Goto(c, label) == pc' = [pc EXCEPT ![c] = label]
Session(c) == using[c]
LastId(c) == ids[c][Len(ids[c])]

\* The caller returns, and drops the lock it may hold.
Return(c, how) ==
  /\ outcome' = [outcome EXCEPT ![c] = how]
  /\ Goto(c, "done")
  /\ slotLock' = IF slotLock = c THEN Nobody ELSE slotLock

----------------------------------------------------------------------------
(* session and start_session.                                              *)

\* call_tool and list_tools take an id before they ask for the session;
\* call_tools takes its ids later.
Begin(c) ==
  /\ At(c, "start")
  /\ IF work[c].pipelined \/ work[c].calls = 0 THEN UNCHANGED <<nextId, ids>>
     ELSE /\ nextId < MaxId
          /\ nextId' = nextId + 1
          /\ ids' = [ids EXCEPT ![c] = Append(@, nextId + 1)]
  /\ Goto(c, IF work[c].calls = 0 THEN "done" ELSE "session")
  /\ UNCHANGED <<serverVars, work, session, slotLock, spawned, initId, dead, pending, mail, stdinLock,
                 torn, reader, using, got, outcome, closing>>

NoneAlive == session \notin {s \in Proc : ~dead[s]}

\* session, when there is one that is not dead.
Reuse(c) ==
  /\ At(c, "session") /\ slotLock = Nobody
  /\ ~NoneAlive
  /\ using' = [using EXCEPT ![c] = session]
  /\ Goto(c, "register")
  /\ UNCHANGED <<serverVars, work, session, slotLock, nextId, spawned, initId, dead, pending, mail,
                 stdinLock, torn, reader, ids, got, outcome, closing>>

\* Mutant of MustSpawn: the slot is looked at without its lock.
MustSpawnUnlocked(c) == At(c, "session") /\ NoneAlive

\* session, when there is none or a dead one.
MustSpawn(c) == At(c, "session") /\ slotLock = Nobody /\ NoneAlive

\* Mutant of SpawnedSlot: the session is shared before its handshake.
SpawnedSlotEarly(c, s) == session' = s /\ slotLock' = Nobody

\* The slot while a session is started: empty, and locked.
SpawnedSlot(c, s) == session' = 0 /\ slotLock' = c

\* start_session: the child runs, its reader too, and the slot of the
\* initialize request is registered.
Spawn(c) ==
  /\ MustSpawn(c) /\ spawned + 1 \in Proc /\ nextId < MaxId
  /\ LET s == spawned + 1
     IN  /\ spawned' = s
         /\ SpawnedSlot(c, s)
         /\ child' = [child EXCEPT ![s] = "running"]
         /\ reader' = [reader EXCEPT ![s] = "reading"]
         /\ nextId' = nextId + 1
         /\ pending' = [pending EXCEPT ![s] = {nextId + 1}]
         /\ using' = [using EXCEPT ![c] = s]
         /\ initId' = [initId EXCEPT ![s] = nextId + 1]
         /\ Goto(c, "initialize")
  /\ UNCHANGED <<stdin, stdout, eof, tasks, channel, replied, taken, faults, work, dead, mail,
                 stdinLock, torn, ids, got, outcome, closing>>

\* spawn_stdio fails.
SpawnFails(c) ==
  /\ MustSpawn(c) /\ faults < MaxFaults
  /\ session' = 0
  /\ faults' = faults + 1
  /\ outcome' = [outcome EXCEPT ![c] = "mcp_transport"]
  /\ Goto(c, "done")
  /\ UNCHANGED <<stdin, stdout, child, eof, tasks, channel, replied, taken, work, slotLock,
                 nextId, spawned, initId, dead, pending, mail, stdinLock, torn, reader, using, ids,
                 got, closing>>

----------------------------------------------------------------------------
(* register, write and await_response.                                     *)

\* register; call_tools takes its next id here.
Register(c) ==
  /\ At(c, "register")
  /\ IF work[c].pipelined
     THEN /\ nextId < MaxId
          /\ nextId' = nextId + 1
          /\ ids' = [ids EXCEPT ![c] = Append(@, nextId + 1)]
     ELSE UNCHANGED <<nextId, ids>>
  /\ pending' = [pending EXCEPT ![Session(c)] = @ \cup {ids'[c][Len(ids'[c])]}]
  /\ Goto(c, "write")
  /\ UNCHANGED <<serverVars, work, session, slotLock, spawned, initId, dead, mail, stdinLock, torn,
                 reader, using, got, outcome, closing>>

\* The line a caller writes.
Outgoing(c) ==
  CASE At(c, "initialize") -> Line("initialize", initId[Session(c)], NoCall)
    [] At(c, "initialized") -> Line("initialized", 0, NoCall)
    [] OTHER -> Line("call", LastId(c), <<c, Len(ids[c])>>)

Writing(c) == pc[c] \in {"initialize", "initialized", "write"}

LockStdin(c) ==
  /\ Writing(c) /\ stdinLock[Session(c)] = Nobody
  /\ stdinLock' = [stdinLock EXCEPT ![Session(c)] = c]
  /\ UNCHANGED <<serverVars, work, session, slotLock, nextId, spawned, initId, dead, pending, mail, torn,
                 reader, pc, using, ids, got, outcome, closing>>

\* What goes out for a line; after one that was cut off it is part of that
\* line, which may have been cut inside a character.
Sent(s, m) == IF torn[s] THEN {Line("garbled", 0, NoCall), Line("not_text", 0, NoCall)} ELSE {m}

PutLine(s, m) ==
  /\ child[s] \in {"running", "closing"} /\ Room(stdin[s])
  /\ \E out \in Sent(s, m) : stdin' = [stdin EXCEPT ![s] = Append(@, out)]
  /\ torn' = [torn EXCEPT ![s] = FALSE]
  /\ stdinLock' = [stdinLock EXCEPT ![s] = Nobody]
  /\ UNCHANGED <<stdout, child, eof, tasks, channel, replied, taken, faults>>

\* The handshake ends: the callers can have the session.
Written(c) ==
  /\ Writing(c) /\ stdinLock[Session(c)] = c
  /\ PutLine(Session(c), Outgoing(c))
  /\ IF At(c, "initialized")
     THEN session' = Session(c) /\ slotLock' = Nobody
     ELSE UNCHANGED <<session, slotLock>>
  /\ Goto(c, CASE At(c, "initialize") -> "handshake"
               [] At(c, "initialized") -> "register"
               [] OTHER -> IF work[c].pipelined /\ Len(ids[c]) < work[c].calls
                           THEN "register" ELSE "await")
  /\ UNCHANGED <<work, nextId, spawned, initId, dead, pending, mail, reader, using, ids, got, outcome, closing>>

\* The pipe is broken.
WriteFails(c) ==
  /\ Writing(c) /\ stdinLock[Session(c)] = c
  /\ child[Session(c)] \notin {"running", "closing"}
  /\ dead' = [dead EXCEPT ![Session(c)] = TRUE]
  /\ stdinLock' = [stdinLock EXCEPT ![Session(c)] = Nobody]
  /\ Return(c, "mcp_transport")
  /\ UNCHANGED <<serverVars, work, session, nextId, spawned, initId, pending, mail, torn, reader, using,
                 ids, got, closing>>

\* The id of the answer a caller awaits.
Awaited(c) == IF At(c, "handshake") THEN initId[Session(c)] ELSE ids[c][Len(got[c]) + 1]
Awaiting(c) == pc[c] \in {"handshake", "await"}

\* tool_error, by what parse_response or the reader made of the slot.
ErrorCode(m) ==
  CASE m.kind = "closed" -> "mcp_transport"
    [] m.kind = "error" -> "mcp_server"
    [] m.kind \in {"no_result", "bad_version"} -> "mcp_protocol"
    [] OTHER -> ""

\* normalize_tool_result: one isError among the answers fails the call.
Verdict(answers) ==
  IF \E i \in DOMAIN answers : answers[i].kind = "tool_error" THEN "mcp_tool_error" ELSE "ok"

\* await_response returns an answer.
Answered(c) ==
  /\ Awaiting(c) /\ mail[Awaited(c)] # Nothing
  /\ LET m == mail[Awaited(c)]
         all == Append(got[c], m)
     IN  IF ErrorCode(m) # ""
         THEN Return(c, ErrorCode(m)) /\ UNCHANGED got
         ELSE IF At(c, "handshake")
         THEN Goto(c, "initialized") /\ UNCHANGED <<got, outcome, slotLock>>
         ELSE /\ got' = [got EXCEPT ![c] = all]
              /\ IF Len(all) = work[c].calls THEN Return(c, Verdict(all))
                 ELSE /\ Goto(c, IF work[c].pipelined THEN "await" ELSE "start")
                      /\ UNCHANGED <<outcome, slotLock>>
  /\ UNCHANGED <<serverVars, work, session, nextId, spawned, initId, dead, pending, mail, stdinLock,
                 torn, reader, using, ids, closing>>

\* Mutant of TimedOut: the wait has no end.
TimedOutNever(c) == Awaiting(c) /\ mail[Awaited(c)] = Nothing /\ UNCHANGED vars

\* Mutant of TimedOut: a slow call counts as a dead server.
TimedOutKills(c) ==
  /\ Awaiting(c) /\ mail[Awaited(c)] = Nothing
  /\ pending' = [pending EXCEPT ![Session(c)] = @ \ {Awaited(c)}]
  /\ dead' = [dead EXCEPT ![Session(c)] = TRUE]
  /\ Return(c, "timeout")
  /\ UNCHANGED <<serverVars, work, session, nextId, spawned, initId, mail, stdinLock, torn,
                 reader, using, ids, got, closing>>

\* The timeout of await_response; the session goes on.
TimedOut(c) ==
  /\ Awaiting(c) /\ mail[Awaited(c)] = Nothing
  /\ pending' = [pending EXCEPT ![Session(c)] = @ \ {Awaited(c)}]
  /\ Return(c, "timeout")
  /\ UNCHANGED <<serverVars, work, session, nextId, spawned, initId, dead, mail, stdinLock, torn,
                 reader, using, ids, got, closing>>

\* External: the future of the call is dropped, by the timeout of its policy
\* for one.  A line may have been written in part.
Dropped(c) ==
  /\ pc[c] \notin {"start", "done"} /\ faults < MaxFaults
  /\ faults' = faults + 1
  /\ Return(c, "dropped")
  /\ IF Session(c) # 0 /\ stdinLock[Session(c)] = c
     THEN /\ stdinLock' = [stdinLock EXCEPT ![Session(c)] = Nobody]
          /\ torn' \in {torn, [torn EXCEPT ![Session(c)] = TRUE]}
     ELSE UNCHANGED <<stdinLock, torn>>
  /\ UNCHANGED <<stdin, stdout, child, eof, tasks, channel, replied, taken, work, session,
                 nextId, spawned, initId, dead, pending, mail, reader, using, ids, got, closing>>

----------------------------------------------------------------------------
(* The reader task.                                                        *)

\* Mutant of Routed: an answer goes to whoever has waited longest.
RoutedOldest(s, m) ==
  IF pending[s] = {} THEN {} ELSE {CHOOSE i \in pending[s] : \A j \in pending[s] : i <= j}

\* The slots a response is sent to.
Routed(s, m) == pending[s] \cap {m.id}

\* next_line returns no line: stdout has ended, or what comes is not UTF-8.
OutputOver(s) ==
  \/ stdout[s] = <<>> /\ child[s] \in {"closing", "exited", "served"}
  \/ stdout[s] # <<>> /\ Head(stdout[s]).kind = "not_text"

\* route_line.
RouteLine(s) ==
  /\ reader[s] = "reading" /\ stdout[s] # <<>> /\ ~OutputOver(s)
  /\ LET m == Head(stdout[s])
     IN  IF m.kind \in {"request", "noise", "parse_error"}
         THEN /\ reader' = IF m.kind = "request" THEN [reader EXCEPT ![s] = "answering"] ELSE reader
              /\ UNCHANGED <<pending, mail>>
         ELSE /\ pending' = [pending EXCEPT ![s] = @ \ Routed(s, m)]
              /\ mail' = [i \in DOMAIN mail |-> IF i \in Routed(s, m) THEN m ELSE mail[i]]
              /\ UNCHANGED reader
  /\ stdout' = [stdout EXCEPT ![s] = Tail(@)]
  /\ UNCHANGED <<stdin, child, eof, tasks, channel, replied, taken, faults, work, session,
                 slotLock, nextId, spawned, initId, dead, stdinLock, torn, pc, using, ids, got, outcome,
                 closing>>

ReaderLocks(s) ==
  /\ reader[s] = "answering" /\ stdinLock[s] = Nobody
  /\ stdinLock' = [stdinLock EXCEPT ![s] = s]
  /\ UNCHANGED <<serverVars, work, session, slotLock, nextId, spawned, initId, dead, pending, mail, torn,
                 reader, pc, using, ids, got, outcome, closing>>

\* "method not found", or the pipe is broken.
ReaderAnswers(s) ==
  /\ reader[s] = "answering" /\ stdinLock[s] = s
  /\ IF child[s] \in {"running", "closing"}
     THEN PutLine(s, Line("answer", 1, NoCall)) /\ UNCHANGED dead
     ELSE /\ dead' = [dead EXCEPT ![s] = TRUE]
          /\ stdinLock' = [stdinLock EXCEPT ![s] = Nobody]
          /\ UNCHANGED <<serverVars, torn>>
  /\ reader' = [reader EXCEPT ![s] = "reading"]
  /\ UNCHANGED <<work, session, slotLock, nextId, spawned, initId, pending, mail, pc, using, ids, got,
                 outcome, closing>>

\* The loop is over: the session is dead, and then its slots are failed.
ReaderEnds(s) ==
  /\ reader[s] = "reading" /\ OutputOver(s)
  /\ stdout' = IF stdout[s] = <<>> THEN stdout ELSE [stdout EXCEPT ![s] = Tail(@)]
  /\ dead' = [dead EXCEPT ![s] = TRUE]
  /\ reader' = [reader EXCEPT ![s] = "draining"]
  /\ UNCHANGED <<stdin, child, eof, tasks, channel, replied, taken, faults, work, session, slotLock, nextId, spawned, initId, pending, mail, stdinLock,
                 torn, pc, using, ids, got, outcome, closing>>

Drain(s) ==
  /\ reader[s] = "draining"
  /\ mail' = [i \in DOMAIN mail |-> IF i \in pending[s] THEN Line("closed", i, NoCall) ELSE mail[i]]
  /\ pending' = [pending EXCEPT ![s] = {}]
  /\ reader' = [reader EXCEPT ![s] = "ended"]
  /\ UNCHANGED <<serverVars, work, session, slotLock, nextId, spawned, initId, dead, stdinLock, torn,
                 pc, using, ids, got, outcome, closing>>

\* External: what a server writes into a pipe of its own is read, and what it
\* writes after its reader has gone is lost.
OutputRead(s) ==
  /\ reader[s] \in {"none", "ended"} /\ stdout[s] # <<>>
  /\ stdout' = [stdout EXCEPT ![s] = Tail(@)]
  /\ UNCHANGED <<stdin, child, eof, tasks, channel, replied, taken, faults, clientVars>>

----------------------------------------------------------------------------
(* shutdown, and the end of a session.                                     *)

Shutdown ==
  /\ closing.stage = "open" /\ slotLock = Nobody /\ session # 0
  /\ dead' = [dead EXCEPT ![session] = TRUE]
  /\ closing' = [stage |-> "grace", session |-> session]
  /\ session' = 0
  /\ UNCHANGED <<serverVars, work, slotLock, nextId, spawned, initId, pending, mail, stdinLock, torn,
                 reader, pc, using, ids, got, outcome>>

\* The child has exited, or the grace period is over and it is killed.
GraceEnds ==
  /\ closing.stage = "grace"
  /\ child' = [child EXCEPT ![closing.session] = IF @ \in {"exited", "served"} THEN @ ELSE "exited"]
  /\ closing' = [closing EXCEPT !.stage = "closed"]
  /\ UNCHANGED <<stdin, stdout, eof, tasks, channel, replied, taken, faults, work, session,
                 slotLock, nextId, spawned, initId, dead, pending, mail, stdinLock, torn, reader, pc,
                 using, ids, got, outcome>>

Holds(c, s) == Session(c) = s /\ ~At(c, "done")

\* The last reference goes: stdin is closed, and kill_on_drop kills a child
\* that is still there.
SessionDropped(s) ==
  /\ reader[s] = "ended" /\ ~eof[s] /\ session # s
  /\ \A c \in Caller : ~Holds(c, s)
  /\ eof' = [eof EXCEPT ![s] = TRUE]
  /\ child' = [child EXCEPT ![s] = IF @ = "served" THEN @ ELSE "exited"]
  /\ UNCHANGED <<stdin, stdout, tasks, channel, replied, taken, faults, clientVars>>

----------------------------------------------------------------------------
\* A workload with a script is a server whose input comes from a file.
ClientInit ==
  \E w \in Workloads :
    /\ work = w.work
    /\ session = 0 /\ slotLock = Nobody /\ nextId = 0
    /\ spawned = IF w.script = <<>> THEN 0 ELSE 1
    /\ initId = [s \in Proc |-> 0]
    /\ dead = [s \in Proc |-> FALSE] /\ pending = [s \in Proc |-> {}]
    /\ mail = [i \in 1..MaxId |-> Nothing]
    /\ stdinLock = [s \in Proc |-> Nobody] /\ torn = [s \in Proc |-> FALSE]
    /\ reader = [s \in Proc |-> "none"]
    /\ pc = [c \in Caller |-> IF w.work[c].calls = 0 THEN "done" ELSE "start"]
    /\ using = [c \in Caller |-> 0] /\ ids = [c \in Caller |-> <<>>]
    /\ got = [c \in Caller |-> <<>>] /\ outcome = [c \in Caller |-> ""]
    /\ closing = [stage |-> IF w.shutdown THEN "open" ELSE "closed", session |-> 0]
    /\ stdin = [s \in Proc |-> IF s = 1 THEN w.script ELSE <<>>]
    /\ child = [s \in Proc |-> IF s <= spawned THEN "running" ELSE "none"]
    /\ eof = [s \in Proc |-> s <= spawned]
    /\ stdout = [s \in Proc |-> <<>>] /\ tasks = [s \in Proc |-> {}]
    /\ channel = [s \in Proc |-> <<>>] /\ replied = [s \in Proc |-> <<>>]
    /\ taken = [s \in Proc |-> <<>>] /\ faults = 0

CallerStep(c) ==
  \/ Begin(c) \/ Reuse(c) \/ Spawn(c) \/ Register(c) \/ LockStdin(c) \/ Written(c)
  \/ WriteFails(c) \/ Answered(c) \/ TimedOut(c)

ReaderStep(s) ==
  \/ RouteLine(s) \/ ReaderLocks(s) \/ ReaderAnswers(s) \/ ReaderEnds(s) \/ Drain(s)
  \/ SessionDropped(s) \/ OutputRead(s)

AllEnded == (\A c \in Caller : At(c, "done")) /\ UNCHANGED vars

Next ==
  \/ \E c \in Caller : CallerStep(c) \/ SpawnFails(c) \/ Dropped(c)
  \/ \E s \in Proc : ReaderStep(s)
  \/ \E s \in Proc : (ServerStep(s) \/ ServerFault(s)) /\ UNCHANGED clientVars
  \/ Shutdown \/ GraceEnds \/ AllEnded

\* The mutexes are fair, the reader task runs, timeouts fire, and the server
\* reads its input, handles it and writes the answers.
ClientSpec ==
  /\ ClientInit /\ [][Next]_vars
  /\ \A c \in Caller : WF_vars(CallerStep(c)) /\ SF_vars(LockStdin(c) \/ Reuse(c) \/ Spawn(c))
  /\ \A s \in Proc : /\ WF_vars(ReaderStep(s)) /\ SF_vars(ReaderLocks(s))
                     /\ WF_vars(ServerStep(s) /\ UNCHANGED clientVars)

----------------------------------------------------------------------------
(* Properties.                                                             *)

\* route_line and await_response: whatever comes late, twice, in another
\* order, or for a call that was given up, a caller's answer is the server's
\* answer to that very call.
OwnAnswers ==
  \A c \in Caller : \A i \in DOMAIN got[c] : got[c][i].call = <<c, i>>

\* start_session: a server is sent no call before the handshake is complete.
HandshakeFirst ==
  \A s \in Proc : reader[s] # "none" =>
    \A i \in DOMAIN taken[s] : taken[s][i].kind = "call" =>
      \E j, k \in 1..(i - 1) : /\ taken[s][j].kind = "initialize"
                              /\ taken[s][k].kind = "initialized" /\ j < k

Shared(s) == session = s \/ \E c \in Caller : Session(c) = s /\ pc[c] \in {"register", "write", "await"}

\* "the session mutex only guards (re)spawning" (stdio.rs:5-6), and that it
\* does: of the sessions calls are made on, one at most is alive.
OneLiveSession ==
  \A s, t \in Proc : s # t /\ Shared(s) /\ Shared(t) => dead[s] \/ dead[t]

\* "One slow tool call is not a dead server" (stdio.rs:170-171): a session is
\* marked dead only when its process has gone or is shut down, or has written
\* a line that is not UTF-8.
SlowIsNotDead ==
  \A s \in Proc : dead[s] =>
    \/ child[s] # "running"
    \/ closing = [stage |-> "grace", session |-> s]
    \/ OutputFailed(s)

\* "Non-JSON noise on stdout: skip" (stdio.rs:346), whatever the noise is: a
\* session is marked dead only when its process has gone or is shut down.
NoiseSkipped ==
  \A s \in Proc : dead[s] =>
    child[s] # "running" \/ closing = [stage |-> "grace", session |-> s]

\* Every call returns: answered, failed or timed out, whether the server
\* answers or exits, before or after the reader has failed what was pending.
CallsEnd == <>(\A c \in Caller : At(c, "done"))

\* "pending requests fail with the captured stderr tail" when the child dies
\* (stdio.rs:6-8).
DeadFailsPending == \A s \in Proc : reader[s] = "ended" => pending[s] = {}

\* shutdown (stdio.rs:82-83, 94): "close stdin, give the child a grace
\* period, then kill it".  A child that no caller uses is not killed before
\* its stdin is closed.
KilledAfterClose ==
  [][/\ closing.stage = "grace" /\ closing'.stage = "closed"
     /\ child[closing.session] = "running"
     /\ \A c \in Caller : ~Holds(c, closing.session)
     => eof[closing.session]]_vars
=============================================================================
