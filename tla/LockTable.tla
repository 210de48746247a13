----------------------------- MODULE LockTable -----------------------------
(***************************************************************************)
(* The resource-lock table of one run (crates/tool-compiler-runtime/src/   *)
(* locks.rs).  The scheduler loop owns it: a unit tries to acquire all its *)
(* resources before it is spawned and releases them when its task ends.    *)
(* Reads share, writes exclude, writes of one commutative tool overlap,    *)
(* and a unit with undeclared effects runs alone.                          *)
(*                                                                         *)
(* The table counts holders and never names them.  The variable held is    *)
(* what the scheduler keeps in in_flight: the units that acquired and have *)
(* not released yet.                                                       *)
(***************************************************************************)
EXTENDS EffectRules, Naturals, FiniteSets

CONSTANTS Node,       \* nodes of the optimized plan
          Unit,       \* schedulable units: one node, or one batch group
          Members,    \* [Unit -> SUBSET Node]
          Batch,      \* the units that are batch groups
          ToolOf,     \* [Node -> Tool]
          Declared,   \* [Node -> Effects]
          NoTool      \* the value None of an Option<String>

\* Units partition the nodes, a unit that is no batch group is one node
\* (Engine::new), and validate has refused contradictory declarations.
ASSUME UnitAssumption ==
  /\ IsFiniteSet(Unit)
  /\ NoTool \notin Tool
  /\ ToolOf \in [Node -> Tool]
  /\ Declared \in [Node -> Effects]
  /\ \A n \in Node : ~IsContradictory(Declared[n])
  /\ Members \in [Unit -> (SUBSET Node) \ {{}}]
  /\ Batch \subseteq Unit
  /\ \A u \in Unit \ Batch : \E n \in Node : Members[u] = {n}

Effective(n) == ForNode(ToolOf[n], Declared[n])

----------------------------------------------------------------------------
(* The lock demand of a unit.                                              *)

LockRequest == [reads: SUBSET Resource, writes: SUBSET Resource,
                commutative_tool: Tool \cup {NoTool}, world: BOOLEAN]

DefaultRequest ==
  [reads |-> {}, writes |-> {}, commutative_tool |-> NoTool, world |-> FALSE]

\* LockRequest::for_effects.
ForEffects(e) ==
  IF e.declared
  THEN [reads |-> e.reads, writes |-> e.writes, world |-> FALSE,
        commutative_tool |-> IF e.commutative THEN e.tool ELSE NoTool]
  ELSE [DefaultRequest EXCEPT !.world = TRUE]

\* LockRequest::merge.
Merge(a, b) ==
  [reads  |-> a.reads \cup b.reads,
   writes |-> a.writes \cup b.writes,
   world  |-> a.world \/ b.world,
   commutative_tool |->
     IF a.commutative_tool # b.commutative_tool THEN NoTool
                                                ELSE a.commutative_tool]

\* What the loop of Engine::new leaves after merging the members of a batch
\* group, one by one, into the default request.  That request names no tool,
\* so no merge ever leaves one (MCLockTable compares this with the loop).
BatchRequest(S) ==
  [reads  |-> UNION {ForEffects(Effective(n)).reads : n \in S},
   writes |-> UNION {ForEffects(Effective(n)).writes : n \in S},
   world  |-> \E n \in S : ForEffects(Effective(n)).world,
   commutative_tool |-> NoTool]

Request(u) ==
  IF u \in Batch THEN BatchRequest(Members[u])
  ELSE ForEffects(Effective(CHOOSE n \in Members[u] : TRUE))

----------------------------------------------------------------------------
(* The table.                                                              *)

VARIABLES resources,  \* [Resource -> LockState]; Free when there is no entry
          running,    \* how many units hold a request
          exclusive,  \* whether the holder demanded to run alone
          held,       \* the units holding their request
          panicked    \* whether try_acquire hit an unreachable!

tableVars == <<resources, running, exclusive>>
lockVars == <<resources, running, exclusive, held, panicked>>

Free == [mode |-> "free", tool |-> NoTool, count |-> 0]
Read(n) == [mode |-> "read", tool |-> NoTool, count |-> n]
Write == [mode |-> "write", tool |-> NoTool, count |-> 1]
Commutative(t, n) == [mode |-> "commutative", tool |-> t, count |-> n]

LockState == [mode: {"free", "read", "write", "commutative"},
              tool: Tool \cup {NoTool}, count: Nat]

\* Mutants of IsCompatible: any two commutative tools overlap; none does.
IgnoresCommutativeTool(req) ==
  /\ \A r \in req.reads : resources[r].mode \in {"free", "read"}
  /\ \A r \in req.writes :
       \/ resources[r].mode = "free"
       \/ resources[r].mode = "commutative" /\ req.commutative_tool # NoTool
IgnoresCommutativity(req) ==
  /\ \A r \in req.reads : resources[r].mode \in {"free", "read"}
  /\ \A r \in req.writes : resources[r].mode = "free"

\* LockTable::is_compatible.
IsCompatible(req) ==
  /\ \A r \in req.reads : resources[r].mode \in {"free", "read"}
  /\ \A r \in req.writes :
       \/ resources[r].mode = "free"
       \/ /\ resources[r].mode = "commutative"
          /\ resources[r].tool = req.commutative_tool

\* The entries after the two loops of try_acquire.
AfterAcquire(req) ==
  [r \in Resource |->
     IF r \in req.writes
     THEN IF req.commutative_tool = NoTool THEN Write
          ELSE Commutative(req.commutative_tool, resources[r].count + 1)
     ELSE IF r \in req.reads THEN Read(resources[r].count + 1)
     ELSE resources[r]]

\* Mutant of Dropped: the first release removes the entry.
DroppedAtOnce(state) == Free

\* An entry with one holder less, removed with its last holder.
Dropped(state) ==
  IF state.count = 1 THEN Free ELSE [state EXCEPT !.count = @ - 1]

\* The entries after the two loops of release.
AfterRelease(req) ==
  [r \in Resource |->
     IF \/ r \in req.reads /\ resources[r].mode = "read"
        \/ r \in req.writes /\ resources[r].mode \in {"write", "commutative"}
     THEN Dropped(resources[r])
     ELSE resources[r]]

\* The three ways try_acquire ends other than by refusing.  A resource that
\* is read and written by one request is compatible with an empty entry, is
\* then entered as read, and meets the unreachable! of the write loop.
GrantsWorld(req) == ~exclusive /\ req.world /\ running = 0
PassesChecks(req) == ~exclusive /\ ~req.world /\ IsCompatible(req)
GrantsShared(req) == PassesChecks(req) /\ Disjoint(req.reads, req.writes)
Panics(req) == PassesChecks(req) /\ ~Disjoint(req.reads, req.writes)
Grants(req) == GrantsWorld(req) \/ GrantsShared(req)

\* LockTable::try_acquire, when it returns true.
TryAcquire(req) ==
  \/ /\ GrantsWorld(req)
     /\ exclusive' = TRUE
     /\ running' = 1
     /\ UNCHANGED resources
  \/ /\ GrantsShared(req)
     /\ resources' = AfterAcquire(req)
     /\ running' = running + 1
     /\ UNCHANGED exclusive

\* LockTable::release.
ReleaseRequest(req) ==
  /\ running' = IF running = 0 THEN 0 ELSE running - 1
  /\ exclusive' = (exclusive /\ ~req.world)
  /\ resources' = IF req.world THEN resources ELSE AfterRelease(req)

----------------------------------------------------------------------------
(* The table as a state machine on its own.                                *)

LockInit ==
  /\ resources = [r \in Resource |-> Free]
  /\ running = 0
  /\ exclusive = FALSE
  /\ held = {}
  /\ panicked = FALSE

Acquire(u) ==
  /\ ~panicked
  /\ u \notin held
  /\ TryAcquire(Request(u))
  /\ held' = held \cup {u}
  /\ UNCHANGED panicked

\* The panic unwinds Engine::run, which owns the table: nothing follows.
AcquirePanics(u) ==
  /\ ~panicked
  /\ u \notin held
  /\ Panics(Request(u))
  /\ panicked' = TRUE
  /\ UNCHANGED <<resources, running, exclusive, held>>

Release(u) ==
  /\ ~panicked
  /\ u \in held
  /\ ReleaseRequest(Request(u))
  /\ held' = held \ {u}
  /\ UNCHANGED panicked

LockNext == \E u \in Unit : Acquire(u) \/ AcquirePanics(u) \/ Release(u)

LockSpec == LockInit /\ [][LockNext]_lockVars

----------------------------------------------------------------------------
(* Properties.                                                             *)

Readers(r) == {u \in held : ~Request(u).world /\ r \in Request(u).reads}
Writers(r) == {u \in held : ~Request(u).world /\ r \in Request(u).writes}

\* The entry for r is the one its holders call for: absent without holders,
\* shared by readers only, exclusive to one writer, or shared by writers of
\* one commutative tool, with the right count.
EntryMatches(r) ==
  \/ /\ Readers(r) = {} /\ Writers(r) = {}
     /\ resources[r] = Free
  \/ /\ Readers(r) # {} /\ Writers(r) = {}
     /\ resources[r] = Read(Cardinality(Readers(r)))
  \/ /\ Readers(r) = {}
     /\ \E u \in held : Writers(r) = {u} /\ Request(u).commutative_tool = NoTool
     /\ resources[r] = Write
  \/ /\ Readers(r) = {} /\ Writers(r) # {}
     /\ \E t \in Tool :
          /\ \A u \in Writers(r) : Request(u).commutative_tool = t
          /\ resources[r] = Commutative(t, Cardinality(Writers(r)))

\* Type invariant: locks.rs:14-29, and only units of this run hold requests.
LockTypeOK ==
  /\ resources \in [Resource -> LockState]
  /\ running \in Nat
  /\ exclusive \in BOOLEAN
  /\ held \subseteq Unit
  /\ panicked \in BOOLEAN

\* The counters of the table (locks.rs:16-21) always agree with the units that
\* hold requests, through every order of acquiring and releasing: no release
\* takes away an entry another holder needs, none is forgotten, and a unit
\* with undeclared effects is alone.
TableMatchesHolders ==
  /\ running = Cardinality(held)
  /\ \A u \in held : Request(u).world => held = {u}
  /\ exclusive <=> \E u \in held : Request(u).world
  /\ \A r \in Resource : EntryMatches(r)

\* What the lock table is for (locks.rs:5-7, scheduler.rs:4-7): any two nodes
\* of different units that run at the same time may run together by
\* can_run_with, although the table compares a unit only with counters that
\* sum up all the earlier ones.
EffectExclusion ==
  \A u, v \in held : u # v =>
    \A m \in Members[u], n \in Members[v] :
      CanRunWith(Effective(m), Effective(n))

\* "Nothing running: all locks and permits are free, so a blocked retry must
\* make progress" (scheduler.rs:74-76): once every holder has released, no
\* remainder of theirs is left to refuse anyone.
IdleGrantsEverything ==
  held = {} => \A u \in Unit : Grants(Request(u)) \/ Panics(Request(u))

\* "Lock modes mirror the effect rules in tool-compiler-graph" (locks.rs:5-7):
\* among units of one node the verdict of try_acquire is can_run_with against
\* every holder, neither looser nor stricter.
MirrorsEffectRules ==
  held \cap Batch = {} =>
    \A u \in Unit \ (held \cup Batch), m \in Node :
      /\ Members[u] = {m}
      /\ Disjoint(Effective(m).reads, Effective(m).writes)
      => (Grants(Request(u)) <=>
            \A v \in held, n \in Node :
              Members[v] = {n} => CanRunWith(Effective(m), Effective(n)))

\* The same for batch groups: "commutative: overlap same-tool writes to the
\* same resource" (docs/effects.md:34), and only "mixed commutativity in one
\* unit falls back to exclusive writes" (locks.rs:62).
BatchesMirrorEffectRules ==
  \A u \in Unit \ held :
    (\A v \in held : \A m \in Members[u], n \in Members[v] :
        CanRunWith(Effective(m), Effective(n)))
    => Grants(Request(u)) \/ Panics(Request(u))

\* "compatibility checked above" (locks.rs:93 and 111): a request that passed
\* is_compatible never meets an entry it cannot join.
NeverPanics == ~panicked
=============================================================================
