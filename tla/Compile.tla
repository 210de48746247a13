------------------------------ MODULE Compile ------------------------------
(***************************************************************************)
(* From a submitted plan to the units the engine runs: Runtime::prepare    *)
(* hydrates the plan from the registry, the optimizer removes duplicate    *)
(* and dead nodes and groups calls into batches, validate builds the       *)
(* dependency graph and its layers, and Engine::new makes units of it.     *)
(* run_unoptimized and run_serial skip the optimizer; explain runs nothing *)
(* and does not hydrate.                                                   *)
(*                                                                         *)
(* A node's input is a scalar (its field `path`) or references to outputs  *)
(* of other nodes in its place; a resource is a name and what its          *)
(* placeholder resolved to.  Node names are naturals; 0 is no reference.   *)
(***************************************************************************)
EXTENDS Layers, SequencesExt

CONSTANTS
  None,                 \* an Option that is not there
  Requests,             \* the plans submitted, with the entry point used
  InvalidId,            \* names validate_node_id refuses
  Adapter,              \* the adapters with an executor
  Capabilities,         \* [Tool -> ToolCapabilities], unscoped
  AdapterCapabilities,  \* [Adapter -> [Tool -> ToolCapabilities]]
  BadSchema             \* the tools whose registered input schema is invalid

\* Plan, Node, ToolSpec and ToolCapabilities, without what control never
\* looks at (names, descriptions, versions of tools).
Templates == [name: STRING, placeholder: BOOLEAN]
Declarations == [pure: BOOLEAN, cacheable: BOOLEAN, batchable: BOOLEAN,
                 commutative: BOOLEAN, reads: SUBSET Templates, writes: SUBSET Templates]
Costs == [fixed: Nat, per_call: Nat]
PlanNodes == [id: Nat \ {0}, tool: STRING, input: [path: STRING, refs: SUBSET Nat],
              depends_on: Seq(Nat), for_each: Nat, when: Nat]
ToolSpecs == [adapter: STRING, effects: Declarations \cup {None},
              batch_size: Nat \cup {None}, cost: Costs \cup {None}]
ToolCapabilities == [effects: Declarations \cup {None},
                     batch_size: Nat \cup {None}, cost: Costs \cup {None}]

IsPlan(p) == /\ p = [version |-> p.version, tools |-> p.tools, nodes |-> p.nodes, outputs |-> p.outputs]
             /\ p.version \in STRING
             /\ p.nodes \in Seq(PlanNodes)
             /\ \A t \in DOMAIN p.tools : p.tools[t] \in ToolSpecs
             /\ p.outputs \subseteq Nat

ASSUME RequestAssumption ==
  /\ \A q \in Requests : q.entry \in {"optimized", "validated", "explained"} /\ IsPlan(q.plan)
  /\ \A t \in DOMAIN Capabilities : Capabilities[t] \in ToolCapabilities
  /\ \A a \in DOMAIN AdapterCapabilities :
       \A t \in DOMAIN AdapterCapabilities[a] : AdapterCapabilities[a][t] \in ToolCapabilities

VARIABLES
  phase,         \* where the compilation is
  entry,         \* "optimized", "validated" or "explained": the entry point
  plan,          \* the plan being compiled
  submitted,     \* the hydrated plan, before any pass
  cursor,        \* next node of the dedup pass
  seen, aliases, kept,
  refused,       \* pairs <<member, candidate>> the layers kept apart
  report,        \* OptimizationReport and the units made of it
  diagnostics    \* Explain: the nodes reported, by reason

vars == <<phase, entry, plan, submitted, cursor, seen, aliases, kept, refused,
          report, diagnostics, layerVars>>
compileVars == <<entry, plan, submitted, cursor, seen, aliases, kept, report, diagnostics>>

Put(f, k, v) == [x \in DOMAIN f \cup {k} |-> IF x = k THEN v ELSE f[x]]
Nodes(p) == ToSet(p.nodes)
Ids(p) == {n.id : n \in Nodes(p)}
NodeOf(p, id) == CHOOSE n \in Nodes(p) : n.id = id
EffectsOf(p, t) == p.tools[t].effects

\* A BTreeSet of names, in its order: the k-th has k - 1 names below it.
Sorted(S) ==
  [k \in 1..Cardinality(S) |-> CHOOSE x \in S : Cardinality({y \in S : y < x}) = k - 1]

----------------------------------------------------------------------------
(* ToolRegistry::apply_capabilities.                                       *)

\* ToolRegistry::capabilities_for: the adapter's own entry first.
CapabilitiesFor(a, t) ==
  IF a \in DOMAIN AdapterCapabilities /\ t \in DOMAIN AdapterCapabilities[a]
  THEN AdapterCapabilities[a][t]
  ELSE IF t \in DOMAIN Capabilities THEN Capabilities[t] ELSE None

\* merge_capabilities: the plan's own metadata wins, field by field.
MergeCapabilities(spec, c) ==
  [spec EXCEPT !.effects = IF @ = None THEN c.effects ELSE @,
               !.batch_size = IF @ = None THEN c.batch_size ELSE @,
               !.cost = IF @ = None THEN c.cost ELSE @]

ApplyCapabilities(p) ==
  [p EXCEPT !.tools =
     [t \in DOMAIN p.tools |->
        LET c == CapabilitiesFor(p.tools[t].adapter, t)
        IN  IF c = None THEN p.tools[t] ELSE MergeCapabilities(p.tools[t], c)]]

----------------------------------------------------------------------------
(* deduplicate_nodes.                                                      *)

\* Mutant of DedupKey: what a node fans out over is not part of its key.
DedupKeyNoForEach(p, n) ==
  LET e == IF n.tool \in DOMAIN p.tools THEN EffectsOf(p, n.tool) ELSE None
  IN  IF e = None \/ ~(e.pure \/ e.cacheable) THEN None
      ELSE <<n.tool, n.input, n.when, IF e.pure THEN <<>> ELSE n.depends_on>>

\* dedup_key; None when the node may not be merged with another.
DedupKey(p, n) ==
  LET e == IF n.tool \in DOMAIN p.tools THEN EffectsOf(p, n.tool) ELSE None
  IN  IF e = None \/ ~(e.pure \/ e.cacheable) THEN None
      ELSE <<n.tool, n.input, n.for_each, n.when, IF e.pure THEN <<>> ELSE n.depends_on>>

\* canonical_node: where the walk along the alias map is after one step more
\* than there are aliases; it is an alias still when the walk has no end.
CanonicalNode(id) ==
  LET walk[k \in Nat] ==
        IF k = 0 THEN id
        ELSE IF walk[k - 1] \in DOMAIN aliases THEN aliases[walk[k - 1]] ELSE walk[k - 1]
  IN  walk[Cardinality(DOMAIN aliases) + 1]

\* rewrite_value_ref, rewrite_refs_in_value.
RewriteRef(id) == IF id = 0 THEN 0 ELSE CanonicalNode(id)
RewriteInput(input) == [input EXCEPT !.refs = {RewriteRef(id) : id \in @}]

\* rewrite_node_aliases: the explicit dependencies become a sorted set.
RewriteNodeAliases(n) ==
  [n EXCEPT !.depends_on =
              Sorted({CanonicalNode(d) : d \in ToSet(@)}),
            !.for_each = RewriteRef(@),
            !.when = RewriteRef(@),
            !.input = RewriteInput(@)]

Mentioned(p) ==
  UNION {ToSet(n.depends_on) \cup {n.for_each, n.when} \cup n.input.refs : n \in Nodes(p)}
  \cup p.outputs

Hydrate ==
  /\ phase = "submitted"
  /\ plan' = IF entry = "explained" THEN plan ELSE ApplyCapabilities(plan)
  /\ submitted' = plan'
  /\ phase' = IF entry = "validated" THEN "validate" ELSE "dedup"
  /\ UNCHANGED <<entry, cursor, seen, aliases, kept, refused, report, diagnostics, layerVars>>

DedupNode ==
  /\ phase = "dedup" /\ cursor <= Len(plan.nodes)
  /\ LET n == plan.nodes[cursor]
         key == DedupKey(plan, n)
     IN  IF key # None /\ key \in DOMAIN seen
         THEN /\ aliases' = Put(aliases, n.id, seen[key])
              /\ UNCHANGED <<seen, kept>>
         ELSE /\ seen' = IF key = None THEN seen ELSE Put(seen, key, n.id)
              /\ kept' = Append(kept, n)
              /\ UNCHANGED aliases
  /\ cursor' = cursor + 1
  /\ UNCHANGED <<phase, entry, plan, submitted, refused, report, diagnostics, layerVars>>

\* The rewrite after the loop.  canonical_node never returns for a name that
\* is an alias of itself, which two nodes of the same name can leave behind.
Rewrite ==
  /\ phase = "dedup" /\ cursor > Len(plan.nodes)
  /\ LET rest == [plan EXCEPT !.nodes = kept]
         loops == aliases # <<>> /\ \E id \in Mentioned(rest) : CanonicalNode(id) \in DOMAIN aliases
     IN  IF loops
         THEN phase' = "spinning" /\ UNCHANGED plan
         ELSE /\ phase' = "validate"
              /\ plan' = IF aliases = <<>> THEN rest
                         ELSE [rest EXCEPT
                                 !.nodes = [i \in DOMAIN kept |-> RewriteNodeAliases(kept[i])],
                                 !.outputs = {RewriteRef(id) : id \in @}]
  /\ UNCHANGED <<entry, submitted, cursor, seen, aliases, kept, refused, report, diagnostics, layerVars>>

----------------------------------------------------------------------------
(* validate.                                                               *)

\* resolve_resource_template: a placeholder that is not a scalar yet leaves
\* the template as it is.
ResolveTemplate(t, input) ==
  IF ~t.placeholder THEN <<t.name, "">>
  ELSE IF input.refs = {} THEN <<t.name, input.path>>
  ELSE <<t.name, "{path}">>

Vacuous == [pure |-> FALSE, cacheable |-> FALSE, batchable |-> FALSE,
            commutative |-> FALSE, reads |-> {}, writes |-> {}]

\* ResolvedEffects::for_node with the templates of the tool.
Resolved(p, n) ==
  LET e == IF EffectsOf(p, n.tool) = None THEN Vacuous ELSE EffectsOf(p, n.tool)
  IN  ForNode(n.tool, [e EXCEPT !.reads = {ResolveTemplate(t, n.input) : t \in @},
                                !.writes = {ResolveTemplate(t, n.input) : t \in @}])

\* The nodes an input, a for_each and a condition refer to (collect_refs,
\* collect_data_deps), and all dependencies of a node (collect_dependencies).
References(n) == (n.input.refs \cup {n.for_each, n.when}) \ {0}
Wanted(n) == ToSet(n.depends_on) \cup References(n)

\* The checks of validate, in its order; "" when they all pass.
GraphError(p) ==
  IF p.version # "0" THEN "unsupported_version"
  ELSE IF \E n \in Nodes(p) : n.id \in InvalidId THEN "invalid_node_id"
  ELSE IF \E i, j \in DOMAIN p.nodes : i # j /\ p.nodes[i].id = p.nodes[j].id
       THEN "duplicate_node"
  ELSE IF \E n \in Nodes(p) : n.tool \notin DOMAIN p.tools THEN "unknown_tool"
  ELSE IF \E t \in DOMAIN p.tools :
            EffectsOf(p, t) # None /\ IsContradictory(EffectsOf(p, t))
       THEN "invalid_effects"
  ELSE IF \E n \in Nodes(p) : n.id \in Wanted(n) \/ ~(Wanted(n) \subseteq Ids(p))
       THEN "bad_dependency"
  ELSE IF ~(p.outputs \subseteq Ids(p)) THEN "unknown_output"
  ELSE ""

DependenciesOf(p) == [id \in Ids(p) |-> Wanted(NodeOf(p, id))]
EffectsOfNodes(p) == [id \in Ids(p) |-> Resolved(p, NodeOf(p, id))]

Validate ==
  /\ phase = "validate"
  /\ IF GraphError(plan) # ""
     THEN phase' = "rejected" /\ UNCHANGED layerVars
     ELSE phase' = "layers" /\ SafeLayers(DependenciesOf(plan), EffectsOfNodes(plan))
  /\ UNCHANGED <<compileVars, refused>>

\* A step of safe_layers; what it refuses is remembered for Explain.
Build ==
  /\ phase \in {"layers", "relayers"}
  /\ BuildLayers
  /\ LET least == {c \in todo : \A d \in todo : c <= d}
     IN  refused' = IF building = "busy" /\ todo # {} /\ layer' = layer
                    THEN refused \cup {pair \in layer \X least :
                                         ~CanRunWith(effects[pair[1]], effects[pair[2]])}
                    ELSE refused
  /\ UNCHANGED <<phase, compileVars>>

LayersBuilt ==
  /\ phase \in {"layers", "relayers"}
  /\ building \in {"layered", "cycle"}
  /\ phase' = IF building = "cycle" THEN "rejected"
              ELSE IF entry = "validated" THEN "engine"
              ELSE IF phase = "layers" THEN "dce" ELSE "batch"
  /\ UNCHANGED <<compileVars, refused, layerVars>>

----------------------------------------------------------------------------
(* eliminate_dead_nodes and find_batch_groups.                             *)

\* Everything the nodes of S need, S included.
Upstream(deps, S) ==
  LET reach[k \in Nat] ==
        IF k = 0 THEN S ELSE reach[k - 1] \cup UNION {deps[n] : n \in reach[k - 1]}
  IN  reach[Cardinality(DOMAIN deps)]

Roots(p) == p.outputs \cup {n \in DOMAIN effects : ~effects[n].pure}

\* Mutant of Live: what the roots depend on is not followed.
LiveRootsOnly(p) == IF p.outputs = {} THEN Ids(p) ELSE Roots(p)

\* The nodes kept: all of them when the plan names no outputs.
Live(p) == IF p.outputs = {} THEN Ids(p) ELSE Upstream(dependencies, Roots(p))

\* The nodes of a list that are live, in its order.
Retain(nodes, live) ==
  LET upTo[k \in 0..Len(nodes)] ==
        IF k = 0 THEN <<>>
        ELSE IF nodes[k].id \in live THEN Append(upTo[k - 1], nodes[k]) ELSE upTo[k - 1]
  IN  upTo[Len(nodes)]

\* ExecutionGraph::retain, on the nodes kept.
EliminateDeadNodes ==
  /\ phase = "dce"
  /\ LET live == Live(plan)
     IN  /\ report' = [report EXCEPT !.eliminated = Ids(plan) \ live]
         /\ plan' = [plan EXCEPT !.nodes = Retain(@, live)]
         /\ IF live = Ids(plan)
            THEN phase' = "batch" /\ UNCHANGED <<refused, layerVars>>
            ELSE /\ phase' = "relayers"
                 /\ refused' = {}
                 /\ SafeLayers(Restrict(dependencies, DOMAIN dependencies \cap live),
                               Restrict(effects, DOMAIN effects \cap live))
  /\ UNCHANGED <<entry, submitted, cursor, seen, aliases, kept, diagnostics>>

Batchable(p, id) ==
  LET n == NodeOf(p, id)
  IN  /\ EffectsOf(p, n.tool) # None /\ EffectsOf(p, n.tool).batchable
      /\ n.for_each = 0

\* Mutant of Chunks: a group is as large as its layer.
ChunksWhole(p, t, S) == IF Cardinality(S) > 1 THEN {S} ELSE {}

\* The calls of tool t in S, in name order, cut to the tool's batch size; a
\* chunk of one call is no group.
Chunks(p, t, S) ==
  LET s == Sorted(S)
      asked == p.tools[t].batch_size
      size == IF asked = None THEN Len(s) ELSE IF asked = 0 THEN 1 ELSE asked
      chunk(k) == {s[i] : i \in {j \in DOMAIN s : k * size < j /\ j <= k * size + size}}
  IN  {C \in {chunk(k) : k \in 0..Len(s)} : Cardinality(C) > 1}

FindBatchGroups(p) ==
  UNION {Chunks(p, t, {n \in layers[i] : NodeOf(p, n).tool = t /\ Batchable(p, n)}) :
           i \in DOMAIN layers, t \in DOMAIN p.tools}

----------------------------------------------------------------------------
(* summarize.                                                              *)

\* One dispatch for every group and one for every other node; the units of
\* Engine::new are the same sets.
UnitsOf(ids, groups) == groups \cup {{n} : n \in ids \ UNION groups}

CallMs(p, t, calls) ==
  IF p.tools[t].cost = None THEN 0 ELSE p.tools[t].cost.fixed + p.tools[t].cost.per_call * calls

\* What the dispatch that carries a node costs (batch_cost, or one call).
DispatchMs(p, units, id) ==
  LET u == CHOOSE v \in units : id \in v
  IN  CallMs(p, NodeOf(p, id).tool, Cardinality(u))

\* compiled_ms: every layer costs its slowest dispatch.
CompiledMs(p, units) ==
  MapThenSumSet(LAMBDA i : Max({DispatchMs(p, units, n) : n \in layers[i]} \cup {0}),
                DOMAIN layers)

SerialMs(p) == MapThenSumSet(LAMBDA i : CallMs(p, p.nodes[i].tool, 1), DOMAIN p.nodes)

\* The batch pass and the summary, the end of optimize.
Summarize ==
  /\ phase = "batch"
  /\ LET groups == FindBatchGroups(plan)
     IN  report' = [report EXCEPT !.groups = groups,
                      !.serial_ms = SerialMs(submitted),
                      !.compiled_ms = CompiledMs(plan, UnitsOf(Ids(plan), groups)),
                      !.calls_after = Len(plan.nodes) - Cardinality(UNION groups)
                                      + Cardinality(groups)]
  /\ phase' = IF entry = "explained" THEN "explain" ELSE "engine"
  /\ UNCHANGED <<entry, plan, submitted, cursor, seen, aliases, kept, refused,
                 diagnostics, layerVars>>

\* Engine::new; the run is refused when a tool's adapter has no executor or
\* its registered schema is invalid.
MakeUnits ==
  /\ phase = "engine"
  /\ phase' = IF \E t \in DOMAIN plan.tools :
                   plan.tools[t].adapter \notin Adapter \/ t \in BadSchema
              THEN "rejected" ELSE "ready"
  /\ report' = [report EXCEPT !.units = UnitsOf(Ids(plan), report.groups)]
  /\ UNCHANGED <<entry, plan, submitted, cursor, seen, aliases, kept, refused,
                 diagnostics, layerVars>>

----------------------------------------------------------------------------
(* explain_parallel_boundaries.                                            *)

LayerOf(n) == CHOOSE i \in DOMAIN layers : n \in layers[i]

\* OrderIndex::unordered_cross_layer.
UnorderedCrossLayer(m, n) ==
  /\ LayerOf(m) # LayerOf(n)
  /\ m \notin Upstream(dependencies, {n})
  /\ n \notin Upstream(dependencies, {m})

\* Mutant of ConflictsOn: only writers are compared with one another.
WritersOnly(r) ==
  LET writing == {n \in DOMAIN effects : effects[n].declared /\ r \in effects[n].writes}
  IN  {n \in writing : \E m \in writing \ {n} : UnorderedCrossLayer(n, m)}

\* Writers conflict with everything that touches the resource, readers with
\* its writers.
ConflictsOn(r) ==
  LET declared == {n \in DOMAIN effects : effects[n].declared}
      writing == {n \in declared : r \in effects[n].writes}
      touching == writing \cup {n \in declared : r \in effects[n].reads}
  IN  {n \in touching : \E m \in (IF n \in writing THEN touching ELSE writing) \ {n} :
                           UnorderedCrossLayer(n, m)}

\* The resources that have writers.
Written == UNION {effects[n].writes : n \in {m \in DOMAIN effects : effects[m].declared}}

MissingEffects ==
  {n \in DOMAIN effects : ~effects[n].declared /\
     \E m \in DOMAIN effects \ {n} : UnorderedCrossLayer(n, m)}

Explain ==
  /\ phase = "explain"
  /\ diagnostics' = [missing |-> MissingEffects,
                     conflicts |-> [r \in Written |-> ConflictsOn(r)]]
  /\ phase' = "explained"
  /\ UNCHANGED <<entry, plan, submitted, cursor, seen, aliases, kept, refused,
                 report, layerVars>>

----------------------------------------------------------------------------
EmptyReport == [eliminated |-> {}, groups |-> {}, units |-> {}, serial_ms |-> 0,
                compiled_ms |-> 0, calls_after |-> 0]

Init ==
  /\ phase = "submitted"
  /\ \E q \in Requests : entry = q.entry /\ plan = q.plan
  /\ submitted = plan
  /\ cursor = 1 /\ seen = <<>> /\ aliases = <<>> /\ kept = <<>>
  /\ refused = {} /\ report = EmptyReport /\ diagnostics = None
  /\ LayersInit

\* Nothing left to do, or canonical_node in its endless walk.
Ended ==
  /\ phase \in {"rejected", "spinning", "ready", "explained"}
  /\ UNCHANGED vars

Next == Hydrate \/ DedupNode \/ Rewrite \/ Validate \/ Build \/ LayersBuilt
        \/ EliminateDeadNodes \/ Summarize \/ MakeUnits \/ Explain \/ Ended

Spec == Init /\ [][Next]_vars

----------------------------------------------------------------------------
(* Properties.                                                             *)

DistinctIds == \A i, j \in DOMAIN submitted.nodes :
                 submitted.nodes[i].id = submitted.nodes[j].id => i = j
Survivor(id) == IF id \in DOMAIN aliases THEN aliases[id] ELSE id

\* deduplicate_nodes and eliminate_dead_nodes keep what the plan asks for:
\* every output and every node with effects has its survivor in the compiled
\* plan, and a survivor makes the call of each node it stands for, on the
\* survivors of what that node referred to.
SameMeaning ==
  phase = "ready" /\ DistinctIds =>
    /\ plan.outputs = {Survivor(id) : id \in submitted.outputs}
    /\ plan.outputs \subseteq Ids(plan)
    /\ \A n \in Nodes(submitted) :
         LET s == Survivor(n.id)
             k == NodeOf(plan, s)
         IN  /\ ~Resolved(submitted, n).pure => s \in Ids(plan)
             /\ s \in Ids(plan) =>
                  /\ k.tool = n.tool
                  /\ k.input.path = n.input.path
                  /\ k.input.refs = {Survivor(id) : id \in n.input.refs}
                  /\ k.for_each = Survivor(n.for_each)
                  /\ k.when = Survivor(n.when)

\* ExecutionGraph::retain's contract (lib.rs:54-55): no node that is kept
\* depends on one that was removed, so the graph the layers are rebuilt over,
\* and the references the runtime will resolve, are closed.
KeptIsClosed ==
  phase \in {"relayers", "batch", "explain", "engine", "ready"} =>
    /\ DOMAIN dependencies = Ids(plan)
    /\ \A n \in Nodes(plan) : Wanted(n) = dependencies[n.id]
    /\ \A n \in Nodes(plan) : Wanted(n) \subseteq Ids(plan)

\* What the engine relies on (Engine::new, and the lock request of a group):
\* the units share no node, a group is within the batch size, its calls are
\* of one tool and may run together, and no set of units wait for each other.
UnitsSchedulable ==
  phase = "ready" =>
    LET unitDeps(u) == {v \in report.units \ {u} :
                          \E n \in u : ~Disjoint(dependencies[n], v)}
    IN  /\ UNION report.units = Ids(plan)
        /\ \A u, v \in report.units : u # v => Disjoint(u, v)
        /\ \A u \in report.units : \A m, n \in u : m # n =>
             /\ NodeOf(plan, m).tool = NodeOf(plan, n).tool
             /\ m \notin dependencies[n]
             /\ CanRunWith(effects[m], effects[n])
        /\ \A u \in report.groups :
             LET size == plan.tools[NodeOf(plan, CHOOSE n \in u : TRUE).tool].batch_size
             IN  size # None => Cardinality(u) <= size
        /\ \A W \in SUBSET report.units :
             W # {} => \E u \in W : Disjoint(unitDeps(u), W)

\* The report is true.  The summary counts the dispatches the engine will
\* make, and compiling a plan is never estimated to be slower than one call
\* at a time (cost.rs); and explain_parallel_boundaries, which "Reports why node
\* pairs that are not ordered by (transitive) dependencies still ended up in
\* different layers" (explain.rs:35-36), names every refusal of the layers, as
\* a missing declaration or by a resource both nodes touch.
ReportHonest ==
  /\ phase = "ready" /\ entry = "optimized" =>
       /\ report.calls_after = Cardinality(report.units)
       /\ report.calls_after <= Len(submitted.nodes)
       /\ report.compiled_ms <= report.serial_ms
  /\ phase = "explained" =>
       \A pair \in refused :
         \/ {pair[1], pair[2]} \cap diagnostics.missing # {}
         \/ \E r \in DOMAIN diagnostics.conflicts :
              {pair[1], pair[2]} \subseteq diagnostics.conflicts[r]

\* The optimizer's rule (lib.rs:8-9): "a transformation only happens when the
\* declared tool effects prove it safe".  Effectful nodes that the submitted
\* plan orders are still ordered in the compiled one.
OrderKept ==
  phase = "ready" /\ DistinctIds /\ GraphError(submitted) = "" =>
    LET before == DependenciesOf(submitted)
    IN  \A a, b \in {n.id : n \in {x \in Nodes(submitted) : ~Resolved(submitted, x).pure}} :
          a # b /\ a \in Upstream(before, {b}) =>
            Survivor(a) \in Upstream(dependencies, {Survivor(b)})

\* The optimizer accepts what validate accepts: "Safe optimization passes"
\* (lib.rs:1) never turn a valid plan into one that is refused.
ValidPlansCompile ==
  phase = "rejected" =>
    \/ GraphError(submitted) # ""
    \/ \E t \in DOMAIN plan.tools : plan.tools[t].adapter \notin Adapter \/ t \in BadSchema
    \/ \E W \in SUBSET Ids(submitted) :
         W # {} /\ \A n \in W : DependenciesOf(submitted)[n] \cap W # {}

\* resolve_resource_template (effects.rs:119-121): with an unresolved
\* placeholder "every node of that tool shares one conservative resource and
\* serializes instead of racing".
UnresolvedSerializes ==
  phase = "ready" =>
    \A i \in DOMAIN layers : \A m, n \in layers[i] :
      m # n /\ NodeOf(plan, m).tool = NodeOf(plan, n).tool =>
        \A r \in effects[m].writes : r[2] # "{path}"
=============================================================================
