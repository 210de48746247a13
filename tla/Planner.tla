------------------------------ MODULE Planner ------------------------------
(***************************************************************************)
(* What is submitted instead of a plan (crates/tool-compiler-planner/src/  *)
(* lib.rs and recipes.rs): an intent, whose steps name what they come      *)
(* after, or a recipe, which expands into nodes (a fan-out over items, a   *)
(* map-reduce, a pipeline), its parameters filled in.  try_call_tool       *)
(* (cli/serve.rs) and the command line lower them and run the plan.        *)
(*                                                                         *)
(* The nodes a recipe generates are numbered; the prefix of their names    *)
(* is the same for all and left out.                                       *)
(***************************************************************************)
EXTENDS Compile

CONSTANTS
  Sources,              \* the intents and recipes submitted
  EachId, ReduceId      \* the names <prefix>each and <prefix>reduce

\* An input template: a scalar, a parameter, or references; a reference that
\* does not parse is malformed.
Inputs == [path: STRING, param: STRING \cup {None}, malformed: BOOLEAN,
           refs: {R \in SUBSET Nat : IsFiniteSet(R)}]
Steps == [id: Nat \ {0}, tool: STRING, input: Inputs, after: Seq(Nat)]
IntentPlans == [kind: {"intent"}, version: STRING, steps: Seq(Steps)]

\* A pipeline step may consume the output of the one before ({"$prev": ..}).
Recipes == [kind: {"fan_out", "map_reduce", "pipeline"}, version: STRING,
            tool: STRING, reduce_tool: STRING, items: Seq(Inputs), items_ref: Nat,
            steps: Seq([tool: STRING, input: Inputs, prev: BOOLEAN])]

\* A reference in a recipe that does not parse is refused with the plan it
\* becomes, and left out here.  The names <prefix>each and <prefix>reduce are
\* not those of items.
ASSUME SourceAssumption ==
  /\ EachId \in Nat \ {0} /\ ReduceId \in Nat \ {0} /\ EachId # ReduceId
  /\ \A s \in Sources :
       /\ \A t \in DOMAIN s.tools : s.tools[t] \in ToolSpecs
       /\ \/ s.body \in IntentPlans
          \/ /\ s.body \in Recipes /\ Disjoint({EachId, ReduceId}, DOMAIN s.body.items)
             /\ \A x \in ToSet(s.body.items) \cup {y.input : y \in ToSet(s.body.steps)} : ~x.malformed

VARIABLE source         \* the intent or recipe, None for a plan

plannerVars == <<vars, source>>

----------------------------------------------------------------------------
(* Intents.                                                                *)

\* compile_intent's checks and compile_step's; "" when they all pass.
IntentError(body, tools) ==
  IF body.version # "0" THEN "unsupported_version"
  ELSE IF \E i \in DOMAIN body.steps :
            LET s == body.steps[i]
            IN  \/ s.id \in InvalidId \/ s.tool \notin DOMAIN tools
                \/ \E j \in 1..(i - 1) : body.steps[j].id = s.id
       THEN "bad_step"
  ELSE IF \E i \in DOMAIN body.steps :
            LET s == body.steps[i]
            IN  s.input.malformed \/ s.id \in ToSet(s.after) \cup s.input.refs
       THEN "bad_dependency"
  ELSE ""

PlainInput(input) == [path |-> input.path, refs |-> input.refs]
NewNode(id, tool, input) ==
  [id |-> id, tool |-> tool, input |-> input, depends_on |-> <<>>, for_each |-> 0, when |-> 0]

\* Mutant of CompileStep: what a step comes after is left to its references.
CompileStepRefsOnly(s) ==
  [NewNode(s.id, s.tool, PlainInput(s.input)) EXCEPT
     !.depends_on = Sorted(s.input.refs)]

\* compile_step: depends_on is what the step comes after and what it refers to.
CompileStep(s) ==
  [NewNode(s.id, s.tool, PlainInput(s.input)) EXCEPT
     !.depends_on = Sorted(ToSet(s.after) \cup s.input.refs)]

----------------------------------------------------------------------------
(* Recipes.                                                                *)

Merged(params, values) ==
  [p \in DOMAIN params |-> IF p \in DOMAIN values THEN values[p] ELSE params[p]]

\* compile_recipe_with_params: given values must be declared, and no
\* parameter may be null (None) once they are merged over the defaults.
ParamsError(params, values) ==
  IF ~(DOMAIN values \subseteq DOMAIN params) THEN "unknown_param"
  ELSE IF \E p \in DOMAIN params : Merged(params, values)[p] = None THEN "missing_param"
  ELSE ""

InputsOf(body) ==
  {body.items[i] : i \in DOMAIN body.items} \cup {body.steps[i].input : i \in DOMAIN body.steps}

\* substitute_params does nothing when nothing is declared; otherwise every
\* placeholder must be.
SubstitutionError(body, params) ==
  IF params # <<>> /\ \E x \in InputsOf(body) : x.param # None /\ x.param \notin DOMAIN params
  THEN "unknown_param" ELSE ""

\* What a placeholder that stays in an input, an object, does to a template.
NotScalar == "{path}"

Substitute(x, params) ==
  IF x.param = None THEN PlainInput(x)
  ELSE [path |-> IF params = <<>> THEN NotScalar ELSE params[x.param], refs |-> {}]

\* compile_fan_out: one for_each node, or one node per item.
FanOut(body, params) ==
  IF body.items_ref # 0
  THEN <<[NewNode(EachId, body.tool, [path |-> NotScalar, refs |-> {}])
            EXCEPT !.for_each = body.items_ref]>>
  ELSE [i \in DOMAIN body.items |-> NewNode(i, body.tool, Substitute(body.items[i], params))]

\* compile_map_reduce: the reducer refers to every node of the fan-out.
ReduceInput(nodes) == [path |-> "", refs |-> {nodes[i].id : i \in DOMAIN nodes}]

MapReduce(body, params) ==
  LET nodes == FanOut(body, params)
  IN  Append(nodes, NewNode(ReduceId, body.reduce_tool, ReduceInput(nodes)))

\* compile_pipeline: a step refers to the one before where it says $prev; in
\* the first step the marker stays what it is, data.
Pipeline(body, params) ==
  [i \in DOMAIN body.steps |->
     LET s == body.steps[i]
     IN  NewNode(i, s.tool,
                 IF ~s.prev THEN Substitute(s.input, params)
                 ELSE IF i = 1 THEN [path |-> NotScalar, refs |-> {}]
                 ELSE [path |-> "", refs |-> {i - 1}])]

RecipeError(src) ==
  LET body == src.body
      first == ParamsError(src.params, src.values)
      second == SubstitutionError(body, Merged(src.params, src.values))
  IN  IF body.version # "0" THEN "unsupported_version"
      ELSE IF first # "" THEN first
      ELSE IF second # "" THEN second
      ELSE IF body.kind = "pipeline"
           THEN IF body.steps = <<>> THEN "empty_pipeline" ELSE ""
      ELSE IF body.items_ref = 0 /\ body.items = <<>> THEN "empty_fan_out" ELSE ""

----------------------------------------------------------------------------
LoweringError(src) ==
  IF src.body.kind = "intent" THEN IntentError(src.body, src.tools) ELSE RecipeError(src)

LoweredNodes(src) ==
  LET params == Merged(src.params, src.values)
  IN  CASE src.body.kind = "intent" ->
             [i \in DOMAIN src.body.steps |-> CompileStep(src.body.steps[i])]
        [] src.body.kind = "fan_out" -> FanOut(src.body, params)
        [] src.body.kind = "map_reduce" -> MapReduce(src.body, params)
        [] OTHER -> Pipeline(src.body, params)

\* compile_intent, compile_recipe_with_params, and the submission of the plan.
Lower ==
  /\ phase = "source"
  /\ IF LoweringError(source) # ""
     THEN phase' = "rejected" /\ UNCHANGED plan
     ELSE /\ phase' = "submitted"
          /\ plan' = [version |-> "0", tools |-> source.tools, nodes |-> LoweredNodes(source),
                      outputs |-> source.outputs]
  /\ UNCHANGED <<entry, submitted, cursor, seen, aliases, kept, refused, report, diagnostics,
                 layerVars, source>>

PlannerInit ==
  \/ Init /\ source = None
  \/ /\ source \in Sources
     /\ phase = "source" /\ entry = "optimized"
     /\ plan = [version |-> "0", tools |-> <<>>, nodes |-> <<>>, outputs |-> {}]
     /\ submitted = plan
     /\ cursor = 1 /\ seen = <<>> /\ aliases = <<>> /\ kept = <<>>
     /\ refused = {} /\ report = EmptyReport /\ diagnostics = None
     /\ LayersInit

PlannerNext == Lower \/ (Next /\ UNCHANGED source)

PlannerSpec == PlannerInit /\ [][PlannerNext]_plannerVars

----------------------------------------------------------------------------
(* Properties.                                                             *)

Runs(kind) == phase = "ready" /\ (IF source = None THEN FALSE ELSE source.body.kind = kind)
Before(a, b) == LayerOf(Survivor(a)) < LayerOf(Survivor(b))

\* A step of an intent that has effects runs after the steps it names and
\* those whose output it uses (compile_step), and a reducer after all of the
\* calls it aggregates, with all of their results, when equal calls have been
\* merged and dead ones removed.
LoweredOrder ==
  /\ Runs("intent") =>
       \A i \in DOMAIN source.body.steps :
         LET s == source.body.steps[i]
         IN  ~Resolved(submitted, NodeOf(submitted, s.id)).pure =>
               \A d \in ToSet(s.after) \cup s.input.refs : Before(d, s.id)
  /\ Runs("map_reduce") /\ Survivor(ReduceId) \in Ids(plan) =>
       LET mapped == IF source.body.items_ref # 0 THEN {EachId} ELSE DOMAIN source.body.items
       IN  /\ \A i \in mapped : Before(i, ReduceId)
           /\ NodeOf(plan, Survivor(ReduceId)).input.refs = {Survivor(i) : i \in mapped}

\* Recipe::Pipeline (recipes.rs:63, 139): "A sequential chain where each step
\* consumes the previous output".
PipelineSequential ==
  Runs("pipeline") =>
    \A i \in 1..(Len(source.body.steps) - 1) : Before(i, i + 1)

\* "Two higher-level inputs lower into the executable Plan IR" (lib.rs:3):
\* what lowers without an error is a plan that validate accepts.
LoweredIsValid ==
  phase = "rejected" /\ source # None =>
    LoweringError(source) # "" \/ source.body.kind = "intent" \/ source.outputs # {}

\* PlannerError::UnknownParam (lib.rs:159): "A `$param` placeholder names an
\* undeclared parameter".  What compiles has no such placeholder.
NoParamLeft ==
  phase = "ready" /\ source # None =>
    source.body.kind = "intent"
    \/ \A x \in InputsOf(source.body) : x.param \in DOMAIN source.params \cup {None}
=============================================================================
