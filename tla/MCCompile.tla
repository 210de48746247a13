----------------------------- MODULE MCCompile -----------------------------
(***************************************************************************)
(* Instances of Planner for TLC: plans of three nodes over six tools, with *)
(* every way a node can hang on another, and malformed plans; intents of   *)
(* three steps, and recipes with and without parameters.                   *)
(***************************************************************************)
EXTENDS Planner

Eff(reads, writes) ==
  [pure |-> FALSE, cacheable |-> FALSE, batchable |-> FALSE, commutative |-> FALSE,
   reads |-> reads, writes |-> writes]
Templ(name) == [name |-> name, placeholder |-> TRUE]
Fixed(name) == [name |-> name, placeholder |-> FALSE]

Spec0(adapter) == [adapter |-> adapter, effects |-> None, batch_size |-> None, cost |-> None]
Caps(e, size, cost) == [effects |-> e, batch_size |-> size, cost |-> cost]
Cost(f, c) == [fixed |-> f, per_call |-> c]

MCResource == {"file", "count"} \X {"", "x", "y", "{path}"}
MCTool == {"calc", "get", "put", "incr", "log", "sh"}

\* put declares its effects in the plan; the registry supplies the others,
\* calc's from the adapter's own entry.
MCTools ==
  [calc |-> Spec0("data"), get |-> Spec0("fs"), incr |-> Spec0("fs"), log |-> Spec0("fs"), sh |-> Spec0("fs"),
   put |-> [Spec0("fs") EXCEPT !.effects = Eff({}, {Templ("file")}), !.batch_size = 0]]
MCCapabilities ==
  [calc |-> Caps(Eff({}, {Fixed("count")}), None, None),
   get |-> Caps([Eff({Templ("file")}, {}) EXCEPT !.cacheable = TRUE, !.batchable = TRUE],
                2, Cost(3, 1)),
   put |-> Caps([Eff({}, {}) EXCEPT !.pure = TRUE, !.batchable = TRUE], 3, Cost(1, 2)),
   incr |-> Caps([Eff({}, {Fixed("count")}) EXCEPT !.commutative = TRUE, !.batchable = TRUE],
                 None, Cost(2, 0)),
   log |-> Caps([Eff({}, {Fixed("count")}) EXCEPT !.commutative = TRUE], None, None)]
MCAdapterCapabilities ==
  [data |-> [calc |-> Caps([Eff({}, {}) EXCEPT !.pure = TRUE, !.cacheable = TRUE,
                                               !.batchable = TRUE], None, Cost(0, 1))]]
MCAdapter == {"data", "fs"}

Scalar(v) == [path |-> v, refs |-> {}]
Ref(id) == [path |-> "", refs |-> {id}]
Call(id, tool, input, deps) ==
  [id |-> id, tool |-> tool, input |-> input, depends_on |-> deps, for_each |-> 0, when |-> 0]

\* What a node may be, given the names it may hang on.
Shapes(id, others) ==
  {Call(id, t, Scalar("x"), d) :
     t \in {"calc", "put", "incr", "sh"}, d \in {<<>>} \cup {<<o>> : o \in others}}
  \cup {Call(id, t, Scalar("x"), <<>>) : t \in {"get", "log"}}
  \cup {Call(id, t, Ref(o), <<>>) : t \in {"calc", "put"}, o \in others}
  \cup {[Call(id, "get", Scalar("x"), <<>>) EXCEPT !.for_each = o] : o \in others}
  \cup {[Call(id, "put", Scalar("y"), <<>>) EXCEPT !.when = o] : o \in others}

Plan(nodes, outputs) ==
  [version |-> "0", tools |-> MCTools, nodes |-> nodes, outputs |-> outputs]

\* The names are listed in one order and sorted in another.
Triples(A, B, C) ==
  {<<a, b, c>> : a \in A, b \in B, c \in C}
Shaped == Triples(Shapes(2, {1, 3}), Shapes(1, {2, 3}), Shapes(3, {1, 2}))

Calc == Call(1, "calc", Scalar("x"), <<>>)
Malformed ==
  {[Plan(<<Calc>>, {}) EXCEPT !.version = "1"],
   [Plan(<<[Calc EXCEPT !.tool = "put"], [Calc EXCEPT !.id = 2]>>, {}) EXCEPT !.tools.put.effects.pure = TRUE],
   Plan(<<[Calc EXCEPT !.id = 9]>>, {}),
   Plan(<<[Calc EXCEPT !.tool = "nope"]>>, {}),
   Plan(<<[Calc EXCEPT !.depends_on = <<4>>]>>, {}),
   Plan(<<[Calc EXCEPT !.when = 1]>>, {}),
   Plan(<<Calc>>, {3}),
   [Plan(<<Calc>>, {1}) EXCEPT !.tools.get.adapter = "db"],
   [Plan(<<Calc>>, {1}) EXCEPT !.tools = Put(@, "old", Spec0("fs"))],
   Plan(<<Calc, [Calc EXCEPT !.tool = "sh"]>>, {}),
   Plan(<<Calc, Calc>>, {}),
   Plan(<<Calc, Calc>>, {1})}

Asked(plans) == {[entry |-> e, plan |-> p] : e \in {"optimized", "validated"}, p \in plans}

\* Four calls of one tool, over its batch size, and with several
\* dependencies in either order.
Wide ==
  {Plan(<<Call(1, t, Scalar("x"), <<>>), Call(2, t, Scalar("y"), <<>>),
          [Call(3, t, Scalar("x"), <<>>) EXCEPT !.when = 1],
          [Call(4, t, Scalar("y"), <<>>) EXCEPT !.when = 1],
          [Call(5, u, Scalar("x"), d) EXCEPT !.when = w]>>, {5}) :
     t \in {"get", "incr", "calc"}, u \in {"get", "put"}, w \in {0, 1, 2},
     d \in {<<3, 4>>, <<4, 3>>, <<2>>}}

\* For explain, which does not hydrate: tools that declare everything.
CompleteTools == ApplyCapabilities(Plan(<<>>, {})).tools

MCRequests ==
  {[entry |-> "optimized", plan |-> Plan(s, o)] : s \in Shaped, o \in {{}, {3}}}
  \cup {[entry |-> "explained", plan |-> [Plan(s, {}) EXCEPT !.tools = CompleteTools]] : s \in Shaped}
  \cup {[entry |-> "explained", plan |-> p] : p \in Malformed \cup Wide}
  \cup Asked({Plan(<<Calc, s[1], s[3]>>, {}) : s \in {t \in Shaped : t[2] = Calc}})
  \cup Asked(Malformed \cup Wide)

\* Plans for the disagreements with the comments of the code.
MCSmallRequests ==
  {[entry |-> "optimized", plan |-> Plan(<<a, b, c, d>>, {})] :
     a \in {Call(1, "calc", Scalar("x"), <<>>)},
     b \in {Call(2, t, Scalar("y"), <<>>) : t \in {"put", "incr"}},
     c \in {Call(3, "calc", Scalar("x"), e) : e \in {<<>>, <<2>>}},
     d \in {Call(4, "put", Ref(3), <<>>), Call(4, "put", Scalar("x"), <<3>>)}}
MCTemplateRequests ==
  {[entry |-> "optimized", plan |-> Plan(<<Calc, Call(2, "put", Ref(1), <<>>), c>>, {})] :
     c \in {Call(3, "put", Scalar(v), d) : v \in {"x", "y"}, d \in {<<>>, <<1>>}}}

\* Intents: three steps, each after or on the output of any other.
Given(v) == [path |-> v, param |-> None, refs |-> {}, malformed |-> FALSE]
Step(id, t, input, after) == [id |-> id, tool |-> t, input |-> input, after |-> after]
Source(body, params, values, outputs) ==
  [body |-> body, tools |-> MCTools, params |-> params, values |-> values, outputs |-> outputs]
Intent(steps) == Source([kind |-> "intent", version |-> "0", steps |-> steps], <<>>, <<>>, {})

StepShapes(id, others) ==
  {Step(id, t, x, a) : t \in {"calc", "put", "sh"},
                       x \in {Given("x")} \cup {[Given("") EXCEPT !.refs = {o}] : o \in others},
                       a \in {<<>>} \cup {<<o>> : o \in others}}
First == Step(1, "calc", Given("x"), <<>>)
BadSteps ==
  {[First EXCEPT !.id = 9], [First EXCEPT !.tool = "nope"], [First EXCEPT !.after = <<2>>],
   [First EXCEPT !.after = <<1>>], [First EXCEPT !.input.refs = {1}],
   [First EXCEPT !.input.malformed = TRUE]}
MCIntents ==
  {Intent(<<Step(2, t, Given("x"), <<>>), a, b>>) :
     t \in {"calc", "put"}, a \in StepShapes(1, {2, 3}), b \in StepShapes(3, {1, 2})}
  \cup {Intent(<<s>>) : s \in BadSteps} \cup {Intent(<<First, First>>)}
  \cup {[Intent(<<First>>) EXCEPT !.body.version = "1"]}

\* Recipes over at most three items, some of them a parameter.
Recipe(kind, tool, reduce, items, steps) ==
  [kind |-> kind, version |-> "0", tool |-> tool, reduce_tool |-> reduce, items |-> items,
   items_ref |-> 0, steps |-> steps]
Param == [Given("") EXCEPT !.param = "p"]
ItemLists ==
  UNION {[1..k -> {Given("x"), Given("y"), Param}] : k \in 0..2}
  \cup {<<Given("x"), Given("y"), i>> : i \in {Given("x"), Param}}
PipelineStep == [tool: {"calc", "put"}, input: {Given("x")}, prev: BOOLEAN]
Bodies ==
  {Recipe("fan_out", t, "", i, <<>>) : t \in {"calc", "get"}, i \in ItemLists}
  \cup {Recipe("map_reduce", t, r, i, <<>>) : t \in {"calc", "get", "incr"},
                                              r \in {"calc", "put"}, i \in ItemLists}
  \cup {Recipe("pipeline", "", "", <<>>, s) : s \in UNION {[1..k -> PipelineStep] : k \in 0..3}}
  \cup {[Recipe("fan_out", "get", "", <<>>, <<>>) EXCEPT !.version = "1"]}
  \cup {[Recipe("map_reduce", "get", "put", <<>>, <<>>) EXCEPT !.items_ref = i] : i \in {7, ReduceId}}
NoValues == <<>>
MCRecipes ==
  {Source(b, [p |-> d], v, {}) : b \in {c \in Bodies : Param \in ToSet(c.items)},
                                 d \in {"x", None}, v \in {NoValues, [p |-> "y"], [p |-> None]}}
  \cup {Source(b, NoValues, NoValues, o) : b \in Bodies, o \in {{}, {1}, {ReduceId}}}
  \cup {Source(b, NoValues, [q |-> "y"], {}) : b \in {c \in Bodies : Len(c.items) = 1}}

MCSources == MCIntents \cup MCRecipes
=============================================================================
