------------------------------- MODULE Layers -------------------------------
(***************************************************************************)
(* Layer construction (crates/tool-compiler-graph/src/layers.rs): Kahn's   *)
(* algorithm, one layer at a time.  A pass walks the ready nodes in name   *)
(* order and admits a node when the summary of the layer built so far says *)
(* that it conflicts with no member; what a layer leaves behind waits for  *)
(* the next pass.  Nodes left over when nothing is ready are on a cycle.   *)
(*                                                                         *)
(* Node names are naturals, so that the order of a BTreeSet is <=; the     *)
(* nodes of a layer are listed in that order, so a layer is a set.         *)
(***************************************************************************)
EXTENDS EffectRules, Naturals, Sequences, FiniteSets

VARIABLES
  dependencies,  \* [D -> SUBSET D], D the nodes of the graph
  effects,       \* [D -> resolved effects]
  pending,       \* how many dependencies of a node are in no layer yet
  ready,         \* nodes whose dependencies are all in a layer
  todo,          \* ready nodes this pass has not looked at
  layer,         \* nodes admitted by this pass
  state,         \* LayerState: the summary of layer
  layers,        \* the layers emitted
  emitted,       \* how many nodes they hold
  building       \* "idle", "busy", "layered" or "cycle"

layerVars == <<dependencies, effects, pending, ready, todo, layer, state,
               layers, emitted, building>>

----------------------------------------------------------------------------
(* The summary of the layer being built.                                   *)

DefaultState == [members |-> 0, undeclared |-> FALSE, reads |-> {},
                 writes |-> [r \in {} |-> [tool |-> "", commutative |-> FALSE]]]

\* Mutant of Admits: a claim is shared by any two commutative writers.
AdmitsAnyTool(s, e) ==
  \/ s.members = 0
  \/ /\ ~s.undeclared /\ e.declared
     /\ Disjoint(e.reads, DOMAIN s.writes)
     /\ \/ e.pure
        \/ \A r \in e.writes :
             /\ r \notin s.reads
             /\ r \in DOMAIN s.writes =>
                  s.writes[r].commutative /\ e.commutative

\* LayerState::admits.
Admits(s, e) ==
  \/ s.members = 0
  \/ /\ ~s.undeclared /\ e.declared
     /\ Disjoint(e.reads, DOMAIN s.writes)
     /\ \/ e.pure
        \/ \A r \in e.writes :
             /\ r \notin s.reads
             /\ r \in DOMAIN s.writes =>
                  /\ s.writes[r].commutative /\ e.commutative
                  /\ s.writes[r].tool = e.tool

\* LayerState::absorb.  The first writer of a resource keeps the claim.
Claimed(s, e) ==
  [r \in DOMAIN s.writes \cup (IF e.pure THEN {} ELSE e.writes) |->
     IF r \in DOMAIN s.writes THEN s.writes[r]
     ELSE [tool |-> e.tool, commutative |-> e.commutative]]

Absorb(s, e) ==
  IF e.declared
  THEN [members |-> s.members + 1, undeclared |-> s.undeclared,
        reads |-> s.reads \cup e.reads, writes |-> Claimed(s, e)]
  ELSE [members |-> s.members + 1, undeclared |-> TRUE,
        reads |-> s.reads, writes |-> s.writes]

----------------------------------------------------------------------------
(* safe_layers.                                                            *)

\* A call of safe_layers, before its loop.
SafeLayers(deps, fx) ==
  LET first == {n \in DOMAIN deps : deps[n] = {}}
  IN  /\ dependencies' = deps
      /\ effects' = fx
      /\ pending' = [n \in DOMAIN deps |-> Cardinality(deps[n])]
      /\ ready' = first
      /\ todo' = first
      /\ layer' = {}
      /\ state' = DefaultState
      /\ layers' = <<>>
      /\ emitted' = 0
      /\ building' = "busy"

\* One candidate of the pass: the least one not looked at yet.
Scan(c) ==
  /\ building = "busy"
  /\ c \in todo
  /\ \A d \in todo : c <= d
  /\ todo' = todo \ {c}
  /\ IF Admits(state, effects[c])
     THEN layer' = layer \cup {c} /\ state' = Absorb(state, effects[c])
     ELSE UNCHANGED <<layer, state>>
  /\ UNCHANGED <<dependencies, effects, pending, ready, layers, emitted, building>>

\* Mutant of Counted: a child is unblocked by its first dependency.
CountedOnce(n) == IF Disjoint(dependencies[n], layer) THEN pending[n] ELSE 0

\* What a layer leaves of the dependency count of a node.
Counted(n) == pending[n] - Cardinality(dependencies[n] \cap layer)

\* The end of a pass; the next one starts over the nodes ready by then.
CloseLayer ==
  /\ building = "busy"
  /\ todo = {} /\ ready # {}
  /\ LET count == [n \in DOMAIN dependencies |-> Counted(n)]
         freed == {n \in DOMAIN dependencies :
                     ~Disjoint(dependencies[n], layer) /\ count[n] = 0}
     IN  /\ pending' = count
         /\ ready' = (ready \ layer) \cup freed
         /\ todo' = (ready \ layer) \cup freed
  /\ layers' = Append(layers, layer)
  /\ emitted' = emitted + Cardinality(layer)
  /\ layer' = {}
  /\ state' = DefaultState
  /\ UNCHANGED <<dependencies, effects, building>>

\* Mutant of EndLayers: the layers are counted, not the nodes in them.
EndLayersByLayers ==
  /\ building = "busy"
  /\ ready = {}
  /\ building' = IF Len(layers) > 0 THEN "layered" ELSE "cycle"
  /\ UNCHANGED <<dependencies, effects, pending, ready, todo, layer, state, layers, emitted>>

\* The loop ends with nothing ready: every node is in a layer, or there is a
\* cycle.
EndLayers ==
  /\ building = "busy"
  /\ ready = {}
  /\ building' = IF emitted = Cardinality(DOMAIN dependencies) THEN "layered" ELSE "cycle"
  /\ UNCHANGED <<dependencies, effects, pending, ready, todo, layer, state, layers, emitted>>

LayersInit ==
  /\ dependencies = <<>> /\ effects = <<>> /\ pending = <<>>
  /\ ready = {} /\ todo = {} /\ layer = {} /\ state = DefaultState
  /\ layers = <<>> /\ emitted = 0
  /\ building = "idle"

\* validate and ExecutionGraph::retain call safe_layers with a graph whose
\* dependencies are nodes of it and whose effects validate has checked.
CallSafeLayers ==
  /\ building # "busy"
  /\ DOMAIN dependencies' \subseteq Nat /\ IsFiniteSet(DOMAIN dependencies')
  /\ dependencies' \in [DOMAIN dependencies' -> SUBSET DOMAIN dependencies']
  /\ DOMAIN effects' = DOMAIN dependencies'
  /\ \A n \in DOMAIN effects' : IsResolvedEffects(effects'[n]) /\ ~IsContradictory(effects'[n])
  /\ SafeLayers(dependencies', effects')

BuildLayers == (\E c \in todo : Scan(c)) \/ CloseLayer \/ EndLayers

LayersNext == CallSafeLayers \/ BuildLayers

LayersSpec == LayersInit /\ [][LayersNext]_layerVars

----------------------------------------------------------------------------
(* Properties.                                                             *)

Placed == UNION {layers[i] : i \in DOMAIN layers}

\* The module comment of layers.rs (lines 3-7): the decisions of the layer
\* summary are exactly those of comparing the candidate with every member by
\* can_run_with, for every node the pass could be offered.
AdmitsIsPairwise ==
  building = "busy" =>
    \A c \in DOMAIN effects :
      Admits(state, effects[c]) <=> \A m \in layer : CanRunWith(effects[m], effects[c])

\* ExecutionGraph::layers (lib.rs:36-40): the members of a layer may all run
\* at the same time, and everything a member depends on is in an earlier one.
LayersSound ==
  \A i \in DOMAIN layers : \A n \in layers[i] :
    /\ \A m \in layers[i] : m # n => CanRunWith(effects[m], effects[n])
    /\ \A d \in dependencies[n] : \E j \in 1..(i - 1) : d \in layers[j]

\* A graph is given up as cyclic only when some nodes wait for one another
\* for ever, and is accepted only when every node is in a layer.
VerdictRight ==
  /\ building = "layered" => Placed = DOMAIN dependencies
  /\ building = "cycle" =>
       \E W \in SUBSET DOMAIN dependencies :
         W # {} /\ \A n \in W : dependencies[n] \cap W # {}
=============================================================================
