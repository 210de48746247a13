--------------------------- MODULE CompileProofs ---------------------------
(***************************************************************************)
(* Proofs about Layers, Compile and Planner.                               *)
(*                                                                         *)
(* The layers of every graph: a layer's summary decides as comparing the   *)
(* members one by one would, a layer holds nodes that may run together,    *)
(* after everything they depend on, and the verdict on cycles is right.    *)
(* The inductive invariant has two halves that do not meet until a layer   *)
(* is closed: what the summary knows about the layer being built, and what *)
(* the counters of Kahn's algorithm know about the layers emitted.         *)
(*                                                                         *)
(* The passes over every plan: what they leave means what was submitted,   *)
(* and is closed.  The inductive invariant says, phase by phase, how the   *)
(* plan at hand is related to the one submitted and to its graph.  What    *)
(* the recursive operators of Compile compute is proved by induction on    *)
(* the naturals, from the least element of a set of them.                  *)
(*                                                                         *)
(* Together: a compilation takes the steps of Layers only, so its layers   *)
(* are sound, and from these layers it follows that the units of the       *)
(* engine never wait for each other in a circle and that lowered steps     *)
(* keep the order they ask for.  The report is true: its sums are compared *)
(* as cardinalities, and every pair the layers kept apart is explained.    *)
(***************************************************************************)
EXTENDS Planner, FiniteSetTheorems, WellFoundedInduction, TLAPS

----------------------------------------------------------------------------
(* Layers.                                                                 *)

Graph == DOMAIN dependencies

LayerTypeOK ==
  /\ building \in {"idle", "busy", "layered", "cycle"}
  /\ layers \in Seq(SUBSET Graph)
  /\ building # "idle" =>
       /\ Graph \in SUBSET Nat /\ IsFiniteSet(Graph)
       /\ dependencies \in [Graph -> SUBSET Graph]
       /\ DOMAIN effects = Graph
       /\ \A n \in Graph : IsResolvedEffects(effects[n]) /\ ~IsContradictory(effects[n])
       /\ pending \in [Graph -> Int]
       /\ ready \in SUBSET Graph /\ todo \in SUBSET ready /\ layer \in SUBSET ready

\* What the summary says about the members of the layer being built.
Summary ==
  /\ state.members \in Nat
  /\ state.members = 0 <=> layer = {}
  /\ state.undeclared <=> \E m \in layer : ~effects[m].declared
  /\ ~state.undeclared =>
       \A r : r \in state.reads <=> \E m \in layer : r \in effects[m].reads
  /\ ~state.undeclared =>
       \A r : r \in DOMAIN state.writes <=> \E m \in layer : r \in effects[m].writes
  /\ ~state.undeclared =>
       \A m \in layer : \A r \in effects[m].writes :
         /\ state.writes[r].tool = effects[m].tool
         /\ state.writes[r].commutative = effects[m].commutative

\* No node is in two layers.
Apart == \A i, j \in DOMAIN layers : i # j => Disjoint(layers[i], layers[j])

\* The members of a set of nodes may run together.
Compatible(S) == \A m, n \in S : m # n => CanRunWith(effects[m], effects[n])

\* What the counters say about the nodes in no layer yet.
Kahn ==
  /\ Placed \subseteq Graph
  /\ \A n \in Graph : pending[n] = Cardinality(dependencies[n] \ Placed)
  /\ ready = {n \in Graph \ Placed : dependencies[n] \subseteq Placed}
  /\ emitted = Cardinality(Placed)

LayersInv ==
  /\ LayerTypeOK
  /\ LayersSound /\ Apart
  /\ building # "idle" => Kahn
  /\ building = "busy" => Summary /\ Compatible(layer)
  /\ VerdictRight

\* can_run_with is symmetric.
LEMMA CanRunWithSymmetric ==
  ASSUME NEW a, NEW b, CanRunWith(a, b)
  PROVE  CanRunWith(b, a)
BY DEF CanRunWith, Disjoint

\* The summary decides as the pairwise rule does.
LEMMA SummaryDecides ==
  ASSUME LayerTypeOK, building # "idle", Summary, NEW c \in Graph
  PROVE  Admits(state, effects[c]) <=> \A m \in layer : CanRunWith(effects[m], effects[c])
<1> DEFINE e == effects[c]
<1>1. /\ ~IsContradictory(e)
      /\ \A m \in layer : ~IsContradictory(effects[m])
  BY DEF LayerTypeOK
<1>2. CASE layer = {}
  BY <1>2 DEF Summary, Admits
<1>3. CASE layer # {} /\ (state.undeclared \/ ~e.declared)
  BY <1>3 DEF Summary, Admits, CanRunWith
<1>4. CASE layer # {} /\ ~state.undeclared /\ e.declared
  <2>1. \A m \in layer : effects[m].declared
    BY <1>4 DEF Summary
  <2>2. ASSUME Admits(state, e), NEW m \in layer
        PROVE  CanRunWith(effects[m], e)
    <3>1. Disjoint(effects[m].writes, e.reads)
      BY <1>4, <2>2 DEF Summary, Admits, Disjoint
    <3>2. CASE e.pure
      <4>1. e.writes = {}
        BY <1>1, <3>2 DEF IsContradictory
      <4> QED BY <1>4, <2>1, <3>1, <4>1 DEF CanRunWith, Disjoint
    <3>3. CASE ~e.pure
      <4>1. \A r \in e.writes :
              /\ r \notin state.reads
              /\ r \in DOMAIN state.writes =>
                   /\ state.writes[r].commutative /\ e.commutative
                   /\ state.writes[r].tool = e.tool
        BY <1>4, <2>2, <3>3 DEF Summary, Admits
      <4>2. Disjoint(e.writes, effects[m].reads)
        BY <1>4, <4>1 DEF Summary, Disjoint
      <4>3. \/ Disjoint(effects[m].writes, e.writes)
            \/ effects[m].tool = e.tool /\ effects[m].commutative /\ e.commutative
        BY <1>4, <4>1 DEF Summary, Disjoint
      <4> QED BY <1>4, <2>1, <3>1, <4>2, <4>3 DEF CanRunWith
    <3> QED BY <3>2, <3>3
  <2>3. ASSUME \A m \in layer : CanRunWith(effects[m], e)
        PROVE  Admits(state, e)
    <3>1. Disjoint(e.reads, DOMAIN state.writes)
      <4>1. SUFFICES ASSUME NEW r \in e.reads, r \in DOMAIN state.writes PROVE FALSE
        BY DEF Disjoint
      <4>2. PICK m \in layer : r \in effects[m].writes
        BY <1>4, <4>1 DEF Summary
      <4>3. ~effects[m].pure
        BY <1>1, <4>2 DEF IsContradictory
      <4> QED BY <2>3, <4>1, <4>2, <4>3 DEF CanRunWith, Disjoint
    <3>2. ASSUME NEW r \in e.writes, ~e.pure
          PROVE  /\ r \notin state.reads
                 /\ r \in DOMAIN state.writes =>
                      /\ state.writes[r].commutative /\ e.commutative
                      /\ state.writes[r].tool = e.tool
      <4>1. r \notin state.reads
        BY <1>4, <2>3, <3>2 DEF Summary, CanRunWith, Disjoint
      <4>2. ASSUME r \in DOMAIN state.writes
            PROVE  /\ state.writes[r].commutative /\ e.commutative
                   /\ state.writes[r].tool = e.tool
        <5>1. PICK m \in layer : r \in effects[m].writes
          BY <1>4, <4>2 DEF Summary
        <5>2. effects[m].tool = e.tool /\ effects[m].commutative /\ e.commutative
          BY <2>3, <3>2, <5>1 DEF CanRunWith, Disjoint
        <5> QED BY <1>4, <5>1, <5>2 DEF Summary
      <4> QED BY <4>1, <4>2
    <3> QED BY <1>4, <3>1, <3>2 DEF Admits
  <2> QED BY <2>2, <2>3
<1> QED BY <1>2, <1>3, <1>4

\* Admitting a candidate keeps the summary true.
LEMMA AbsorbKeepsSummary ==
  ASSUME LayerTypeOK, building # "idle", Summary, NEW c \in Graph,
         Admits(state, effects[c]),
         layer' = layer \cup {c}, state' = Absorb(state, effects[c]),
         effects' = effects
  PROVE  Summary'
<1> DEFINE e == effects[c]
<1>0. /\ ~IsContradictory(e)
      /\ e.pure \in BOOLEAN /\ e.declared \in BOOLEAN
  BY DEF LayerTypeOK, IsResolvedEffects
<1>1. state'.members = state.members + 1 /\ layer' # {}
  BY DEF Absorb
<1>2. state'.members \in Nat /\ state'.members # 0
  BY <1>1 DEF Summary
<1>3. CASE ~e.declared
  <2>1. state'.undeclared
    BY <1>3 DEF Absorb
  <2> QED BY <1>1, <1>2, <1>3, <2>1 DEF Summary
<1>4. CASE e.declared
  <2>1. /\ state'.undeclared = state.undeclared
        /\ state'.reads = state.reads \cup e.reads
        /\ state'.writes = Claimed(state, e)
    BY <1>4 DEF Absorb
  <2>2. state'.undeclared <=> \E m \in layer' : ~effects'[m].declared
    BY <1>4, <2>1 DEF Summary
  <2>3. ASSUME state.undeclared
        PROVE  Summary'
    BY <1>1, <1>2, <2>1, <2>2, <2>3 DEF Summary
  <2>4. ASSUME ~state.undeclared
        PROVE  Summary'
    <3>0. IF e.pure THEN e.writes = {} ELSE TRUE
      BY <1>0 DEF IsContradictory
    <3>1. DOMAIN state'.writes = DOMAIN state.writes \cup e.writes
      BY <2>1, <3>0 DEF Claimed
    <3>2. \A r \in DOMAIN state'.writes :
            state'.writes[r] = IF r \in DOMAIN state.writes THEN state.writes[r]
                               ELSE [tool |-> e.tool, commutative |-> e.commutative]
      BY <2>1, <3>1 DEF Claimed
    <3>3. \A r : r \in state'.reads <=> \E m \in layer' : r \in effects'[m].reads
      BY <2>1, <2>4 DEF Summary
    <3>4. \A r : r \in DOMAIN state'.writes <=> \E m \in layer' : r \in effects'[m].writes
      BY <2>4, <3>1 DEF Summary
    <3>5. ASSUME NEW m \in layer', NEW r \in effects'[m].writes
          PROVE  /\ state'.writes[r].tool = effects'[m].tool
                 /\ state'.writes[r].commutative = effects'[m].commutative
      <4>1. CASE m \in layer
        <5>1. r \in DOMAIN state.writes
          BY <2>4, <3>5, <4>1 DEF Summary
        <5>2. state'.writes[r] = state.writes[r]
          BY <3>1, <3>2, <5>1
        <5> QED BY <2>4, <3>5, <4>1, <5>2 DEF Summary
      <4>2. CASE m \notin layer
        <5>1. m = c /\ r \in e.writes /\ ~e.pure
          BY <3>0, <3>5, <4>2
        <5>2. CASE r \notin DOMAIN state.writes
          BY <3>1, <3>2, <5>1, <5>2
        <5>3. CASE r \in DOMAIN state.writes
          <6>1. layer # {}
            BY <2>4, <5>3 DEF Summary
          <6>2. state.writes[r].commutative /\ e.commutative /\ state.writes[r].tool = e.tool
            BY <5>1, <5>3, <6>1 DEF Admits, Summary
          <6>3. state.writes[r].commutative = e.commutative
            <7>1. PICK k \in layer : r \in effects[k].writes
              BY <2>4, <5>3 DEF Summary
            <7>2. state.writes[r].commutative = effects[k].commutative
              BY <2>4, <7>1 DEF Summary
            <7>3. effects[k].commutative \in BOOLEAN /\ e.commutative \in BOOLEAN
              BY DEF LayerTypeOK, IsResolvedEffects
            <7> QED BY <6>2, <7>2, <7>3
          <6> QED BY <3>1, <3>2, <5>1, <5>3, <6>2, <6>3
        <5> QED BY <5>2, <5>3
      <4> QED BY <4>1, <4>2
    <3> QED BY <1>1, <1>2, <2>2, <3>3, <3>4, <3>5 DEF Summary
  <2> QED BY <2>3, <2>4
<1> QED BY <1>0, <1>3, <1>4

----------------------------------------------------------------------------
(* The counters of Kahn's algorithm.                                       *)

LEMMA GraphFinite ==
  ASSUME IsFiniteSet(Graph), NEW S \in SUBSET Graph
  PROVE  IsFiniteSet(S) /\ Cardinality(S) \in Nat
BY FS_Subset, FS_CardinalityType

\* Emitting a layer adds its nodes to the ones placed, behind the others.
LEMMA PlacedGrows ==
  ASSUME LayerTypeOK, layer \in SUBSET Graph, layers' = Append(layers, layer)
  PROVE  /\ Placed' = Placed \cup layer
         /\ Len(layers') = Len(layers) + 1
         /\ DOMAIN layers' = DOMAIN layers \cup {Len(layers) + 1}
         /\ \A i \in DOMAIN layers : layers'[i] = layers[i] /\ i \in 1..Len(layers)
         /\ layers'[Len(layers) + 1] = layer
<1>1. /\ Len(layers') = Len(layers) + 1
      /\ DOMAIN layers' = DOMAIN layers \cup {Len(layers) + 1}
      /\ \A i \in DOMAIN layers : layers'[i] = layers[i] /\ i \in 1..Len(layers)
      /\ layers'[Len(layers) + 1] = layer
  BY DEF LayerTypeOK
<1>2. ASSUME NEW n PROVE n \in Placed' <=> n \in Placed \cup layer
  BY <1>1 DEF Placed
<1> QED BY <1>1, <1>2

\* Everything a placed node depends on is placed.
LEMMA PlacedClosed ==
  ASSUME LayerTypeOK, LayersSound, NEW n \in Placed
  PROVE  dependencies[n] \subseteq Placed
<1>1. PICK i \in DOMAIN layers : n \in layers[i]
  BY DEF Placed
<1>2. ASSUME NEW d \in dependencies[n] PROVE d \in Placed
  <2>1. PICK j \in 1..(i - 1) : d \in layers[j]
    BY <1>1, <1>2 DEF LayersSound
  <2>2. j \in DOMAIN layers
    BY <1>1, <2>1 DEF LayerTypeOK
  <2> QED BY <2>1, <2>2 DEF Placed
<1> QED BY <1>2

\* What closing a layer does to the counters.
LEMMA CloseKeepsKahn ==
  ASSUME LayerTypeOK, LayersSound, Kahn, CloseLayer
  PROVE  Kahn'
<1> DEFINE count == [n \in Graph |-> Counted(n)]
           freed == {n \in Graph : ~Disjoint(dependencies[n], layer) /\ count[n] = 0}
<1>0. building # "idle"
  BY DEF CloseLayer
<1>1. /\ IsFiniteSet(Graph) /\ layer \in SUBSET Graph
      /\ layer \cap Placed = {}
      /\ \A n \in layer : dependencies[n] \subseteq Placed
      /\ \A n \in Graph : dependencies[n] \in SUBSET Graph
      /\ Placed \in SUBSET Graph
  BY <1>0 DEF LayerTypeOK, Kahn
<1>2. Graph' = Graph /\ dependencies' = dependencies
      /\ pending' = count /\ ready' = (ready \ layer) \cup freed
      /\ emitted' = emitted + Cardinality(layer)
  BY DEF CloseLayer, Graph
<1>3. Placed' = Placed \cup layer
  BY <1>1, PlacedGrows DEF CloseLayer
<1>4. ASSUME NEW n \in Graph
      PROVE  count[n] = Cardinality(dependencies[n] \ Placed')
  <2> DEFINE open == dependencies[n] \ Placed
  <2>1. open \in SUBSET Graph /\ open \cap layer = dependencies[n] \cap layer
        /\ open \ layer = dependencies[n] \ Placed'
    BY <1>1, <1>3
  <2>2. Cardinality(open \ layer) = Cardinality(open) - Cardinality(open \cap layer)
    BY <1>1, <2>1, GraphFinite, FS_Difference
  <2> QED BY <2>1, <2>2 DEF Kahn, Counted
<1>5. ready' = {n \in Graph \ Placed' : dependencies[n] \subseteq Placed'}
  <2>1. ASSUME NEW n \in Graph
        PROVE  count[n] = 0 <=> dependencies[n] \subseteq Placed'
    <3>1. IsFiniteSet(dependencies[n] \ Placed')
      BY <1>1, GraphFinite
    <3> QED BY <1>4, <3>1, FS_EmptySet
  <2>2. ASSUME NEW n \in ready'
        PROVE  n \in Graph /\ n \notin Placed' /\ dependencies[n] \subseteq Placed'
    <3>1. CASE n \in ready \ layer
      BY <1>3, <3>1 DEF Kahn
    <3>2. CASE n \in freed
      <4>1. PICK d \in layer : d \in dependencies[n]
        BY <3>2 DEF Disjoint
      <4>2. d \notin Placed
        BY <1>1, <4>1
      <4>3. n \notin Placed
        BY <4>1, <4>2, PlacedClosed
      <4>4. n \notin layer
        BY <1>1, <4>1, <4>2
      <4> QED BY <1>3, <2>1, <3>2, <4>3, <4>4
    <3> QED BY <1>2, <2>2, <3>1, <3>2
  <2>3. ASSUME NEW n \in Graph \ Placed', dependencies[n] \subseteq Placed'
        PROVE  n \in ready'
    <3>1. CASE Disjoint(dependencies[n], layer)
      BY <1>2, <1>3, <2>3, <3>1 DEF Kahn, Disjoint
    <3>2. CASE ~Disjoint(dependencies[n], layer)
      BY <1>2, <2>1, <2>3, <3>2
    <3> QED BY <3>1, <3>2
  <2> QED BY <2>2, <2>3
<1>6. emitted' = Cardinality(Placed')
  <2>1. Cardinality(Placed \cup layer) =
          Cardinality(Placed) + Cardinality(layer) - Cardinality(Placed \cap layer)
    BY <1>1, GraphFinite, FS_Union
  <2>2. Cardinality(Placed \cap layer) = 0 /\ Cardinality(Placed) \in Nat /\ Cardinality(layer) \in Nat
    BY <1>1, GraphFinite, FS_EmptySet
  <2> QED BY <1>2, <1>3, <2>1, <2>2 DEF Kahn
<1>7. Placed' \subseteq Graph'
  BY <1>1, <1>2, <1>3 DEF Kahn
<1> QED BY <1>2, <1>4, <1>5, <1>6, <1>7 DEF Kahn

\* A closed layer is behind everything its nodes depend on.
LEMMA CloseKeepsSound ==
  ASSUME LayerTypeOK, LayersSound, Kahn, Compatible(layer), CloseLayer
  PROVE  LayersSound'
<1>1. layer \in SUBSET Graph /\ \A n \in layer : dependencies[n] \subseteq Placed
  BY DEF LayerTypeOK, Kahn, CloseLayer
<1>2. layers' = Append(layers, layer) /\ effects' = effects /\ dependencies' = dependencies
  BY DEF CloseLayer
<1>3. SUFFICES ASSUME NEW i \in DOMAIN layers', NEW n \in layers'[i]
               PROVE  /\ \A m \in layers'[i] : m # n => CanRunWith(effects[m], effects[n])
                      /\ \A d \in dependencies[n] : \E j \in 1..(i - 1) : d \in layers'[j]
  BY <1>2 DEF LayersSound
<1>4. CASE i \in DOMAIN layers
  <2>1. /\ \A m \in layers[i] : m # n => CanRunWith(effects[m], effects[n])
        /\ \A d \in dependencies[n] : \E j \in 1..(i - 1) : d \in layers[j]
    BY <1>1, <1>2, <1>3, <1>4, PlacedGrows DEF LayersSound
  <2>2. \A j \in 1..(i - 1) : j \in DOMAIN layers
    BY <1>4 DEF LayerTypeOK
  <2> QED BY <1>1, <1>2, <1>4, <2>1, <2>2, PlacedGrows
<1>5. CASE i = Len(layers) + 1
  <2>1. layers'[i] = layer
    BY <1>1, <1>2, <1>5, PlacedGrows
  <2>2. ASSUME NEW d \in dependencies[n]
        PROVE  \E j \in 1..(i - 1) : d \in layers'[j]
    <3>1. PICK j \in DOMAIN layers : d \in layers[j]
      BY <1>1, <1>3, <2>1 DEF Placed
    <3>2. j \in 1..(i - 1) /\ layers'[j] = layers[j]
      BY <1>1, <1>2, <1>5, <3>1, PlacedGrows DEF LayerTypeOK
    <3> QED BY <3>1, <3>2
  <2> QED BY <1>3, <2>1, <2>2 DEF Compatible
<1> QED BY <1>1, <1>2, <1>3, <1>4, <1>5, PlacedGrows

\* A closed layer holds nodes that were in none.
LEMMA CloseKeepsApart ==
  ASSUME LayerTypeOK, building # "idle", Apart, Kahn, CloseLayer
  PROVE  Apart'
<1>1. layer \in SUBSET Graph /\ layer \cap Placed = {}
  BY DEF LayerTypeOK, Kahn
<1>2. layers' = Append(layers, layer)
  BY DEF CloseLayer
<1>3. /\ DOMAIN layers' = DOMAIN layers \cup {Len(layers) + 1}
      /\ \A i \in DOMAIN layers : layers'[i] = layers[i]
      /\ layers'[Len(layers) + 1] = layer
  BY <1>1, <1>2, PlacedGrows
<1>4. \A i \in DOMAIN layers : Disjoint(layers[i], layer) /\ Disjoint(layer, layers[i])
  BY <1>1 DEF Placed, Disjoint
<1> QED BY <1>3, <1>4 DEF Apart

----------------------------------------------------------------------------
(* The invariant.                                                          *)

LEMMA LayersInvInit == LayersInit => LayersInv
<1> SUFFICES ASSUME LayersInit PROVE LayersInv
  OBVIOUS
<1>1. layers = <<>> /\ building = "idle"
  BY DEF LayersInit
<1>2. layers \in Seq(SUBSET Graph) /\ DOMAIN layers = {}
  BY <1>1
<1> QED BY <1>1, <1>2 DEF LayersInv, LayerTypeOK, LayersSound, Apart, VerdictRight

\* A call of safe_layers starts from nothing.
LEMMA CallKeepsInv ==
  ASSUME LayersInv, CallSafeLayers
  PROVE  LayersInv'
<1> DEFINE D == DOMAIN dependencies'
<1>0. D \in SUBSET Nat /\ IsFiniteSet(D) /\ dependencies' \in [D -> SUBSET D]
  BY DEF CallSafeLayers
<1>1. /\ Graph' = D
      /\ DOMAIN effects' = D
      /\ \A n \in D : IsResolvedEffects(effects'[n]) /\ ~IsContradictory(effects'[n])
      /\ pending' = [n \in D |-> Cardinality(dependencies'[n])]
      /\ ready' = {n \in D : dependencies'[n] = {}}
      /\ todo' = ready' /\ layer' = {} /\ state' = DefaultState
      /\ layers' = <<>> /\ emitted' = 0 /\ building' = "busy"
  BY <1>0 DEF CallSafeLayers, SafeLayers, Graph
<1>2. layers' \in Seq(SUBSET D) /\ DOMAIN layers' = {} /\ Placed' = {}
  BY <1>1 DEF Placed
<1>3. \A n \in D : dependencies'[n] \in SUBSET D /\ Cardinality(dependencies'[n]) \in Nat
  BY <1>0, FS_Subset, FS_CardinalityType
<1>4. LayerTypeOK'
  BY <1>0, <1>1, <1>2, <1>3 DEF LayerTypeOK
<1>5. Kahn'
  BY <1>0, <1>1, <1>2, <1>3, FS_EmptySet DEF Kahn
<1>6. Summary' /\ Compatible(layer)'
  <2>1. /\ state'.members = 0 /\ state'.undeclared = FALSE /\ state'.reads = {}
        /\ DOMAIN state'.writes = {}
    BY <1>1 DEF DefaultState
  <2> QED BY <1>1, <2>1 DEF Summary, Compatible
<1> QED BY <1>1, <1>2, <1>4, <1>5, <1>6 DEF LayersInv, LayersSound, Apart, VerdictRight

\* One candidate.
LEMMA ScanKeepsInv ==
  ASSUME LayersInv, NEW c \in todo, Scan(c)
  PROVE  LayersInv'
<1>1. /\ building = "busy" /\ c \in todo /\ todo' = todo \ {c}
      /\ dependencies' = dependencies /\ effects' = effects /\ pending' = pending
      /\ ready' = ready /\ layers' = layers /\ emitted' = emitted /\ building' = building
  BY DEF Scan
<1>2. LayerTypeOK /\ LayersSound /\ Apart /\ Kahn /\ Summary /\ Compatible(layer)
  BY <1>1 DEF LayersInv
<1>3. c \in Graph /\ c \in ready
  BY <1>1, <1>2 DEF LayerTypeOK
<1>4. Graph' = Graph /\ Placed' = Placed
  BY <1>1 DEF Graph, Placed
<1>5. LayersSound' /\ Apart' /\ Kahn'
  BY <1>1, <1>2, <1>4 DEF LayersSound, Apart, Kahn
<1>6. CASE Admits(state, effects[c])
  <2>1. layer' = layer \cup {c} /\ state' = Absorb(state, effects[c])
    BY <1>6 DEF Scan
  <2>2. Summary'
    BY <1>1, <1>2, <1>3, <1>6, <2>1, AbsorbKeepsSummary
  <2>3. \A m \in layer : CanRunWith(effects[m], effects[c]) /\ CanRunWith(effects[c], effects[m])
    BY <1>1, <1>2, <1>3, <1>6, SummaryDecides, CanRunWithSymmetric
  <2>4. Compatible(layer)'
    BY <1>1, <1>2, <2>1, <2>3 DEF Compatible
  <2>5. LayerTypeOK'
    BY <1>1, <1>2, <1>3, <1>4, <2>1 DEF LayerTypeOK
  <2> QED BY <1>1, <1>5, <2>2, <2>4, <2>5 DEF LayersInv, VerdictRight
<1>7. CASE ~Admits(state, effects[c])
  <2>1. layer' = layer /\ state' = state
    BY <1>7 DEF Scan
  <2>2. Summary' /\ Compatible(layer)'
    BY <1>1, <1>2, <2>1 DEF Summary, Compatible
  <2>3. LayerTypeOK'
    BY <1>1, <1>2, <1>4, <2>1 DEF LayerTypeOK
  <2> QED BY <1>1, <1>5, <2>2, <2>3 DEF LayersInv, VerdictRight
<1> QED BY <1>6, <1>7

\* The end of a pass.
LEMMA CloseKeepsInv ==
  ASSUME LayersInv, CloseLayer
  PROVE  LayersInv'
<1>1. /\ building = "busy" /\ building' = building
      /\ dependencies' = dependencies /\ effects' = effects
      /\ layers' = Append(layers, layer) /\ layer' = {} /\ state' = DefaultState
      /\ todo' = ready' /\ Graph' = Graph
  BY DEF CloseLayer, Graph
<1>2. LayerTypeOK /\ LayersSound /\ Apart /\ Kahn /\ Compatible(layer)
  BY <1>1 DEF LayersInv
<1>3. Kahn' /\ LayersSound' /\ Apart'
  BY <1>1, <1>2, CloseKeepsKahn, CloseKeepsSound, CloseKeepsApart
<1>4. layers' \in Seq(SUBSET Graph)
  <2>1. layers \in Seq(SUBSET Graph) /\ layer \in SUBSET Graph
    BY <1>1, <1>2 DEF LayerTypeOK
  <2> QED BY <1>1, <2>1
<1>5. pending' \in [Graph -> Int]
  <2>1. pending' = [n \in Graph |-> Counted(n)]
    BY DEF CloseLayer, Graph
  <2>2. /\ IsFiniteSet(Graph)
        /\ \A n \in Graph : pending[n] \in Int /\ dependencies[n] \cap layer \in SUBSET Graph
    BY <1>1, <1>2 DEF LayerTypeOK
  <2> QED BY <2>1, <2>2, GraphFinite DEF Counted
<1>6. LayerTypeOK'
  <2>1. ready' \in SUBSET Graph
    BY <1>1, <1>3 DEF Kahn
  <2> QED BY <1>1, <1>2, <1>4, <1>5, <2>1 DEF LayerTypeOK
<1>7. Summary' /\ Compatible(layer)'
  <2>1. /\ state'.members = 0 /\ state'.undeclared = FALSE /\ state'.reads = {}
        /\ DOMAIN state'.writes = {}
    BY <1>1 DEF DefaultState
  <2> QED BY <1>1, <2>1 DEF Summary, Compatible
<1> QED BY <1>1, <1>3, <1>6, <1>7 DEF LayersInv, VerdictRight

\* The end of the loop, and its verdict.
LEMMA EndKeepsInv ==
  ASSUME LayersInv, EndLayers
  PROVE  LayersInv'
<1>1. /\ building = "busy" /\ ready = {}
      /\ building' = IF emitted = Cardinality(Graph) THEN "layered" ELSE "cycle"
      /\ dependencies' = dependencies /\ effects' = effects /\ pending' = pending
      /\ ready' = ready /\ todo' = todo /\ layer' = layer /\ layers' = layers
      /\ emitted' = emitted /\ Graph' = Graph
  BY DEF EndLayers, Graph
<1>2. LayerTypeOK /\ LayersSound /\ Apart /\ Kahn
  BY <1>1 DEF LayersInv
<1>3. Placed' = Placed /\ Placed \in SUBSET Graph /\ IsFiniteSet(Graph)
  BY <1>1, <1>2 DEF Placed, Kahn, LayerTypeOK
<1>4. LayerTypeOK' /\ LayersSound' /\ Apart' /\ Kahn'
  <2>1. LayerTypeOK'
    BY <1>1, <1>2 DEF LayerTypeOK
  <2>2. LayersSound' /\ Apart' /\ Kahn'
    BY <1>1, <1>2, <1>3 DEF LayersSound, Apart, Kahn
  <2> QED BY <2>1, <2>2
<1>5. CASE emitted = Cardinality(Graph)
  <2>1. Placed = Graph
    BY <1>2, <1>3, <1>5, GraphFinite, FS_Subset DEF Kahn
  <2> QED BY <1>1, <1>3, <1>4, <1>5, <2>1 DEF LayersInv, VerdictRight, Graph
<1>6. CASE emitted # Cardinality(Graph)
  <2> DEFINE W == Graph \ Placed
  <2>1. W # {}
    BY <1>2, <1>3, <1>6 DEF Kahn
  <2>2. ASSUME NEW n \in W PROVE dependencies[n] \cap W # {}
    BY <1>1, <1>2, <2>2 DEF Kahn, LayerTypeOK
  <2>3. \E V \in SUBSET Graph : V # {} /\ \A n \in V : dependencies[n] \cap V # {}
    BY <2>1, <2>2
  <2>4. VerdictRight'
    BY <1>1, <1>6, <2>3 DEF VerdictRight, Graph
  <2> QED BY <1>1, <1>4, <1>6, <2>4 DEF LayersInv
<1> QED BY <1>5, <1>6

LEMMA LayersInvNext == LayersInv /\ [LayersNext]_layerVars => LayersInv'
<1> SUFFICES ASSUME LayersInv, [LayersNext]_layerVars PROVE LayersInv'
  OBVIOUS
<1>1. CASE LayersNext
  BY <1>1, CallKeepsInv, ScanKeepsInv, CloseKeepsInv, EndKeepsInv DEF LayersNext, BuildLayers
<1>2. CASE UNCHANGED layerVars
  <2>1. Placed' = Placed /\ Graph' = Graph
    BY <1>2 DEF layerVars, Placed, Graph
  <2>2. LayerTypeOK' /\ LayersSound' /\ Apart'
    BY <1>2, <2>1 DEF layerVars, LayersInv, LayerTypeOK, LayersSound, Apart
  <2>3. (building # "idle" => Kahn)' /\ (building = "busy" => Summary /\ Compatible(layer))'
    BY <1>2, <2>1 DEF layerVars, LayersInv, Kahn, Summary, Compatible
  <2>4. VerdictRight'
    BY <1>2, <2>1 DEF layerVars, LayersInv, VerdictRight
  <2> QED BY <2>2, <2>3, <2>4 DEF LayersInv
<1> QED BY <1>1, <1>2

\* The layers of every graph: nodes of a layer may run at the same time and
\* come after everything they depend on (ExecutionGraph::layers).
THEOREM LayersTheorem == LayersSpec => []LayersSound
<1>1. LayersInv => LayersSound
  BY DEF LayersInv
<1> QED BY <1>1, LayersInvInit, LayersInvNext, PTL DEF LayersSpec

\* LayerState::admits decides as can_run_with would against every member, at
\* every point of every pass.
THEOREM AdmissionTheorem == LayersSpec => []AdmitsIsPairwise
<1>1. LayersInv => AdmitsIsPairwise
  <2> SUFFICES ASSUME LayersInv, building = "busy", NEW c \in DOMAIN effects
               PROVE  Admits(state, effects[c]) <=>
                        \A m \in layer : CanRunWith(effects[m], effects[c])
    BY DEF AdmitsIsPairwise
  <2>1. c \in Graph
    BY DEF LayersInv, LayerTypeOK
  <2> QED BY <2>1, SummaryDecides DEF LayersInv
<1> QED BY <1>1, LayersInvInit, LayersInvNext, PTL DEF LayersSpec

\* The verdict of safe_layers: accepted graphs are placed completely, refused
\* ones hold nodes that wait for one another.
THEOREM VerdictTheorem == LayersSpec => []VerdictRight
<1>1. LayersInv => VerdictRight
  BY DEF LayersInv
<1> QED BY <1>1, LayersInvInit, LayersInvNext, PTL DEF LayersSpec

----------------------------------------------------------------------------
(* Induction and recursion on the naturals, for sets and functions.        *)

LEMMA Least ==
  ASSUME NEW T, T \subseteq Nat, T # {}
  PROVE  \E x \in T : \A y \in T : x <= y
<1>1. PICK R : /\ IsWellFoundedOn(R, Nat)
               /\ \A x, y \in Nat : <<y, x>> \in R <=> y < x
  <2>1. IsWellFoundedOn(OpToRel(<, Nat), Nat)
    BY NatLessThanWellFounded
  <2>2. \A x, y \in Nat : <<y, x>> \in OpToRel(<, Nat) <=> y < x
    BY DEF OpToRel
  <2> QED
    BY <2>1, <2>2, Zenon
<1>2. PICK x \in T : \A y \in T : ~(<<y, x>> \in R)
  BY <1>1, WFMin
<1>3. \A y \in T : ~(y < x)
  <2> SUFFICES ASSUME NEW y \in T PROVE ~(y < x)
    OBVIOUS
  <2>1. x \in Nat /\ y \in Nat
    OBVIOUS
  <2>2. <<y, x>> \in R <=> y < x
    BY <1>1, <2>1, Zenon
  <2> QED
    BY <1>2, <2>2, Zenon
<1>4. \A y \in T : x \in Nat /\ y \in Nat
  OBVIOUS
<1> QED
  BY <1>3, <1>4

LEMMA Induction ==
  ASSUME NEW T, 0 \in T, \A n \in Nat : n \in T => n + 1 \in T
  PROVE  \A n \in Nat : n \in T
<1> DEFINE U == {n \in Nat : n \notin T}
<1>1. SUFFICES ASSUME U # {} PROVE FALSE
  OBVIOUS
<1>2. PICK x \in U : \A y \in U : x <= y
  <2>1. U \subseteq Nat
    OBVIOUS
  <2> HIDE DEF U
  <2> QED
    BY <1>1, <2>1, Least
<1>3. x \in Nat \ {0} /\ x \notin T
  BY <1>2
<1>4. x - 1 \in Nat /\ ~(x <= x - 1)
  BY <1>3
<1>5. x - 1 \in T
  BY <1>2, <1>4
<1> QED
  BY <1>3, <1>4, <1>5

\* A function on the first n numbers that follows the steps G.
Follows(g, n, S, a, G) ==
  /\ g \in [0..n -> S] /\ g[0] = a
  /\ \A k \in 1..n : g[k] = G[k][g[k - 1]]

StepsOn(G, S) == \A k \in Nat : G[k] \in [S -> S]

Defined(f, S, a, G) ==
  f \in [Nat -> S] /\ f[0] = a /\ \A k \in Nat \ {0} : f[k] = G[k][f[k - 1]]

\* What a recursive definition defines.
LEMMA Recursion ==
  ASSUME NEW S, NEW a, a \in S, NEW G, StepsOn(G, S)
  PROVE  \E f : Defined(f, S, a, G)
<1> DEFINE T == {n \in Nat : \E g : Follows(g, n, S, a, G)}
<1>1. \A n \in Nat : n \in T
  <2>1. 0 \in T
    <3>1. Follows([k \in 0..0 |-> a], 0, S, a, G)
      BY DEF Follows
    <3> QED
      BY <3>1
  <2>2. ASSUME NEW n \in Nat, n \in T PROVE n + 1 \in T
    <3>1. PICK g : Follows(g, n, S, a, G)
      BY <2>2
    <3>2. g \in [0..n -> S] /\ g[0] = a /\ \A k \in 1..n : g[k] = G[k][g[k - 1]]
      BY <3>1 DEF Follows
    <3> DEFINE x == G[n + 1][g[n]]
               h == [k \in 0..(n + 1) |-> IF k = n + 1 THEN x ELSE g[k]]
    <3>3. g[n] \in S /\ G[n + 1] \in [S -> S]
      BY <3>2 DEF StepsOn
    <3>4. x \in S
      BY <3>3
    <3> HIDE DEF x
    <3>5. h \in [0..(n + 1) -> S]
      BY <3>2, <3>4
    <3>6. h[0] = a
      BY <3>2
    <3>7. ASSUME NEW k \in 1..(n + 1) PROVE h[k] = G[k][h[k - 1]]
      <4>1. CASE k = n + 1
        BY <4>1 DEF x
      <4>2. CASE k # n + 1
        <5>1. k \in 1..n /\ k - 1 \in 0..n /\ k - 1 # n + 1 /\ k - 1 \in 0..(n + 1) /\ k \in 0..(n + 1)
          BY <4>2
        <5>2. h[k] = g[k] /\ h[k - 1] = g[k - 1]
          BY <4>2, <5>1
        <5> QED
          BY <3>2, <5>1, <5>2
      <4> QED
        BY <4>1, <4>2
    <3> HIDE DEF h
    <3>8. Follows(h, n + 1, S, a, G)
      BY <3>5, <3>6, <3>7 DEF Follows
    <3> QED
      BY <3>8
  <2> HIDE DEF T
  <2> QED
    BY <2>1, <2>2, Induction
<1>2. ASSUME NEW m \in Nat, NEW n \in Nat, NEW g, NEW h, m <= n,
             Follows(g, m, S, a, G), Follows(h, n, S, a, G)
      PROVE  \A k \in 0..m : g[k] = h[k]
  <2> DEFINE U == {k \in Nat : k <= m => g[k] = h[k]}
  <2>1. 0 \in U
    BY <1>2 DEF Follows
  <2>2. ASSUME NEW k \in Nat, k \in U PROVE k + 1 \in U
    <3>1. SUFFICES ASSUME k + 1 <= m PROVE g[k + 1] = h[k + 1]
      OBVIOUS
    <3>2. g[k] = h[k] /\ k + 1 \in 1..m /\ k + 1 \in 1..n /\ (k + 1) - 1 = k
      BY <1>2, <2>2, <3>1
    <3>3. g[k + 1] = G[k + 1][g[(k + 1) - 1]] /\ h[k + 1] = G[k + 1][h[(k + 1) - 1]]
      BY <1>2, <3>2 DEF Follows
    <3> QED
      BY <3>2, <3>3
  <2>3. \A k \in Nat : k \in U
    <3> HIDE DEF U
    <3> QED
      BY <2>1, <2>2, Induction
  <2> QED
    BY <2>3
<1> DEFINE part(n) == CHOOSE g : Follows(g, n, S, a, G)
           f == [n \in Nat |-> part(n)[n]]
<1>3. \A n \in Nat : Follows(part(n), n, S, a, G)
  BY <1>1
<1> HIDE DEF part
<1>4. f \in [Nat -> S]
  BY <1>3 DEF Follows
<1>5. f[0] = a
  BY <1>3 DEF Follows
<1>6. ASSUME NEW k \in Nat \ {0} PROVE f[k] = G[k][f[k - 1]]
  <2>1. k - 1 \in Nat /\ k - 1 <= k /\ k \in Nat /\ k \in 1..k /\ k - 1 \in 0..(k - 1)
    OBVIOUS
  <2>2. Follows(part(k), k, S, a, G) /\ Follows(part(k - 1), k - 1, S, a, G)
    BY <1>3, <2>1
  <2>3. part(k)[k] = G[k][part(k)[k - 1]]
    BY <2>1, <2>2 DEF Follows
  <2>4. part(k - 1)[k - 1] = part(k)[k - 1]
    BY <1>2, <2>1, <2>2
  <2> QED
    BY <2>1, <2>3, <2>4
<1> HIDE DEF f
<1> QED
  BY <1>4, <1>5, <1>6 DEF Defined

----------------------------------------------------------------------------
(* What the recursive operators of Compile compute.                        *)

\* Upstream is the least set that has S and what its members depend on.
LEMMA UpstreamFollows ==
  ASSUME NEW D, NEW deps \in [D -> SUBSET D], NEW S \in SUBSET D, IsFiniteSet(D)
  PROVE  \E r \in [Nat -> SUBSET D] :
           /\ r[0] = S /\ Upstream(deps, S) = r[Cardinality(D)]
           /\ \A k \in Nat \ {0} : r[k] = r[k - 1] \cup UNION {deps[n] : n \in r[k - 1]}
<1> DEFINE more == [X \in SUBSET D |-> X \cup UNION {deps[n] : n \in X}]
           G == [k \in Nat |-> more]
           P(r) == r = [k \in Nat |-> IF k = 0 THEN S ELSE r[k - 1] \cup UNION {deps[n] : n \in r[k - 1]}]
<1>1. more \in [SUBSET D -> SUBSET D]
  <2>1. ASSUME NEW X \in SUBSET D PROVE X \cup UNION {deps[n] : n \in X} \in SUBSET D
    <3>1. \A x \in UNION {deps[n] : n \in X} : x \in D
      OBVIOUS
    <3> QED
      BY <3>1
  <2> QED
    BY <2>1
<1>2. PICK f \in [Nat -> SUBSET D] : f[0] = S /\ \A k \in Nat \ {0} : f[k] = G[k][f[k - 1]]
  <2>1. StepsOn(G, SUBSET D) /\ S \in SUBSET D
    BY <1>1 DEF StepsOn
  <2> HIDE DEF G
  <2>2. PICK f : Defined(f, SUBSET D, S, G)
    BY <2>1, Recursion, Zenon
  <2> QED
    BY <2>2 DEF Defined
<1>3. \A k \in Nat \ {0} : f[k] = f[k - 1] \cup UNION {deps[n] : n \in f[k - 1]}
  <2> SUFFICES ASSUME NEW k \in Nat \ {0} PROVE f[k] = f[k - 1] \cup UNION {deps[n] : n \in f[k - 1]}
    OBVIOUS
  <2>1. k \in Nat /\ k - 1 \in Nat /\ f[k - 1] \in SUBSET D
    OBVIOUS
  <2>2. f[k] = more[f[k - 1]]
    BY <1>2, <2>1
  <2> QED
    BY <2>1, <2>2
<1>4. P(f)
  <2>1. f = [k \in Nat |-> f[k]]
    OBVIOUS
  <2> QED
    BY <1>2, <1>3, <2>1
<1> DEFINE r == CHOOSE q : P(q)
<1>5. Upstream(deps, S) = r[Cardinality(DOMAIN deps)]
  BY DEF Upstream
<1>6. P(r)
  <2> HIDE DEF P
  <2> QED
    BY <1>4, Zenon
<1> HIDE DEF r
<1>7. r[0] = S /\ \A k \in Nat \ {0} : r[k] = r[k - 1] \cup UNION {deps[n] : n \in r[k - 1]}
  BY <1>6
<1>8. \A k \in Nat : r[k] \in SUBSET D
  <2> DEFINE T == {k \in Nat : r[k] \in SUBSET D}
  <2>1. 0 \in T
    BY <1>7
  <2>2. ASSUME NEW k \in Nat, k \in T PROVE k + 1 \in T
    <3>1. r[k] \in SUBSET D /\ k + 1 \in Nat \ {0} /\ (k + 1) - 1 = k
      BY <2>2
    <3>2. r[k + 1] = r[k] \cup UNION {deps[n] : n \in r[k]}
      BY <1>7, <3>1
    <3> QED
      BY <3>1, <3>2
  <2> HIDE DEF T
  <2>3. \A k \in Nat : k \in T
    BY <2>1, <2>2, Induction
  <2> QED
    BY <2>3 DEF T
<1>9. r \in [Nat -> SUBSET D]
  BY <1>6, <1>8
<1> QED
  BY <1>5, <1>7, <1>9

LEMMA UpstreamClosed ==
  ASSUME NEW D, NEW deps \in [D -> SUBSET D], NEW S \in SUBSET D, IsFiniteSet(D)
  PROVE  /\ S \subseteq Upstream(deps, S) /\ Upstream(deps, S) \subseteq D
         /\ \A n \in Upstream(deps, S) : deps[n] \subseteq Upstream(deps, S)
<1>1. PICK r \in [Nat -> SUBSET D] :
        /\ r[0] = S /\ Upstream(deps, S) = r[Cardinality(D)]
        /\ \A k \in Nat \ {0} : r[k] = r[k - 1] \cup UNION {deps[n] : n \in r[k - 1]}
  BY UpstreamFollows
<1>2. \A k \in Nat : /\ k + 1 \in Nat \ {0} /\ r[k] \in SUBSET D
                     /\ r[k + 1] = r[k] \cup UNION {deps[n] : n \in r[k]}
  <2> SUFFICES ASSUME NEW k \in Nat
               PROVE  /\ k + 1 \in Nat \ {0} /\ r[k] \in SUBSET D
                      /\ r[k + 1] = r[k] \cup UNION {deps[n] : n \in r[k]}
    OBVIOUS
  <2>1. k + 1 \in Nat \ {0} /\ (k + 1) - 1 = k
    OBVIOUS
  <2> QED
    BY <1>1, <2>1
<1>3. \A k \in Nat : IsFiniteSet(r[k]) /\ Cardinality(r[k]) \in Nat /\ Cardinality(r[k]) <= Cardinality(D)
  BY <1>2, FS_Subset, FS_CardinalityType
<1>4. Cardinality(D) \in Nat
  BY FS_CardinalityType
<1> DEFINE Closed(k) == \A n \in r[k] : deps[n] \subseteq r[k]
           T == {k \in Nat : S \subseteq r[k] /\ (Closed(k) \/ k <= Cardinality(r[k]))}
<1>5. 0 \in T
  BY <1>1, <1>3
<1>6. ASSUME NEW k \in Nat, k \in T PROVE k + 1 \in T
  <2>1. /\ S \subseteq r[k] /\ r[k + 1] = r[k] \cup UNION {deps[n] : n \in r[k]} /\ k + 1 \in Nat
        /\ Closed(k) \/ k <= Cardinality(r[k])
    BY <1>2, <1>6
  <2>2. r[k] \subseteq r[k + 1] /\ S \subseteq r[k + 1]
    BY <2>1
  <2>3. CASE Closed(k)
    <3>1. r[k + 1] = r[k]
      BY <2>1, <2>3
    <3>2. Closed(k + 1)
      BY <2>3, <3>1
    <3> QED
      BY <2>1, <2>2, <3>2
  <2>4. CASE ~Closed(k)
    <3>1. r[k + 1] # r[k]
      BY <2>1, <2>4
    <3>2. Cardinality(r[k]) <= Cardinality(r[k + 1]) /\ Cardinality(r[k]) # Cardinality(r[k + 1])
      <4>1. \A A, B : IsFiniteSet(B) /\ A \subseteq B =>
                      Cardinality(A) <= Cardinality(B) /\ (Cardinality(B) = Cardinality(A) => B = A)
        BY FS_Subset
      <4> QED
        BY <1>3, <2>1, <2>2, <3>1, <4>1
    <3>3. k + 1 <= Cardinality(r[k + 1])
      <4>1. k <= Cardinality(r[k])
        BY <2>1, <2>4
      <4>2. Cardinality(r[k]) \in Nat /\ Cardinality(r[k + 1]) \in Nat
        BY <1>3, <2>1
      <4> QED
        BY <3>2, <4>1, <4>2
    <3> QED
      BY <2>1, <2>2, <3>3
  <2> QED
    BY <2>3, <2>4
<1>7. Cardinality(D) \in T
  <2> HIDE DEF T
  <2> QED
    BY <1>4, <1>5, <1>6, Induction
<1> DEFINE U == r[Cardinality(D)]
<1>8. S \subseteq U /\ U \subseteq D
  BY <1>2, <1>4, <1>7
<1>9. \A n \in U : deps[n] \subseteq U
  <2>1. CASE Closed(Cardinality(D))
    BY <2>1
  <2>2. CASE Cardinality(D) <= Cardinality(U)
    <3>1. Cardinality(D) = Cardinality(U)
      BY <1>3, <1>4, <2>2
    <3>2. U = D
      BY <1>8, <3>1, FS_Subset
    <3> QED
      BY <3>2
  <2> QED
    BY <1>7, <2>1, <2>2
<1> QED
  BY <1>1, <1>8, <1>9

\* The members of a sequence that has grown by one.
LEMMA ToSetOfAppend ==
  ASSUME NEW N, NEW q \in Seq(N), NEW x \in N
  PROVE  Append(q, x) \in Seq(N) /\ ToSet(Append(q, x)) = ToSet(q) \cup {x}
<1>1. /\ Append(q, x) \in Seq(N) /\ DOMAIN Append(q, x) = 1..(Len(q) + 1) /\ Len(q) \in Nat
      /\ DOMAIN q = 1..Len(q)
  OBVIOUS
<1>2. \A i \in 1..(Len(q) + 1) : Append(q, x)[i] = IF i = Len(q) + 1 THEN x ELSE q[i]
  OBVIOUS
<1> DEFINE s == Append(q, x)
<1> HIDE DEF s
<1>3. ASSUME NEW y PROVE y \in ToSet(s) <=> y \in ToSet(q) \cup {x}
  <2>1. ASSUME y \in ToSet(s) PROVE y \in ToSet(q) \cup {x}
    <3>1. PICK i \in 1..(Len(q) + 1) : y = s[i]
      BY <1>1, <2>1 DEF ToSet, s
    <3>2. CASE i = Len(q) + 1
      BY <1>2, <3>1, <3>2 DEF s
    <3>3. CASE i # Len(q) + 1
      <4>1. i \in 1..Len(q) /\ y = q[i]
        BY <1>1, <1>2, <3>1, <3>3 DEF s
      <4> QED
        BY <1>1, <4>1 DEF ToSet
    <3> QED
      BY <3>2, <3>3
  <2>2. ASSUME y \in ToSet(q) PROVE y \in ToSet(s)
    <3>1. PICK i \in 1..Len(q) : y = q[i]
      BY <1>1, <2>2 DEF ToSet
    <3>2. i \in 1..(Len(q) + 1) /\ i # Len(q) + 1
      BY <1>1, <3>1
    <3>3. y = s[i]
      BY <1>2, <3>1, <3>2 DEF s
    <3> QED
      BY <1>1, <3>2, <3>3 DEF ToSet, s
  <2>3. x \in ToSet(s)
    <3>1. Len(q) + 1 \in 1..(Len(q) + 1)
      BY <1>1
    <3>2. x = s[Len(q) + 1]
      BY <1>2, <3>1 DEF s
    <3> QED
      BY <1>1, <3>1, <3>2 DEF ToSet, s
  <2> QED
    BY <2>1, <2>2, <2>3
<1> QED
  BY <1>1, <1>3 DEF s

\* Retain keeps the nodes that are live, and no other.
LEMMA RetainIs ==
  ASSUME NEW N, NEW nodes \in Seq(N), NEW live
  PROVE  /\ Retain(nodes, live) \in Seq(N)
         /\ \A n : n \in ToSet(Retain(nodes, live)) <=> n \in ToSet(nodes) /\ n.id \in live
         /\ Len(Retain(nodes, live)) = Cardinality({j \in DOMAIN nodes : nodes[j].id \in live})
<1> DEFINE len == Len(nodes)
           keep(k, q) == IF k \in 1..len /\ nodes[k].id \in live THEN Append(q, nodes[k]) ELSE q
           G == [k \in Nat |-> [q \in Seq(N) |-> keep(k, q)]]
           P(r) == r = [k \in 0..len |-> IF k = 0 THEN <<>>
                                         ELSE IF nodes[k].id \in live THEN Append(r[k - 1], nodes[k])
                                              ELSE r[k - 1]]
<1>0. len \in Nat /\ DOMAIN nodes = 1..len /\ \A k \in 1..len : nodes[k] \in N
  OBVIOUS
<1>1. \A k \in Nat : \A q \in Seq(N) : keep(k, q) \in Seq(N)
  BY <1>0
<1>2. PICK f : Defined(f, Seq(N), <<>>, G)
  <2>1. StepsOn(G, Seq(N))
    <3> HIDE DEF keep
    <3> QED
      BY <1>1 DEF StepsOn
  <2>2. <<>> \in Seq(N)
    OBVIOUS
  <2> HIDE DEF G
  <2> QED
    BY <2>1, <2>2, Recursion, Zenon
<1>3. f \in [Nat -> Seq(N)] /\ f[0] = <<>> /\ \A k \in Nat \ {0} : f[k] = keep(k, f[k - 1])
  <2>1. f \in [Nat -> Seq(N)] /\ f[0] = <<>> /\ \A k \in Nat \ {0} : f[k] = G[k][f[k - 1]]
    BY <1>2 DEF Defined
  <2>2. \A k \in Nat \ {0} : k - 1 \in Nat /\ f[k - 1] \in Seq(N)
    BY <2>1
  <2> HIDE DEF keep
  <2> QED
    BY <2>1, <2>2
<1> DEFINE g == [k \in 0..len |-> f[k]]
<1>4. P(g)
  <2>1. ASSUME NEW k \in 0..len, k # 0
        PROVE  g[k] = IF nodes[k].id \in live THEN Append(g[k - 1], nodes[k]) ELSE g[k - 1]
    <3>1. k \in 1..len /\ k \in Nat \ {0} /\ k - 1 \in 0..len
      BY <1>0, <2>1
    <3>2. g[k] = keep(k, g[k - 1])
      <4> HIDE DEF keep
      <4> QED
        BY <1>3, <3>1
    <3> HIDE DEF g
    <3> QED
      BY <3>1, <3>2
  <2>2. g[0] = <<>>
    BY <1>0, <1>3
  <2>3. g = [k \in 0..len |-> g[k]]
    OBVIOUS
  <2> HIDE DEF g
  <2> QED
    BY <2>1, <2>2, <2>3
<1> DEFINE r == CHOOSE q : P(q)
<1>5. Retain(nodes, live) = r[len]
  BY DEF Retain
<1>6. P(r)
  <2> HIDE DEF P, g
  <2> QED
    BY <1>4, Zenon
<1> HIDE DEF r, len
<1>7. r[0] = <<>>
  BY <1>0, <1>6
<1>8. ASSUME NEW k \in 1..len
      PROVE  r[k] = IF nodes[k].id \in live THEN Append(r[k - 1], nodes[k]) ELSE r[k - 1]
  <2>1. k \in 0..len /\ k # 0
    BY <1>0
  <2> QED
    BY <1>6, <2>1
<1> HIDE DEF P
<1> DEFINE Chosen(k) == {j \in 1..k : nodes[j].id \in live}
           Picked(k) == {nodes[i] : i \in Chosen(k)}
           T == {k \in Nat : k <= len => /\ r[k] \in Seq(N) /\ ToSet(r[k]) = Picked(k)
                                         /\ Len(r[k]) = Cardinality(Chosen(k))}
<1>9. 0 \in T
  <2>1. ToSet(<<>>) = {} /\ <<>> \in Seq(N)
    BY DEF ToSet
  <2>2. Picked(0) = {} /\ Chosen(0) = {} /\ Len(<<>>) = 0
    OBVIOUS
  <2> HIDE DEF Picked, Chosen
  <2> QED
    BY <1>7, <2>1, <2>2, FS_EmptySet
<1>10. ASSUME NEW k \in Nat, k \in T PROVE k + 1 \in T
  <2>1. SUFFICES ASSUME k + 1 <= len
                 PROVE  /\ r[k + 1] \in Seq(N) /\ ToSet(r[k + 1]) = Picked(k + 1)
                        /\ Len(r[k + 1]) = Cardinality(Chosen(k + 1))
    OBVIOUS
  <2>2. k + 1 \in 1..len /\ (k + 1) - 1 = k /\ k <= len
    BY <1>0, <2>1
  <2>3. /\ r[k] \in Seq(N) /\ ToSet(r[k]) = Picked(k) /\ nodes[k + 1] \in N
        /\ Len(r[k]) = Cardinality(Chosen(k))
    BY <1>0, <1>10, <2>2
  <2>4. r[k + 1] = IF nodes[k + 1].id \in live THEN Append(r[k], nodes[k + 1]) ELSE r[k]
    BY <1>8, <2>2
  <2>5. CASE nodes[k + 1].id \in live
    <3>0. Chosen(k + 1) = Chosen(k) \cup {k + 1} /\ k + 1 \notin Chosen(k) /\ Chosen(k) \subseteq 1..k
      BY <2>5
    <3>1. Picked(k + 1) = Picked(k) \cup {nodes[k + 1]}
      <4> HIDE DEF Chosen
      <4> QED
        BY <3>0
    <3> HIDE DEF Picked, Chosen
    <3>5. Cardinality(Chosen(k + 1)) = Cardinality(Chosen(k)) + 1
      <4>1. IsFiniteSet(Chosen(k))
        <5>1. IsFiniteSet(1..k)
          BY FS_Interval
        <5> QED
          BY <3>0, <5>1, FS_Subset
      <4> QED
        BY <3>0, <4>1, FS_AddElement
    <3>2. r[k + 1] = Append(r[k], nodes[k + 1])
      BY <2>4, <2>5
    <3>3. \A q \in Seq(N) : \A x \in N : Append(q, x) \in Seq(N) /\ ToSet(Append(q, x)) = ToSet(q) \cup {x}
      BY ToSetOfAppend
    <3>4. r[k + 1] \in Seq(N) /\ ToSet(r[k + 1]) = ToSet(r[k]) \cup {nodes[k + 1]}
      BY <2>3, <3>2, <3>3, Zenon
    <3>6. Len(r[k + 1]) = Len(r[k]) + 1
      BY <2>3, <3>2
    <3> QED
      BY <2>3, <3>1, <3>4, <3>5, <3>6
  <2>6. CASE nodes[k + 1].id \notin live
    <3>1. Chosen(k + 1) = Chosen(k)
      BY <2>6
    <3>2. Picked(k + 1) = Picked(k)
      BY <3>1
    <3> HIDE DEF Picked, Chosen
    <3> QED
      BY <2>3, <2>4, <2>6, <3>1, <3>2
  <2> QED
    BY <2>5, <2>6
<1>11. len \in T
  <2> HIDE DEF T
  <2> QED
    BY <1>0, <1>9, <1>10, Induction
<1>12. r[len] \in Seq(N) /\ ToSet(r[len]) = Picked(len) /\ Len(r[len]) = Cardinality(Chosen(len))
  BY <1>0, <1>11
<1>13. \A n : n \in Picked(len) <=> n \in ToSet(nodes) /\ n.id \in live
  BY <1>0 DEF ToSet
<1>14. Chosen(len) = {j \in DOMAIN nodes : nodes[j].id \in live}
  BY <1>0
<1> HIDE DEF Picked, Chosen
<1> QED
  BY <1>5, <1>12, <1>13, <1>14

\* canonical_node, when no node stands for a node that is itself an alias.
LEMMA CanonicalIs ==
  ASSUME IsFiniteSet(DOMAIN aliases), \A x \in DOMAIN aliases : aliases[x] \notin DOMAIN aliases, NEW id
  PROVE  CanonicalNode(id) = Survivor(id)
<1> DEFINE S == {id} \cup DOMAIN aliases \cup {aliases[x] : x \in DOMAIN aliases}
           step(x) == IF x \in DOMAIN aliases THEN aliases[x] ELSE x
           G == [k \in Nat |-> [x \in S |-> step(x)]]
           P(w) == w = [k \in Nat |-> IF k = 0 THEN id
                                      ELSE IF w[k - 1] \in DOMAIN aliases THEN aliases[w[k - 1]] ELSE w[k - 1]]
<1>1. \A x \in S : step(x) \in S
  OBVIOUS
<1>2. PICK f : Defined(f, S, id, G)
  <2>1. StepsOn(G, S)
    <3> HIDE DEF step, S
    <3> QED
      BY <1>1 DEF StepsOn
  <2>2. id \in S
    OBVIOUS
  <2> HIDE DEF G, S
  <2> QED
    BY <2>1, <2>2, Recursion, Zenon
<1>3. f \in [Nat -> S] /\ f[0] = id /\ \A k \in Nat \ {0} : f[k] = step(f[k - 1])
  <2> HIDE DEF step, S
  <2>1. f \in [Nat -> S] /\ f[0] = id /\ \A k \in Nat \ {0} : f[k] = G[k][f[k - 1]]
    BY <1>2 DEF Defined
  <2>2. \A k \in Nat \ {0} : k - 1 \in Nat /\ f[k - 1] \in S
    BY <2>1
  <2> QED
    BY <2>1, <2>2
<1>4. P(f)
  <2>1. f = [k \in Nat |-> f[k]]
    <3> HIDE DEF S
    <3> QED
      BY <1>3
  <2> HIDE DEF S
  <2> QED
    BY <1>3, <2>1
<1> DEFINE w == CHOOSE q : P(q)
<1>5. CanonicalNode(id) = w[Cardinality(DOMAIN aliases) + 1]
  BY DEF CanonicalNode
<1>6. P(w)
  <2> HIDE DEF P
  <2> QED
    BY <1>4, Zenon
<1> HIDE DEF w
<1>7. w[0] = id /\ \A k \in Nat \ {0} : w[k] = step(w[k - 1])
  BY <1>6
<1> HIDE DEF P
<1> DEFINE T == {k \in Nat : w[k + 1] = Survivor(id)}
<1>8. 0 \in T
  <2>1. w[1] = step(w[0])
    BY <1>7
  <2> QED
    BY <1>7, <2>1 DEF Survivor
<1>9. ASSUME NEW k \in Nat, k \in T PROVE k + 1 \in T
  <2>1. w[k + 1] = Survivor(id) /\ (k + 1) + 1 \in Nat \ {0} /\ ((k + 1) + 1) - 1 = k + 1
    BY <1>9
  <2>2. w[(k + 1) + 1] = step(w[k + 1])
    BY <1>7, <2>1
  <2>3. Survivor(id) \notin DOMAIN aliases
    BY DEF Survivor
  <2> QED
    BY <2>1, <2>2, <2>3
<1>10. Cardinality(DOMAIN aliases) \in T
  <2> HIDE DEF T
  <2>1. Cardinality(DOMAIN aliases) \in Nat
    BY FS_CardinalityType
  <2> QED
    BY <1>8, <1>9, <2>1, Induction
<1> QED
  BY <1>5, <1>10

\* A sorted list holds every name of the set once.
LEMMA SortedIs ==
  ASSUME NEW S \in SUBSET Nat, IsFiniteSet(S)
  PROVE  /\ Cardinality(S) \in Nat
         /\ Sorted(S) \in [1..Cardinality(S) -> S]
         /\ \A i, j \in 1..Cardinality(S) : Sorted(S)[i] = Sorted(S)[j] => i = j
         /\ Sorted(S) \in Seq(S) /\ Len(Sorted(S)) = Cardinality(S)
         /\ ToSet(Sorted(S)) = S
<1> DEFINE n == Cardinality(S)
           Below(x) == {y \in S : y < x}
           rank == [x \in S |-> Cardinality(Below(x))]
<1>1. n \in Nat
  BY FS_CardinalityType
<1>2. ASSUME NEW x \in S
      PROVE  /\ IsFiniteSet(Below(x)) /\ rank[x] \in Nat /\ rank[x] < n
  <2>1. Below(x) \in SUBSET S /\ x \notin Below(x)
    OBVIOUS
  <2>2. IsFiniteSet(Below(x)) /\ Cardinality(Below(x)) <= n /\ (n = Cardinality(Below(x)) => S = Below(x))
    BY <2>1, FS_Subset
  <2>3. Cardinality(Below(x)) \in Nat /\ Cardinality(Below(x)) # n
    BY <2>1, <2>2, FS_CardinalityType
  <2> QED
    BY <1>1, <2>2, <2>3
<1>3. ASSUME NEW x \in S, NEW y \in S, x < y PROVE rank[x] # rank[y]
  <2>1. x \in Nat /\ y \in Nat
    OBVIOUS
  <2>2. \A z \in S : z \in Nat /\ (z < x => z < y)
    BY <1>3, <2>1
  <2>3. Below(x) \in SUBSET Below(y)
    BY <2>2
  <2>4. x \in Below(y) /\ x \notin Below(x)
    BY <1>3, <2>1
  <2>5. Cardinality(Below(y)) = Cardinality(Below(x)) => Below(y) = Below(x)
    BY <1>2, <2>3, FS_Subset
  <2> QED
    BY <2>5, <2>4
<1>4. \A x, y \in S : rank[x] = rank[y] => x = y
  <2> SUFFICES ASSUME NEW x \in S, NEW y \in S, x # y PROVE rank[x] # rank[y]
    OBVIOUS
  <2>1. x < y \/ y < x
    OBVIOUS
  <2> QED
    BY <1>3, <2>1
<1>5. rank \in [S -> 0..(n - 1)]
  <2>1. \A x \in S : rank[x] \in 0..(n - 1)
    BY <1>1, <1>2
  <2>2. rank = [x \in S |-> rank[x]]
    OBVIOUS
  <2> HIDE DEF rank
  <2> QED
    BY <2>1, <2>2
<1>6. \A k \in 1..n : \E x \in S : rank[x] = k - 1
  <2> HIDE DEF rank
  <2>1. rank \in Injection(S, 0..(n - 1))
    BY <1>4, <1>5 DEF Injection, IsInjective
  <2>2. IsFiniteSet(0..(n - 1)) /\ Cardinality(0..(n - 1)) = n
    <3>1. 0 \in Int /\ n - 1 \in Int
      BY <1>1
    <3>2. /\ IsFiniteSet(0..(n - 1))
          /\ Cardinality(0..(n - 1)) = IF 0 > n - 1 THEN 0 ELSE (n - 1) - 0 + 1
      BY <3>1, FS_Interval
    <3> QED
      BY <1>1, <3>2
  <2>3. rank \in Surjection(S, 0..(n - 1))
    BY <2>1, <2>2, FS_Injection
  <2>4. \A r \in 0..(n - 1) : \E x \in S : rank[x] = r
    BY <2>3 DEF Surjection
  <2>5. \A k \in 1..n : k - 1 \in 0..(n - 1)
    BY <1>1
  <2> QED
    BY <2>4, <2>5
<1>7. \A x \in S : rank[x] = Cardinality({y \in S : y < x})
  OBVIOUS
<1> HIDE DEF rank
<1>8. ASSUME NEW k \in 1..n PROVE Sorted(S)[k] \in S /\ rank[Sorted(S)[k]] = k - 1
  <2>1. Sorted(S)[k] = CHOOSE x \in S : Cardinality({y \in S : y < x}) = k - 1
    BY DEF Sorted
  <2>2. \E x \in S : Cardinality({y \in S : y < x}) = k - 1
    BY <1>6, <1>7
  <2>3. Sorted(S)[k] \in S /\ Cardinality({y \in S : y < Sorted(S)[k]}) = k - 1
    BY <2>1, <2>2
  <2> QED
    BY <1>7, <2>3
<1>9. DOMAIN Sorted(S) = 1..n /\ Sorted(S) = [k \in 1..n |-> Sorted(S)[k]]
  <2> DEFINE nth(k) == CHOOSE x \in S : Cardinality({y \in S : y < x}) = k - 1
  <2>1. Sorted(S) = [k \in 1..n |-> nth(k)]
    BY Zenon DEF Sorted
  <2> HIDE DEF nth
  <2> QED
    BY <2>1
<1>10. Sorted(S) \in [1..n -> S]
  BY <1>8, <1>9
<1>11. \A i, j \in 1..n : Sorted(S)[i] = Sorted(S)[j] => i = j
  BY <1>1, <1>8
<1>12. Sorted(S) \in Seq(S) /\ Len(Sorted(S)) = n
  BY <1>1, <1>10
<1>13. ToSet(Sorted(S)) = S
  <2>1. ASSUME NEW x \in S PROVE \E k \in 1..n : Sorted(S)[k] = x
    <3>1. rank[x] + 1 \in 1..n
      BY <1>1, <1>5
    <3>2. rank[Sorted(S)[rank[x] + 1]] = rank[x]
      BY <1>8, <3>1, <1>5
    <3> QED
      BY <1>4, <1>8, <3>1, <3>2
  <2>2. ToSet(Sorted(S)) = {Sorted(S)[i] : i \in 1..n}
    BY <1>9 DEF ToSet
  <2> QED
    BY <1>8, <2>1, <2>2
<1> QED
  BY <1>1, <1>10, <1>11, <1>12, <1>13

\* The chunks of a list: parts of it that share nothing, and none is longer
\* than the batch size.
LEMMA ChunksAre ==
  ASSUME NEW p, NEW t, p.tools[t].batch_size \in Nat \cup {None},
         NEW S \in SUBSET Nat, IsFiniteSet(S)
  PROVE  /\ \A C \in Chunks(p, t, S) :
              /\ C \subseteq S /\ C # {} /\ IsFiniteSet(C)
              /\ p.tools[t].batch_size # None => Cardinality(C) <= p.tools[t].batch_size
         /\ \A C, D \in Chunks(p, t, S) : C # D => Disjoint(C, D)
<1> DEFINE s == Sorted(S)
           n == Cardinality(S)
           asked == p.tools[t].batch_size
           size == IF asked = None THEN n ELSE IF asked = 0 THEN 1 ELSE asked
           places(k) == {j \in 1..n : k * size < j /\ j <= k * size + size}
           chunk(k) == {s[i] : i \in places(k)}
<1>1. /\ n \in Nat /\ s \in [1..n -> S] /\ DOMAIN s = 1..n /\ Len(s) = n
      /\ \A i, j \in 1..n : s[i] = s[j] => i = j
  BY SortedIs
<1>2. Chunks(p, t, S) = {C \in {chunk(k) : k \in 0..n} : Cardinality(C) > 1}
  BY <1>1 DEF Chunks
<1>3. size \in Nat
  BY <1>1
<1> HIDE DEF s, n, size
<1>4. ASSUME NEW k \in 0..n, Cardinality(chunk(k)) > 1
      PROVE  /\ chunk(k) \subseteq S /\ chunk(k) # {} /\ IsFiniteSet(chunk(k))
             /\ Cardinality(chunk(k)) <= size
  <2>1. chunk(k) \subseteq S
    BY <1>1
  <2>2. chunk(k) # {}
    <3>1. Cardinality({}) = 0
      BY FS_EmptySet
    <3>2. PICK C : C = chunk(k)
      OBVIOUS
    <3>3. Cardinality(C) > 1
      BY <1>4, <3>2
    <3>4. C # {}
      BY <3>1, <3>3
    <3> QED
      BY <3>2, <3>4
  <2>3. PICK a : a = k * size
    OBVIOUS
  <2>4. a \in Nat
    BY <1>1, <1>3, <2>3
  <2>5. places(k) \in SUBSET ((a + 1)..(a + size))
    BY <1>1, <1>3, <2>3, <2>4
  <2>6. IsFiniteSet((a + 1)..(a + size)) /\ Cardinality((a + 1)..(a + size)) = size
    <3>1. a + 1 \in Int /\ a + size \in Int
      BY <1>3, <2>4
    <3>2. /\ IsFiniteSet((a + 1)..(a + size))
          /\ Cardinality((a + 1)..(a + size)) = IF a + 1 > a + size THEN 0 ELSE (a + size) - (a + 1) + 1
      BY <3>1, FS_Interval
    <3> QED
      BY <1>3, <2>4, <3>2
  <2>7. IsFiniteSet(places(k)) /\ Cardinality(places(k)) <= size
    BY <2>5, <2>6, FS_Subset
  <2>8. /\ IsFiniteSet(chunk(k)) /\ Cardinality(chunk(k)) <= Cardinality(places(k))
    <3> DEFINE f == [i \in places(k) |-> s[i]]
    <3>1. f \in Surjection(places(k), chunk(k))
      BY DEF Surjection
    <3> QED
      BY <2>7, <3>1, FS_Surjection
  <2>9. Cardinality(places(k)) \in Nat /\ Cardinality(chunk(k)) \in Nat
    BY <2>7, <2>8, FS_CardinalityType
  <2>10. Cardinality(chunk(k)) <= size
    BY <1>3, <2>7, <2>8, <2>9
  <2> QED
    BY <2>1, <2>2, <2>8, <2>10
<1>5. ASSUME NEW k \in 0..n, NEW l \in 0..n, k < l PROVE Disjoint(chunk(k), chunk(l))
  <2>1. k * size + size <= l * size /\ k * size \in Nat /\ l * size \in Nat
    <3>1. PICK d \in Nat : l = k + 1 + d
      <4>1. l - k - 1 \in Nat /\ l = k + 1 + (l - k - 1)
        BY <1>1, <1>5
      <4> QED
        BY <4>1
    <3>2. d * size \in Nat /\ k * size \in Nat /\ l * size \in Nat
      BY <1>1, <1>3
    <3>3. l * size = k * size + size + d * size
      BY <1>1, <1>3, <3>1
    <3> QED
      BY <1>3, <3>2, <3>3
  <2>2. ASSUME NEW i \in places(k), NEW j \in places(l) PROVE s[i] # s[j]
    <3>1. i \in 1..n /\ j \in 1..n /\ i <= k * size + size /\ l * size < j
      OBVIOUS
    <3>2. i \in Nat /\ j \in Nat
      BY <1>1, <3>1
    <3>3. i # j
      BY <1>3, <2>1, <3>1, <3>2
    <3> QED
      BY <1>1, <3>1, <3>3
  <2> QED
    BY <2>2 DEF Disjoint
<1>6. ASSUME NEW C \in Chunks(p, t, S)
      PROVE  /\ C \subseteq S /\ C # {} /\ IsFiniteSet(C)
             /\ asked # None => Cardinality(C) <= asked
  <2>1. PICK k \in 0..n : C = chunk(k) /\ Cardinality(chunk(k)) > 1
    BY <1>2
  <2>2. /\ C \subseteq S /\ C # {} /\ IsFiniteSet(C) /\ Cardinality(C) <= size /\ Cardinality(C) > 1
    BY <1>4, <2>1
  <2>3. Cardinality(C) \in Nat
    BY <2>2, FS_CardinalityType
  <2>4. ASSUME asked # None PROVE Cardinality(C) <= asked
    <3>1. asked \in Nat /\ size = IF asked = 0 THEN 1 ELSE asked
      BY <2>4 DEF size
    <3> QED
      BY <2>2, <2>3, <3>1
  <2> QED
    BY <2>2, <2>4
<1>7. ASSUME NEW C \in Chunks(p, t, S), NEW D \in Chunks(p, t, S), C # D
      PROVE  Disjoint(C, D)
  <2>1. PICK k \in 0..n, l \in 0..n : C = chunk(k) /\ D = chunk(l)
    BY <1>2
  <2>2. k # l
    BY <1>7, <2>1
  <2>3. k < l \/ l < k
    BY <1>1, <2>2
  <2>4. Disjoint(chunk(k), chunk(l)) \/ Disjoint(chunk(l), chunk(k))
    BY <1>5, <2>3
  <2> QED
    BY <2>1, <2>4 DEF Disjoint
<1> QED
  BY <1>6, <1>7

----------------------------------------------------------------------------
(* The plan and its graph, at every step of a compilation.                 *)

NodeShape(n) ==
  /\ n = [id |-> n.id, tool |-> n.tool, input |-> n.input, depends_on |-> n.depends_on,
          for_each |-> n.for_each, when |-> n.when]
  /\ n.input = [path |-> n.input.path, refs |-> n.input.refs]
  /\ n.id \in Nat \ {0}

\* A node no pass has touched.
SourceNode(n) == NodeShape(n) /\ n.depends_on \in Seq(Nat)

PlanShape(p) ==
  /\ p = [version |-> p.version, tools |-> p.tools, nodes |-> p.nodes, outputs |-> p.outputs]
  /\ p.nodes \in Seq(Nodes(p))
  /\ \A n \in Nodes(p) : NodeShape(n)
  /\ \A t \in DOMAIN p.tools : p.tools[t] \in ToolSpecs

\* The passes have not begun.
Waiting ==
  phase \in {"source", "submitted"} =>
    /\ cursor = 1 /\ seen = <<>> /\ aliases = <<>> /\ kept = <<>>
    /\ phase = "source" => source \in Sources
    /\ phase = "submitted" => \A n \in Nodes(plan) : SourceNode(n)

\* A tool that is declared pure.
IsPure(p, t) == t \in DOMAIN p.tools /\ EffectsOf(p, t) # None /\ EffectsOf(p, t).pure

\* The calls two equal nodes make; those with effects wait for the same nodes.
SameCall(p, m, n) ==
  /\ m.tool = n.tool /\ m.input = n.input /\ m.for_each = n.for_each /\ m.when = n.when
  /\ ~IsPure(p, n.tool) => m.depends_on = n.depends_on

\* The nodes the dedup pass has looked at.
Met == {plan.nodes[i] : i \in 1..(cursor - 1)}

\* A node met is kept or is an alias; where names are distinct, an alias
\* stands for a kept node that makes the same call.
Dedup ==
  /\ plan = submitted /\ \A n \in Nodes(plan) : SourceNode(n)
  /\ cursor \in 1..(Len(plan.nodes) + 1)
  /\ kept \in Seq(Nodes(plan)) /\ ToSet(kept) \subseteq Met
  /\ DOMAIN aliases \subseteq {n.id : n \in Met}
  /\ \A n \in Met : n \in ToSet(kept) \/ n.id \in DOMAIN aliases
  /\ DistinctIds =>
       /\ \A k \in ToSet(kept) : k.id \notin DOMAIN aliases
       /\ \A n \in Met : n.id \in DOMAIN aliases =>
            \E k \in ToSet(kept) : k.id = aliases[n.id] /\ SameCall(plan, k, n)
       /\ \A key \in DOMAIN seen :
            \E k \in ToSet(kept) : k.id = seen[key] /\ key # None /\ DedupKey(plan, k) = key

Unpruned == {"validate", "layers", "dce"}
Graphed == {"layers", "dce", "relayers", "batch", "explain", "engine", "ready", "explained"}

\* The graph is the plan's, and it is closed.
GraphOfPlan ==
  /\ dependencies \in [Ids(plan) -> SUBSET Ids(plan)]
  /\ DOMAIN effects = Ids(plan)
  /\ plan.outputs \subseteq Ids(plan)
  /\ \A n \in Nodes(plan) : /\ Wanted(n) = dependencies[n.id]
                            /\ effects[n.id] = Resolved(plan, n)
                            /\ n.tool \in DOMAIN plan.tools

\* A node of the compiled plan makes the call of a submitted one, and one
\* with effects still waits for what that one did.
StandsFor(k, n) ==
  /\ k.tool = n.tool
  /\ k.input.path = n.input.path
  /\ k.input.refs = {Survivor(id) : id \in n.input.refs}
  /\ k.for_each = Survivor(n.for_each)
  /\ k.when = Survivor(n.when)
  /\ ~IsPure(submitted, n.tool) => ToSet(k.depends_on) = {Survivor(d) : d \in ToSet(n.depends_on)}

\* What is gone from the plan is an equal node or, once dead nodes are
\* eliminated, a pure one.
Meaning ==
  /\ plan.outputs = {Survivor(id) : id \in submitted.outputs}
  /\ \A n \in Nodes(submitted) :
       /\ Survivor(n.id) # 0
       /\ \A k \in Nodes(plan) : k.id = Survivor(n.id) => StandsFor(k, n)
       /\ \/ Survivor(n.id) \in Ids(plan)
          \/ phase \notin Unpruned /\ Resolved(submitted, n).pure

CompileInv ==
  /\ PlanShape(plan) /\ PlanShape(submitted)
  /\ Waiting
  /\ phase = "dedup" => Dedup
  /\ phase \in Unpruned \cup Graphed =>
       plan.tools = submitted.tools /\ (DistinctIds => Meaning)
  /\ phase \in Graphed => GraphOfPlan

\* A sequence is one of its members, and they are finitely many.
LEMMA SeqOfMembers ==
  ASSUME NEW N, NEW q \in Seq(N)
  PROVE  q \in Seq(ToSet(q)) /\ ToSet(q) \subseteq N /\ \A i \in 1..Len(q) : q[i] \in ToSet(q)
<1>1. DOMAIN q = 1..Len(q) /\ Len(q) \in Nat /\ \A i \in 1..Len(q) : q[i] \in N
  OBVIOUS
<1>2. \A i \in 1..Len(q) : q[i] \in ToSet(q)
  BY <1>1 DEF ToSet
<1>3. ToSet(q) \subseteq N
  BY <1>1 DEF ToSet
<1>4. q \in [1..Len(q) -> ToSet(q)]
  <2>1. q = [i \in 1..Len(q) |-> q[i]]
    BY <1>1
  <2> HIDE DEF ToSet
  <2> QED
    BY <1>1, <1>2, <2>1
<1>5. \A S : \A n \in Nat : \A f \in [1..n -> S] : f \in Seq(S)
  OBVIOUS
<1> QED
  BY <1>1, <1>2, <1>3, <1>4, <1>5

LEMMA MembersFinite ==
  ASSUME NEW N, NEW q \in Seq(N)
  PROVE  IsFiniteSet(ToSet(q))
<1>1. Len(q) \in Nat /\ DOMAIN q = 1..Len(q)
  OBVIOUS
<1>2. IsFiniteSet(1..Len(q))
  BY <1>1, FS_Interval
<1>3. ToSet(q) = {q[i] : i \in 1..Len(q)}
  BY <1>1 DEF ToSet
<1>4. [i \in 1..Len(q) |-> q[i]] \in Surjection(1..Len(q), ToSet(q))
  BY <1>3 DEF Surjection
<1> QED
  BY <1>2, <1>4, FS_Surjection

\* The names of a plan are finitely many.
LEMMA IdsFinite ==
  ASSUME NEW p, PlanShape(p)
  PROVE  IsFiniteSet(Ids(p))
<1> DEFINE L == 1..Len(p.nodes)
           f == [i \in L |-> p.nodes[i].id]
<1>1. p.nodes \in Seq(Nodes(p)) /\ Len(p.nodes) \in Nat /\ DOMAIN p.nodes = L
  BY DEF PlanShape
<1>2. IsFiniteSet(L)
  BY <1>1, FS_Interval
<1>3. Ids(p) = {p.nodes[i].id : i \in L}
  BY <1>1 DEF Ids, Nodes, ToSet
<1>4. f \in Surjection(L, Ids(p))
  BY <1>3 DEF Surjection
<1> QED
  BY <1>2, <1>4, FS_Surjection

LEMMA ListOfNodes ==
  ASSUME NEW k \in Nat, NEW q, q = [i \in 1..k |-> q[i]]
  PROVE  q \in Seq(ToSet(q)) /\ \A n \in ToSet(q) : \E i \in 1..k : n = q[i]
<1>1. DOMAIN q = 1..k
  BY Zenon
<1>2. ToSet(q) = {q[i] : i \in 1..k}
  BY <1>1 DEF ToSet
<1>3. q \in [1..k -> ToSet(q)]
  <2>1. \A i \in 1..k : q[i] \in ToSet(q)
    BY <1>2
  <2> HIDE DEF ToSet
  <2> QED
    BY <2>1
<1>4. \A S : \A n \in Nat : \A f \in [1..n -> S] : f \in Seq(S)
  OBVIOUS
<1>5. q \in Seq(ToSet(q))
  BY <1>3, <1>4
<1> QED
  BY <1>2, <1>5

\* What is submitted is well formed.
LEMMA RequestsShaped ==
  ASSUME NEW p, IsPlan(p)
  PROVE  PlanShape(p) /\ \A n \in Nodes(p) : SourceNode(n)
<1>1. p.nodes \in Seq(PlanNodes)
  BY DEF IsPlan
<1>2. p.nodes \in Seq(Nodes(p)) /\ Nodes(p) \subseteq PlanNodes
  BY <1>1, SeqOfMembers DEF Nodes
<1>3. \A n \in PlanNodes : SourceNode(n)
  BY DEF PlanNodes, NodeShape, SourceNode
<1>4. \A n \in Nodes(p) : SourceNode(n) /\ NodeShape(n)
  BY <1>2, <1>3 DEF SourceNode
<1> QED
  BY <1>2, <1>4 DEF PlanShape, IsPlan

\* A node with one field changed.
LEMMA NodeUpdates ==
  ASSUME NEW id, NEW tool, NEW input, NEW deps, NEW each, NEW when, NEW v
  PROVE  LET n == [id |-> id, tool |-> tool, input |-> input, depends_on |-> deps,
                   for_each |-> each, when |-> when]
         IN  /\ [n EXCEPT !.for_each = v] =
                  [id |-> id, tool |-> tool, input |-> input, depends_on |-> deps,
                   for_each |-> v, when |-> when]
             /\ [n EXCEPT !.depends_on = v] =
                  [id |-> id, tool |-> tool, input |-> input, depends_on |-> v,
                   for_each |-> each, when |-> when]
OBVIOUS

\* What a step comes after, as compile_step lists it.
LEMMA AfterSorted ==
  ASSUME NEW after \in Seq(Nat), NEW input \in Inputs
  PROVE  LET d == Sorted(ToSet(after) \cup input.refs)
         IN  d \in Seq(Nat) /\ ToSet(d) = ToSet(after) \cup input.refs
<1> DEFINE S == ToSet(after) \cup input.refs
<1>1. ToSet(after) \in SUBSET Nat /\ IsFiniteSet(ToSet(after))
  BY MembersFinite, SeqOfMembers
<1>2. input.refs \in SUBSET Nat /\ IsFiniteSet(input.refs)
  BY DEF Inputs
<1>3. S \in SUBSET Nat /\ IsFiniteSet(S)
  BY <1>1, <1>2, FS_Union
<1> HIDE DEF S
<1>4. /\ Cardinality(S) \in Nat /\ Sorted(S) \in [1..Cardinality(S) -> S]
      /\ ToSet(Sorted(S)) = S
  BY <1>3, SortedIs
<1>5. \A k : \A q \in [1..k -> S] : q \in [1..k -> Nat]
  BY <1>3
<1>6. \A k \in Nat : \A q \in [1..k -> Nat] : q \in Seq(Nat)
  OBVIOUS
<1>7. Sorted(S) \in Seq(Nat)
  BY <1>4, <1>5, <1>6
<1> QED
  BY <1>4, <1>7 DEF S

LEMMA NewNodeShaped ==
  ASSUME NEW id \in Nat \ {0}, NEW tool, NEW path, NEW refs
  PROVE  SourceNode(NewNode(id, tool, [path |-> path, refs |-> refs]))
BY DEF SourceNode, NodeShape, NewNode

\* compile_fan_out makes well-formed nodes, one named each or one per item.
LEMMA FanOutShaped ==
  ASSUME NEW body \in Recipes, NEW params
  PROVE  LET q == FanOut(body, params)
         IN  \E k \in Nat :
               /\ q = [i \in 1..k |-> q[i]] /\ \A i \in 1..k : SourceNode(q[i])
               /\ IF body.items_ref # 0 THEN k = 1 /\ q[1].id = EachId
                  ELSE 1..k = DOMAIN body.items /\ \A i \in 1..k : q[i].id = i
<1>1. body.items \in Seq(Inputs)
  BY DEF Recipes
<1>2. CASE body.items_ref # 0
  <2>1. EachId \in Nat \ {0}
    BY SourceAssumption
  <2> DEFINE a == NewNode(EachId, body.tool, [path |-> NotScalar, refs |-> {}])
             b == [a EXCEPT !.for_each = body.items_ref]
  <2>2. SourceNode(b) /\ b.id = EachId
    <3>1. PICK input : input = [path |-> NotScalar, refs |-> {}]
      OBVIOUS
    <3>2. b = [NewNode(EachId, body.tool, input) EXCEPT !.for_each = body.items_ref]
      BY <3>1
    <3> HIDE DEF b
    <3>3. b = [id |-> EachId, tool |-> body.tool, input |-> input,
               depends_on |-> <<>>, for_each |-> body.items_ref, when |-> 0]
      BY <3>2, NodeUpdates, Zenon DEF NewNode
    <3>4. PICK d : d = <<>>
      OBVIOUS
    <3>5. d \in Seq(Nat)
      BY <3>4
    <3>6. b = [id |-> EachId, tool |-> body.tool, input |-> input,
               depends_on |-> d, for_each |-> body.items_ref, when |-> 0]
      BY <3>3, <3>4, Zenon
    <3>7. b.id = EachId
      BY <3>6
    <3> QED
      BY <2>1, <3>1, <3>5, <3>6, <3>7 DEF SourceNode, NodeShape
  <2>3. FanOut(body, params) = <<b>>
    BY <1>2 DEF FanOut
  <2> HIDE DEF b
  <2>4. <<b>> = [i \in 1..1 |-> <<b>>[i]] /\ \A i \in 1..1 : <<b>>[i] = b
    OBVIOUS
  <2> QED
    BY <1>2, <2>2, <2>3, <2>4
<1>3. CASE body.items_ref = 0
  <2> DEFINE make(i) == NewNode(i, body.tool, Substitute(body.items[i], params))
             q == [i \in 1..Len(body.items) |-> make(i)]
  <2>1. FanOut(body, params) = q /\ Len(body.items) \in Nat
    BY <1>1, <1>3 DEF FanOut
  <2>2. \A i \in 1..Len(body.items) : SourceNode(make(i))
    BY <1>1, NewNodeShaped DEF Substitute, PlainInput
  <2>20. \A i : make(i).id = i
    BY DEF NewNode
  <2> HIDE DEF make
  <2>3. q = [i \in 1..Len(body.items) |-> q[i]] /\ \A i \in 1..Len(body.items) : q[i] = make(i)
    OBVIOUS
  <2>4. 1..Len(body.items) = DOMAIN body.items
    BY <1>1
  <2> QED
    BY <1>3, <2>1, <2>2, <2>20, <2>3, <2>4
<1> QED
  BY <1>2, <1>3

\* compile_map_reduce adds the reducer.
LEMMA MapReduceShaped ==
  ASSUME NEW body \in Recipes, NEW params
  PROVE  LET f == FanOut(body, params)
             q == MapReduce(body, params)
             r == NewNode(ReduceId, body.reduce_tool, ReduceInput(f))
         IN  \E k \in Nat :
               /\ f = [i \in 1..k |-> f[i]] /\ \A i \in 1..k : SourceNode(f[i])
               /\ IF body.items_ref # 0 THEN k = 1 /\ f[1].id = EachId
                  ELSE 1..k = DOMAIN body.items /\ \A i \in 1..k : f[i].id = i
               /\ q = [i \in 1..(k + 1) |-> q[i]]
               /\ \A i \in 1..(k + 1) : q[i] = IF i = k + 1 THEN r ELSE f[i]
<1> DEFINE f == FanOut(body, params)
           r == NewNode(ReduceId, body.reduce_tool, ReduceInput(f))
<1>1. MapReduce(body, params) = Append(f, r)
  BY DEF MapReduce
<1>2. PICK k \in Nat :
        /\ f = [i \in 1..k |-> f[i]] /\ \A i \in 1..k : SourceNode(f[i])
        /\ IF body.items_ref # 0 THEN k = 1 /\ f[1].id = EachId
           ELSE 1..k = DOMAIN body.items /\ \A i \in 1..k : f[i].id = i
  BY FanOutShaped
<1>3. f \in Seq(ToSet(f))
  BY <1>2, ListOfNodes
<1> HIDE DEF f, r
<1>4. Len(f) = k
  <2>1. DOMAIN f = 1..k
    BY <1>2, Zenon
  <2>2. DOMAIN f = 1..Len(f) /\ Len(f) \in Nat
    BY <1>3
  <2> QED
    BY <2>1, <2>2
<1>5. /\ Append(f, r) = [i \in 1..(k + 1) |-> Append(f, r)[i]]
      /\ \A i \in 1..(k + 1) : Append(f, r)[i] = IF i = k + 1 THEN r ELSE f[i]
  <2> DEFINE N == ToSet(f) \cup {r}
             a == Append(f, r)
  <2>1. f \in Seq(N) /\ r \in N
    BY <1>3
  <2> HIDE DEF N
  <2>2. a \in Seq(N) /\ Len(a) = k + 1
    BY <1>4, <2>1
  <2>3. \A i \in 1..(k + 1) : a[i] = IF i = k + 1 THEN r ELSE f[i]
    BY <1>4, <2>1
  <2> HIDE DEF a
  <2>4. a = [i \in 1..(k + 1) |-> a[i]]
    BY <2>2
  <2> QED
    BY <2>3, <2>4 DEF a
<1> QED
  BY <1>1, <1>2, <1>5 DEF f, r

\* What the planner lowers a source to is well formed.
LEMMA LoweredShaped ==
  ASSUME NEW src \in Sources
  PROVE  LET q == LoweredNodes(src)
         IN  q \in Seq(ToSet(q)) /\ \A n \in ToSet(q) : SourceNode(n)
<1> DEFINE params == Merged(src.params, src.values)
           OK(q) == \E k \in Nat : q = [i \in 1..k |-> q[i]] /\ \A i \in 1..k : SourceNode(q[i])
<1>1. SUFFICES OK(LoweredNodes(src))
  BY ListOfNodes
<1>2. src.body \in IntentPlans \/ src.body \in Recipes
  BY SourceAssumption
<1>3. CASE src.body \in IntentPlans
  <2>1. src.body.steps \in Seq(Steps) /\ src.body.kind = "intent"
    BY <1>3 DEF IntentPlans
  <2> DEFINE len == Len(src.body.steps)
             make(i) == CompileStep(src.body.steps[i])
             q == [i \in 1..len |-> make(i)]
  <2>2. LoweredNodes(src) = q /\ len \in Nat
    BY <2>1 DEF LoweredNodes
  <2>3. \A i \in 1..len : SourceNode(make(i))
    <3> SUFFICES ASSUME NEW i \in 1..len PROVE SourceNode(make(i))
      OBVIOUS
    <3>1. PICK s \in Steps : s = src.body.steps[i]
      BY <2>1
    <3>2. PICK d : /\ d = Sorted(ToSet(s.after) \cup s.input.refs)
                   /\ make(i) = [NewNode(s.id, s.tool, PlainInput(s.input)) EXCEPT !.depends_on = d]
      BY <3>1, Zenon DEF CompileStep
    <3>3. make(i) = [id |-> s.id, tool |-> s.tool, input |-> PlainInput(s.input), depends_on |-> d,
                     for_each |-> 0, when |-> 0]
      BY <3>2, NodeUpdates, Zenon DEF NewNode
    <3>4. s.id \in Nat \ {0} /\ s.after \in Seq(Nat) /\ s.input \in Inputs
      BY DEF Steps
    <3>5. d \in Seq(Nat)
      BY <3>2, <3>4, AfterSorted
    <3> HIDE DEF make
    <3> QED
      BY <3>3, <3>4, <3>5 DEF SourceNode, NodeShape, PlainInput
  <2> HIDE DEF make, len
  <2>4. q = [i \in 1..len |-> q[i]] /\ \A i \in 1..len : q[i] = make(i)
    OBVIOUS
  <2> QED
    BY <2>2, <2>3, <2>4
<1>4. CASE src.body \in Recipes
  <2>1. src.body.kind \in {"fan_out", "map_reduce", "pipeline"}
    BY <1>4 DEF Recipes
  <2>2. CASE src.body.kind = "fan_out"
    <3>1. LoweredNodes(src) = FanOut(src.body, params)
      BY <2>2 DEF LoweredNodes
    <3>2. \A b, v, q : b \in Recipes /\ q = FanOut(b, v) => OK(q)
      <4> SUFFICES ASSUME NEW b \in Recipes, NEW v PROVE OK(FanOut(b, v))
        OBVIOUS
      <4> QED
        BY FanOutShaped
    <3> HIDE DEF OK, params
    <3> QED
      BY <1>4, <3>1, <3>2
  <2>3. CASE src.body.kind = "map_reduce"
    <3> DEFINE f == FanOut(src.body, params)
               q == MapReduce(src.body, params)
               r == NewNode(ReduceId, src.body.reduce_tool, ReduceInput(f))
    <3>1. LoweredNodes(src) = q
      BY <2>3 DEF LoweredNodes
    <3>2. PICK k \in Nat : /\ \A i \in 1..k : SourceNode(f[i])
                           /\ q = [i \in 1..(k + 1) |-> q[i]]
                           /\ \A i \in 1..(k + 1) : q[i] = IF i = k + 1 THEN r ELSE f[i]
      BY <1>4, MapReduceShaped
    <3>3. SourceNode(r)
      <4>1. ReduceId \in Nat \ {0}
        BY SourceAssumption
      <4> QED
        BY <4>1, NewNodeShaped DEF ReduceInput
    <3> HIDE DEF f, r, q
    <3>4. \A i \in 1..(k + 1) : i = k + 1 \/ i \in 1..k
      OBVIOUS
    <3>5. \A i \in 1..(k + 1) : SourceNode(q[i])
      BY <3>2, <3>3, <3>4
    <3>6. k + 1 \in Nat
      OBVIOUS
    <3> QED
      BY <3>1, <3>2, <3>5, <3>6
  <2>4. CASE src.body.kind = "pipeline"
    <3>1. src.body.steps \in Seq([tool: STRING, input: Inputs, prev: BOOLEAN])
      BY <1>4 DEF Recipes
    <3> DEFINE len == Len(src.body.steps)
               input(i) == IF ~src.body.steps[i].prev THEN Substitute(src.body.steps[i].input, params)
                           ELSE IF i = 1 THEN [path |-> NotScalar, refs |-> {}]
                           ELSE [path |-> "", refs |-> {i - 1}]
               make(i) == NewNode(i, src.body.steps[i].tool, input(i))
               q == [i \in 1..len |-> make(i)]
    <3>2. LoweredNodes(src) = q /\ len \in Nat
      BY <2>4, <3>1 DEF LoweredNodes, Pipeline
    <3>3. \A i \in 1..len : SourceNode(make(i))
      <4>1. \A i : \E path, refs : input(i) = [path |-> path, refs |-> refs]
        BY DEF Substitute, PlainInput
      <4> HIDE DEF input, len
      <4>2. \A i \in 1..len : i \in Nat \ {0}
        OBVIOUS
      <4> QED
        BY <4>1, <4>2, NewNodeShaped
    <3> HIDE DEF make, len
    <3>4. q = [i \in 1..len |-> q[i]] /\ \A i \in 1..len : q[i] = make(i)
      OBVIOUS
    <3> QED
      BY <3>2, <3>3, <3>4
  <2> QED
    BY <2>1, <2>2, <2>3, <2>4
<1> QED
  BY <1>2, <1>3, <1>4

LEMMA CompileInvInit == PlannerInit => CompileInv
<1> SUFFICES ASSUME PlannerInit PROVE CompileInv
  OBVIOUS
<1>1. CASE Init
  <2>1. PICK q \in Requests : plan = q.plan
    BY <1>1 DEF Init
  <2>2. PlanShape(plan) /\ \A n \in Nodes(plan) : SourceNode(n)
    BY <2>1, RequestAssumption, RequestsShaped
  <2>3. /\ phase = "submitted" /\ submitted = plan
        /\ cursor = 1 /\ seen = <<>> /\ aliases = <<>> /\ kept = <<>>
    BY <1>1 DEF Init
  <2> QED
    BY <2>2, <2>3 DEF CompileInv, Waiting, Unpruned, Graphed
<1>2. CASE ~Init
  <2>1. /\ source \in Sources /\ phase = "source" /\ submitted = plan
        /\ plan = [version |-> "0", tools |-> <<>>, nodes |-> <<>>, outputs |-> {}]
        /\ cursor = 1 /\ seen = <<>> /\ aliases = <<>> /\ kept = <<>>
    BY <1>2 DEF PlannerInit
  <2>2. Nodes(plan) = {} /\ plan.nodes = <<>> /\ DOMAIN plan.tools = {}
    BY <2>1 DEF Nodes, ToSet
  <2>3. PlanShape(plan)
    BY <2>1, <2>2 DEF PlanShape
  <2> QED
    BY <2>1, <2>3 DEF CompileInv, Waiting, Unpruned, Graphed
<1> QED
  BY <1>1, <1>2

LEMMA LowerKeepsInv ==
  ASSUME CompileInv, Lower
  PROVE  CompileInv'
<1>1. phase = "source" /\ UNCHANGED <<submitted, cursor, seen, aliases, kept>>
  BY DEF Lower
<1>2. /\ source \in Sources /\ PlanShape(submitted) /\ PlanShape(plan)
      /\ cursor = 1 /\ seen = <<>> /\ aliases = <<>> /\ kept = <<>>
  BY <1>1 DEF CompileInv, Waiting
<1>3. CASE LoweringError(source) # ""
  <2>1. phase' = "rejected" /\ plan' = plan
    BY <1>3 DEF Lower
  <2> QED
    BY <1>1, <1>2, <2>1 DEF CompileInv, Waiting, Unpruned, Graphed
<1>4. CASE LoweringError(source) = ""
  <2> DEFINE q == LoweredNodes(source)
  <2>1. /\ phase' = "submitted"
        /\ plan' = [version |-> "0", tools |-> source.tools, nodes |-> q, outputs |-> source.outputs]
    BY <1>4 DEF Lower
  <2>2. q \in Seq(ToSet(q)) /\ \A n \in ToSet(q) : SourceNode(n) /\ NodeShape(n)
    BY <1>2, LoweredShaped DEF SourceNode
  <2> HIDE DEF q
  <2>3. \A t \in DOMAIN source.tools : source.tools[t] \in ToolSpecs
    BY <1>2, SourceAssumption
  <2>4. PlanShape(plan')
    BY <2>1, <2>2, <2>3 DEF PlanShape, Nodes
  <2>5. \A n \in Nodes(plan') : SourceNode(n)
    BY <2>1, <2>2 DEF Nodes
  <2> QED
    BY <1>1, <1>2, <2>1, <2>4, <2>5 DEF CompileInv, Waiting, Unpruned, Graphed
<1> QED
  BY <1>3, <1>4

\* Where names are distinct, a name names one node.
LEMMA DistinctNames ==
  ASSUME DistinctIds, PlanShape(submitted), NEW m \in Nodes(submitted), NEW n \in Nodes(submitted), m.id = n.id
  PROVE  m = n
<1>1. PICK i \in DOMAIN submitted.nodes : m = submitted.nodes[i]
  BY DEF Nodes, ToSet
<1>2. PICK j \in DOMAIN submitted.nodes : n = submitted.nodes[j]
  BY DEF Nodes, ToSet
<1> QED
  BY <1>1, <1>2 DEF DistinctIds

LEMMA ToolsMerged ==
  ASSUME NEW spec \in ToolSpecs, NEW c \in ToolCapabilities
  PROVE  MergeCapabilities(spec, c) \in ToolSpecs
<1> DEFINE e == IF spec.effects = None THEN c.effects ELSE spec.effects
           b == IF spec.batch_size = None THEN c.batch_size ELSE spec.batch_size
           m == IF spec.cost = None THEN c.cost ELSE spec.cost
<1>1. /\ e \in Declarations \cup {None} /\ b \in Nat \cup {None} /\ m \in Costs \cup {None}
      /\ spec.adapter \in STRING
  BY DEF ToolSpecs, ToolCapabilities
<1>2. MergeCapabilities(spec, c) = [adapter |-> spec.adapter, effects |-> e, batch_size |-> b, cost |-> m]
  <2>1. spec = [adapter |-> spec.adapter, effects |-> spec.effects, batch_size |-> spec.batch_size,
                cost |-> spec.cost]
    BY DEF ToolSpecs
  <2>2. MergeCapabilities(spec, c) = [spec EXCEPT !.effects = e, !.batch_size = b, !.cost = m]
    BY <2>1 DEF MergeCapabilities
  <2> HIDE DEF e, b, m
  <2> QED
    BY <2>1, <2>2
<1> HIDE DEF e, b, m
<1> QED
  BY <1>1, <1>2 DEF ToolSpecs

\* Hydrating a plan changes nothing but its tools.
LEMMA HydratedShape ==
  ASSUME NEW p, PlanShape(p)
  PROVE  PlanShape(ApplyCapabilities(p)) /\ ApplyCapabilities(p).nodes = p.nodes
<1> DEFINE cap(t) == CapabilitiesFor(p.tools[t].adapter, t)
           tools == [t \in DOMAIN p.tools |->
                       IF cap(t) = None THEN p.tools[t] ELSE MergeCapabilities(p.tools[t], cap(t))]
<1>1. \A t : cap(t) = None \/ cap(t) \in ToolCapabilities
  BY RequestAssumption DEF CapabilitiesFor
<1>2. ApplyCapabilities(p) = [p EXCEPT !.tools = tools]
  BY DEF ApplyCapabilities
<1> HIDE DEF cap
<1>3. \A t \in DOMAIN p.tools : tools[t] \in ToolSpecs
  BY <1>1, ToolsMerged DEF PlanShape
<1>4. DOMAIN tools = DOMAIN p.tools
  OBVIOUS
<1> HIDE DEF tools
<1>5. [p EXCEPT !.tools = tools] =
        [version |-> p.version, tools |-> tools, nodes |-> p.nodes, outputs |-> p.outputs]
  BY DEF PlanShape
<1> DEFINE h == ApplyCapabilities(p)
<1>6. h.nodes = p.nodes /\ h.tools = tools /\ h.version = p.version /\ h.outputs = p.outputs
  BY <1>2, <1>5
<1> QED
  BY <1>2, <1>3, <1>4, <1>5, <1>6 DEF PlanShape, Nodes

\* Before any node is merged, every node stands for itself.
LEMMA ItselfMeans ==
  ASSUME DistinctIds, PlanShape(submitted), plan = submitted, aliases = <<>>
  PROVE  Meaning
<1>1. \A id : Survivor(id) = id
  BY DEF Survivor
<1>2. plan.outputs = {Survivor(id) : id \in submitted.outputs}
  BY <1>1
<1>3. ASSUME NEW n \in Nodes(submitted), NEW k \in Nodes(plan), k.id = Survivor(n.id)
      PROVE  StandsFor(k, n)
  <2>1. k = n
    BY <1>1, <1>3, DistinctNames
  <2> QED
    BY <1>1, <2>1 DEF StandsFor
<1>4. \A n \in Nodes(submitted) : Survivor(n.id) \in Ids(plan) /\ Survivor(n.id) # 0
  <2>1. \A n \in Nodes(submitted) : n.id \in Nat \ {0}
    BY DEF PlanShape, NodeShape
  <2> QED
    BY <1>1, <2>1 DEF Ids
<1> QED
  BY <1>2, <1>3, <1>4 DEF Meaning

LEMMA HydrateKeepsInv ==
  ASSUME CompileInv, Hydrate
  PROVE  CompileInv'
<1>1. /\ phase = "submitted" /\ submitted' = plan' /\ UNCHANGED <<cursor, seen, aliases, kept>>
      /\ phase' \in {"validate", "dedup"}
      /\ plan' = plan \/ plan' = ApplyCapabilities(plan)
  BY DEF Hydrate
<1>2. /\ PlanShape(plan) /\ cursor = 1 /\ seen = <<>> /\ aliases = <<>> /\ kept = <<>>
      /\ \A n \in Nodes(plan) : SourceNode(n)
  BY <1>1 DEF CompileInv, Waiting
<1>3. PlanShape(plan') /\ Nodes(plan') = Nodes(plan)
  BY <1>1, <1>2, HydratedShape DEF Nodes
<1>4. CASE phase' = "validate"
  <2>1. DistinctIds' => Meaning'
    <3>1. (DistinctIds /\ PlanShape(submitted) /\ plan = submitted /\ aliases = <<>> => Meaning)'
      BY ItselfMeans, PTL
    <3> QED
      BY <1>1, <1>2, <1>3, <3>1
  <2> QED
    BY <1>1, <1>3, <1>4, <2>1 DEF CompileInv, Waiting, Unpruned, Graphed
<1>5. CASE phase' = "dedup"
  <2>1. Met' = {}
    BY <1>1, <1>2 DEF Met
  <2>2. Len(plan'.nodes) \in Nat
    BY <1>3 DEF PlanShape
  <2>3. ToSet(kept') = {} /\ DOMAIN aliases' = {} /\ DOMAIN seen' = {}
    BY <1>1, <1>2 DEF ToSet
  <2>4. kept' \in Seq(Nodes(plan'))
    BY <1>1, <1>2
  <2>5. Dedup'
    BY <1>1, <1>2, <1>3, <2>1, <2>2, <2>3, <2>4 DEF Dedup
  <2> QED
    BY <1>1, <1>3, <1>5, <2>5 DEF CompileInv, Waiting, Unpruned, Graphed
<1> QED
  BY <1>1, <1>4, <1>5

\* Nodes with one key make the same call.
LEMMA SameKeySameCall ==
  ASSUME NEW p, NEW m, NEW n, DedupKey(p, m) = DedupKey(p, n), DedupKey(p, n) # None
  PROVE  SameCall(p, m, n)
<1> DEFINE rest(x) == IF EffectsOf(p, x.tool).pure THEN <<>> ELSE x.depends_on
           call(x, d) == <<x.tool, x.input, x.for_each, x.when, d>>
<1>1. \A x : DedupKey(p, x) # None => /\ x.tool \in DOMAIN p.tools /\ EffectsOf(p, x.tool) # None
                                      /\ DedupKey(p, x) = call(x, rest(x))
  BY DEF DedupKey
<1>2. /\ n.tool \in DOMAIN p.tools /\ EffectsOf(p, n.tool) # None
      /\ call(m, rest(m)) = call(n, rest(n))
  BY <1>1
<1> HIDE DEF rest
<1>3. /\ m.tool = n.tool /\ m.input = n.input /\ m.for_each = n.for_each /\ m.when = n.when
      /\ rest(m) = rest(n)
  BY <1>2
<1>4. ASSUME ~IsPure(p, n.tool) PROVE m.depends_on = n.depends_on
  <2>1. ~EffectsOf(p, n.tool).pure /\ ~EffectsOf(p, m.tool).pure
    BY <1>2, <1>3, <1>4 DEF IsPure
  <2> QED
    BY <1>3, <2>1 DEF rest
<1> QED
  BY <1>3, <1>4 DEF SameCall

LEMMA DedupKeepsInv ==
  ASSUME CompileInv, DedupNode
  PROVE  CompileInv'
<1>1. /\ phase = "dedup" /\ phase' = "dedup" /\ cursor <= Len(plan.nodes)
      /\ cursor' = cursor + 1 /\ UNCHANGED <<plan, submitted>>
  BY DEF DedupNode
<1>2. Dedup /\ PlanShape(plan) /\ PlanShape(submitted)
  BY <1>1 DEF CompileInv
<1>3. /\ plan = submitted /\ cursor \in 1..(Len(plan.nodes) + 1)
      /\ \A m \in Nodes(plan) : SourceNode(m)
      /\ kept \in Seq(Nodes(plan)) /\ ToSet(kept) \subseteq Met
      /\ DOMAIN aliases \subseteq {n.id : n \in Met}
      /\ \A n \in Met : n \in ToSet(kept) \/ n.id \in DOMAIN aliases
  BY <1>2 DEF Dedup
<1>4. Len(plan.nodes) \in Nat /\ DOMAIN plan.nodes = 1..Len(plan.nodes)
  BY <1>2 DEF PlanShape
<1>5. cursor \in Nat \ {0} /\ cursor \in 1..Len(plan.nodes) /\ cursor + 1 \in 1..(Len(plan.nodes) + 1)
  BY <1>1, <1>3, <1>4
<1>6. PICK n : n = plan.nodes[cursor]
  OBVIOUS
<1>7. n \in Nodes(plan)
  BY <1>4, <1>5, <1>6 DEF Nodes, ToSet
<1>8. Met' = Met \cup {n}
  <2>1. 1..((cursor + 1) - 1) = 1..(cursor - 1) \cup {cursor}
    BY <1>5
  <2> QED
    BY <1>1, <1>6, <2>1 DEF Met
<1>9. DistinctIds => \A m \in Met : m.id # n.id
  <2> SUFFICES ASSUME DistinctIds, NEW i \in 1..(cursor - 1) PROVE plan.nodes[i].id # n.id
    BY DEF Met
  <2>1. i \in DOMAIN plan.nodes /\ cursor \in DOMAIN plan.nodes /\ i # cursor
    BY <1>4, <1>5
  <2> QED
    BY <1>3, <1>6, <2>1 DEF DistinctIds
<1>10. DistinctIds' = DistinctIds
  BY <1>1 DEF DistinctIds
<1>11. PICK key : key = DedupKey(plan, n)
  OBVIOUS
<1>12. CASE key # None /\ key \in DOMAIN seen
  <2>1. aliases' = Put(aliases, n.id, seen[key]) /\ UNCHANGED <<seen, kept>>
    BY <1>6, <1>11, <1>12 DEF DedupNode
  <2>2. /\ DOMAIN aliases' = DOMAIN aliases \cup {n.id} /\ aliases'[n.id] = seen[key]
        /\ \A x \in DOMAIN aliases : x # n.id => aliases'[x] = aliases[x]
    BY <2>1 DEF Put
  <2>3. /\ kept' \in Seq(Nodes(plan')) /\ ToSet(kept') \subseteq Met'
        /\ DOMAIN aliases' \subseteq {m.id : m \in Met'}
        /\ \A m \in Met' : m \in ToSet(kept') \/ m.id \in DOMAIN aliases'
    BY <1>1, <1>3, <1>8, <2>1, <2>2
  <2>4. ASSUME DistinctIds
        PROVE  /\ \A k \in ToSet(kept') : k.id \notin DOMAIN aliases'
               /\ \A m \in Met' : m.id \in DOMAIN aliases' =>
                    \E k \in ToSet(kept') : k.id = aliases'[m.id] /\ SameCall(plan', k, m)
               /\ \A x \in DOMAIN seen' :
                    \E k \in ToSet(kept') : k.id = seen'[x] /\ x # None /\ DedupKey(plan', k) = x
    <3>1. /\ \A k \in ToSet(kept) : k.id \notin DOMAIN aliases
          /\ \A m \in Met : m.id \in DOMAIN aliases =>
               \E k \in ToSet(kept) : k.id = aliases[m.id] /\ SameCall(plan, k, m)
          /\ \A x \in DOMAIN seen :
               \E k \in ToSet(kept) : k.id = seen[x] /\ x # None /\ DedupKey(plan, k) = x
      BY <1>2, <2>4 DEF Dedup
    <3>2. PICK k \in ToSet(kept) : k.id = seen[key] /\ DedupKey(plan, k) = key
      BY <1>12, <3>1
    <3>3. SameCall(plan, k, n)
      BY <1>11, <1>12, <3>2, SameKeySameCall
    <3>4. \A j \in ToSet(kept) : j.id \notin DOMAIN aliases'
      BY <1>3, <1>9, <2>2, <2>4, <3>1
    <3>5. \A m \in Met' : m.id \in DOMAIN aliases' =>
            \E j \in ToSet(kept) : j.id = aliases'[m.id] /\ SameCall(plan, j, m)
      <4> SUFFICES ASSUME NEW m \in Met', m.id \in DOMAIN aliases'
                   PROVE  \E j \in ToSet(kept) : j.id = aliases'[m.id] /\ SameCall(plan, j, m)
        OBVIOUS
      <4>1. CASE m = n
        BY <2>2, <3>2, <3>3, <4>1
      <4>2. CASE m # n
        <5>1. m \in Met /\ m.id # n.id
          BY <1>8, <1>9, <2>4, <4>2
        <5>2. m.id \in DOMAIN aliases /\ aliases'[m.id] = aliases[m.id]
          BY <2>2, <5>1
        <5> QED
          BY <3>1, <5>1, <5>2
      <4> QED
        BY <4>1, <4>2
    <3> QED
      BY <1>1, <2>1, <3>1, <3>4, <3>5
  <2>5. Dedup'
    BY <1>1, <1>3, <1>5, <1>10, <2>3, <2>4 DEF Dedup
  <2> QED
    BY <1>1, <1>2, <2>5 DEF CompileInv, Waiting, Unpruned, Graphed
<1>13. CASE ~(key # None /\ key \in DOMAIN seen)
  <2>1. /\ seen' = (IF key = None THEN seen ELSE Put(seen, key, n.id))
        /\ kept' = Append(kept, n) /\ aliases' = aliases
    BY <1>6, <1>11, <1>13 DEF DedupNode
  <2>2. kept' \in Seq(Nodes(plan)) /\ ToSet(kept') = ToSet(kept) \cup {n}
    BY <1>3, <1>7, <2>1, ToSetOfAppend
  <2>3. /\ kept' \in Seq(Nodes(plan')) /\ ToSet(kept') \subseteq Met'
        /\ DOMAIN aliases' \subseteq {m.id : m \in Met'}
        /\ \A m \in Met' : m \in ToSet(kept') \/ m.id \in DOMAIN aliases'
    BY <1>1, <1>3, <1>8, <2>1, <2>2
  <2>4. \A x \in DOMAIN seen' : \/ x \in DOMAIN seen /\ seen'[x] = seen[x]
                                \/ x = key /\ key # None /\ seen'[x] = n.id
    BY <2>1 DEF Put
  <2>5. ASSUME DistinctIds
        PROVE  /\ \A k \in ToSet(kept') : k.id \notin DOMAIN aliases'
               /\ \A m \in Met' : m.id \in DOMAIN aliases' =>
                    \E k \in ToSet(kept') : k.id = aliases'[m.id] /\ SameCall(plan', k, m)
               /\ \A x \in DOMAIN seen' :
                    \E k \in ToSet(kept') : k.id = seen'[x] /\ x # None /\ DedupKey(plan', k) = x
    <3>1. /\ \A k \in ToSet(kept) : k.id \notin DOMAIN aliases
          /\ \A m \in Met : m.id \in DOMAIN aliases =>
               \E k \in ToSet(kept) : k.id = aliases[m.id] /\ SameCall(plan, k, m)
          /\ \A x \in DOMAIN seen :
               \E k \in ToSet(kept) : k.id = seen[x] /\ x # None /\ DedupKey(plan, k) = x
      BY <1>2, <2>5 DEF Dedup
    <3>2. n.id \notin DOMAIN aliases
      BY <1>3, <1>9, <2>5
    <3>3. \A k \in ToSet(kept') : k.id \notin DOMAIN aliases'
      BY <2>1, <2>2, <3>1, <3>2
    <3>4. \A m \in Met' : m.id \in DOMAIN aliases' =>
            \E k \in ToSet(kept') : k.id = aliases'[m.id] /\ SameCall(plan, k, m)
      BY <1>8, <2>1, <2>2, <3>1, <3>2
    <3>5. \A x \in DOMAIN seen' :
            \E k \in ToSet(kept') : k.id = seen'[x] /\ x # None /\ DedupKey(plan, k) = x
      BY <1>11, <2>2, <2>4, <3>1
    <3> QED
      BY <1>1, <3>3, <3>4, <3>5
  <2>6. Dedup'
    BY <1>1, <1>3, <1>5, <1>10, <2>3, <2>5 DEF Dedup
  <2> QED
    BY <1>1, <1>2, <2>6 DEF CompileInv, Waiting, Unpruned, Graphed
<1> QED
  BY <1>12, <1>13

\* rewrite_node_aliases changes references and dependencies only.
LEMMA RewrittenNode ==
  ASSUME NEW n, NodeShape(n)
  PROVE  RewriteNodeAliases(n) =
           [id |-> n.id, tool |-> n.tool,
            input |-> [path |-> n.input.path, refs |-> {RewriteRef(id) : id \in n.input.refs}],
            depends_on |-> Sorted({CanonicalNode(x) : x \in ToSet(n.depends_on)}),
            for_each |-> RewriteRef(n.for_each), when |-> RewriteRef(n.when)]
<1>1. PICK d : d = Sorted({CanonicalNode(x) : x \in ToSet(n.depends_on)})
  OBVIOUS
<1>2. PICK r : r = {RewriteRef(id) : id \in n.input.refs}
  OBVIOUS
<1>3. RewriteInput(n.input) = [path |-> n.input.path, refs |-> r]
  <2>1. RewriteInput(n.input) = [n.input EXCEPT !.refs = r]
    BY <1>2 DEF RewriteInput
  <2>2. \A x : x = [path |-> x.path, refs |-> x.refs] =>
                 [x EXCEPT !.refs = r] = [path |-> x.path, refs |-> r]
    OBVIOUS
  <2> QED
    BY <2>1, <2>2 DEF NodeShape
<1>4. RewriteNodeAliases(n) =
        [n EXCEPT !.depends_on = d, !.for_each = RewriteRef(n.for_each),
                  !.when = RewriteRef(n.when), !.input = RewriteInput(n.input)]
  BY <1>1 DEF RewriteNodeAliases
<1>5. \A a, b, c, e :
        [n EXCEPT !.depends_on = a, !.for_each = b, !.when = c, !.input = e] =
          [id |-> n.id, tool |-> n.tool, input |-> e, depends_on |-> a, for_each |-> b, when |-> c]
  <2> TAKE a, b, c, e
  <2>1. n = [id |-> n.id, tool |-> n.tool, input |-> n.input, depends_on |-> n.depends_on,
             for_each |-> n.for_each, when |-> n.when]
    BY DEF NodeShape
  <2>2. PICK n1 : n1 = [n EXCEPT !.depends_on = a]
    OBVIOUS
  <2>3. n1 = [id |-> n.id, tool |-> n.tool, input |-> n.input, depends_on |-> a,
              for_each |-> n.for_each, when |-> n.when]
    BY <2>1, <2>2
  <2>4. PICK n2 : n2 = [n1 EXCEPT !.for_each = b]
    OBVIOUS
  <2>5. n2 = [id |-> n.id, tool |-> n.tool, input |-> n.input, depends_on |-> a,
              for_each |-> b, when |-> n.when]
    BY <2>3, <2>4
  <2>6. PICK n3 : n3 = [n2 EXCEPT !.when = c]
    OBVIOUS
  <2>7. n3 = [id |-> n.id, tool |-> n.tool, input |-> n.input, depends_on |-> a,
              for_each |-> b, when |-> c]
    BY <2>5, <2>6
  <2>8. [n3 EXCEPT !.input = e] =
          [id |-> n.id, tool |-> n.tool, input |-> e, depends_on |-> a, for_each |-> b, when |-> c]
    BY <2>7
  <2>9. [n EXCEPT !.depends_on = a, !.for_each = b, !.when = c, !.input = e] = [n3 EXCEPT !.input = e]
    BY <2>2, <2>4, <2>6
  <2> QED
    BY <2>8, <2>9
<1> QED
  BY <1>1, <1>2, <1>3, <1>4, <1>5

\* At the end of the pass every node has a survivor that makes its call.
LEMMA Survivors ==
  ASSUME Dedup, DistinctIds, Met = Nodes(plan)
  PROVE  /\ \A n \in Nodes(plan) : \E k \in ToSet(kept) : k.id = Survivor(n.id) /\ SameCall(plan, k, n)
         /\ \A x \in DOMAIN aliases : aliases[x] \notin DOMAIN aliases
<1>1. /\ \A n \in Met : n \in ToSet(kept) \/ n.id \in DOMAIN aliases
      /\ DOMAIN aliases \subseteq {n.id : n \in Met}
  BY DEF Dedup
<1>2. /\ \A k \in ToSet(kept) : k.id \notin DOMAIN aliases
      /\ \A n \in Met : n.id \in DOMAIN aliases =>
           \E k \in ToSet(kept) : k.id = aliases[n.id] /\ SameCall(plan, k, n)
  BY DEF Dedup
<1>3. \A n \in Met : \E k \in ToSet(kept) : k.id = Survivor(n.id) /\ SameCall(plan, k, n)
  BY <1>1, <1>2 DEF Survivor, SameCall
<1>4. \A x \in DOMAIN aliases : aliases[x] \notin DOMAIN aliases
  BY <1>1, <1>2
<1> QED
  BY <1>3, <1>4

LEMMA RewriteKeepsInv ==
  ASSUME CompileInv, Rewrite
  PROVE  CompileInv'
<1>1. /\ phase = "dedup" /\ ~(cursor <= Len(plan.nodes)) /\ UNCHANGED <<submitted, aliases, kept>>
      /\ phase' \in {"spinning", "validate"}
  <2>1. phase = "dedup" /\ cursor > Len(plan.nodes) /\ UNCHANGED <<submitted, aliases, kept>>
        /\ phase' \in {"spinning", "validate"}
    BY DEF Rewrite
  <2>2. cursor \in Nat /\ Len(plan.nodes) \in Nat
    BY <2>1 DEF CompileInv, Dedup, PlanShape
  <2> QED
    BY <2>1, <2>2
<1>2. Dedup /\ PlanShape(plan) /\ PlanShape(submitted)
  BY <1>1 DEF CompileInv
<1>3. /\ plan = submitted /\ kept \in Seq(Nodes(plan)) /\ DOMAIN aliases \subseteq {n.id : n \in Met}
      /\ cursor \in 1..(Len(plan.nodes) + 1) /\ \A n \in Nodes(plan) : SourceNode(n)
  BY <1>2 DEF Dedup
<1>4. Met = Nodes(plan)
  <2>1. Len(plan.nodes) \in Nat /\ DOMAIN plan.nodes = 1..Len(plan.nodes)
    BY <1>2 DEF PlanShape
  <2>2. cursor - 1 = Len(plan.nodes)
    BY <1>1, <1>3, <2>1
  <2> QED
    BY <2>1, <2>2 DEF Met, Nodes, ToSet
<1>5. \A k \in ToSet(kept) : k \in Nodes(plan) /\ NodeShape(k) /\ k.depends_on \in Seq(Nat)
  BY <1>3, SeqOfMembers DEF SourceNode
<1>6. CASE phase' = "spinning"
  <2>1. plan' = plan
    BY <1>6 DEF Rewrite
  <2> QED
    BY <1>1, <1>2, <1>6, <2>1 DEF CompileInv, Waiting, Unpruned, Graphed
<1>7. CASE phase' = "validate"
  <2> DEFINE merged == aliases # <<>>
             made(k) == IF merged THEN RewriteNodeAliases(k) ELSE k
             q == [i \in DOMAIN kept |-> made(kept[i])]
             outputs == IF merged THEN {RewriteRef(id) : id \in plan.outputs} ELSE plan.outputs
  <2>1. DOMAIN kept = 1..Len(kept) /\ Len(kept) \in Nat
    BY <1>3
  <2>2. \A k \in ToSet(kept) : /\ NodeShape(made(k)) /\ made(k).id = k.id /\ made(k).tool = k.tool
                               /\ made(k).input.path = k.input.path
    <3> SUFFICES ASSUME NEW k \in ToSet(kept), merged
                 PROVE  LET r == RewriteNodeAliases(k)
                        IN  NodeShape(r) /\ r.id = k.id /\ r.tool = k.tool /\ r.input.path = k.input.path
      BY <1>5
    <3>1. PICK d, e, f, g : RewriteNodeAliases(k) =
            [id |-> k.id, tool |-> k.tool, input |-> [path |-> k.input.path, refs |-> g],
             depends_on |-> d, for_each |-> e, when |-> f]
      BY <1>5, RewrittenNode
    <3>2. k.id \in Nat \ {0}
      BY <1>5 DEF NodeShape
    <3> QED
      BY <3>1, <3>2 DEF NodeShape
  <2>3. plan' = [version |-> plan.version, tools |-> plan.tools, nodes |-> q, outputs |-> outputs]
    <3>1. \A a, b : /\ [plan EXCEPT !.nodes = a] =
                         [version |-> plan.version, tools |-> plan.tools, nodes |-> a, outputs |-> plan.outputs]
                    /\ [[plan EXCEPT !.nodes = kept] EXCEPT !.nodes = a, !.outputs = b] =
                         [version |-> plan.version, tools |-> plan.tools, nodes |-> a, outputs |-> b]
      <4>1. plan = [version |-> plan.version, tools |-> plan.tools, nodes |-> plan.nodes,
                    outputs |-> plan.outputs]
        BY <1>2 DEF PlanShape
      <4>2. \A a : [plan EXCEPT !.nodes = a] =
                     [version |-> plan.version, tools |-> plan.tools, nodes |-> a, outputs |-> plan.outputs]
        BY <4>1
      <4>3. PICK r : r = [plan EXCEPT !.nodes = kept]
        OBVIOUS
      <4>4. r = [version |-> plan.version, tools |-> plan.tools, nodes |-> kept, outputs |-> plan.outputs]
        BY <4>2, <4>3
      <4>5. \A a, b : [r EXCEPT !.nodes = a, !.outputs = b] =
                        [version |-> plan.version, tools |-> plan.tools, nodes |-> a, outputs |-> b]
        <5> TAKE a, b
        <5>1. PICK s : s = [r EXCEPT !.nodes = a]
          OBVIOUS
        <5>2. s = [version |-> plan.version, tools |-> plan.tools, nodes |-> a, outputs |-> plan.outputs]
          BY <4>4, <5>1
        <5>3. [s EXCEPT !.outputs = b] =
                [version |-> plan.version, tools |-> plan.tools, nodes |-> a, outputs |-> b]
          BY <5>2
        <5>4. [r EXCEPT !.nodes = a, !.outputs = b] = [s EXCEPT !.outputs = b]
          BY <5>1
        <5> QED
          BY <5>3, <5>4
      <4> QED
        BY <4>2, <4>3, <4>5
    <3>2. CASE merged
      <4>1. plan' = [[plan EXCEPT !.nodes = kept] EXCEPT
                       !.nodes = [i \in DOMAIN kept |-> RewriteNodeAliases(kept[i])],
                       !.outputs = {RewriteRef(id) : id \in [plan EXCEPT !.nodes = kept].outputs}]
        BY <1>7, <3>2 DEF Rewrite
      <4>2. [plan EXCEPT !.nodes = kept].outputs = plan.outputs
        BY <3>1
      <4>3. q = [i \in DOMAIN kept |-> RewriteNodeAliases(kept[i])]
            /\ outputs = {RewriteRef(id) : id \in plan.outputs}
        BY <3>2
      <4> HIDE DEF q, outputs
      <4> QED
        BY <3>1, <4>1, <4>2, <4>3
    <3>3. CASE ~merged
      <4>1. plan' = [plan EXCEPT !.nodes = kept]
        BY <1>7, <3>3 DEF Rewrite
      <4>2. q = kept /\ outputs = plan.outputs
        <5>1. q = [i \in DOMAIN kept |-> kept[i]]
          BY <3>3
        <5> QED
          BY <1>3, <3>3, <5>1
      <4> HIDE DEF q, outputs
      <4> QED
        BY <3>1, <4>1, <4>2
    <3> QED
      BY <3>2, <3>3
  <2> HIDE DEF outputs
  <2>4. \A i \in 1..Len(kept) : q[i] = made(kept[i]) /\ kept[i] \in ToSet(kept)
    <3> HIDE DEF made
    <3> QED
      BY <2>1 DEF ToSet
  <2>5. \A m \in ToSet(q) : \E k \in ToSet(kept) : m = made(k)
    <3> HIDE DEF made
    <3>1. DOMAIN q = DOMAIN kept
      OBVIOUS
    <3> HIDE DEF q
    <3> QED
      BY <2>1, <2>4, <3>1 DEF ToSet
  <2>6. \A k \in ToSet(kept) : made(k) \in ToSet(q)
    <3> HIDE DEF made
    <3>1. DOMAIN q = DOMAIN kept
      OBVIOUS
    <3> HIDE DEF q
    <3> QED
      BY <2>1, <2>4, <3>1 DEF ToSet
  <2>7. PlanShape(plan')
    <3>1. q \in Seq(ToSet(q)) /\ \A m \in ToSet(q) : NodeShape(m)
      <4>1. q = [i \in 1..Len(kept) |-> q[i]]
        BY <2>1
      <4>2. \A i \in 1..Len(kept) : NodeShape(q[i])
        BY <2>2, <2>4
      <4> HIDE DEF q, made
      <4> QED
        BY <2>1, <4>1, <4>2, ListOfNodes
    <3> HIDE DEF q
    <3> QED
      BY <1>2, <2>3, <3>1 DEF PlanShape, Nodes
  <2> HIDE DEF q
  <2>8. plan'.tools = submitted'.tools /\ plan'.outputs = outputs /\ Nodes(plan') = ToSet(q)
    BY <1>1, <1>3, <2>3 DEF Nodes
  <2>9. ASSUME DistinctIds PROVE Meaning'
    <3>1. /\ \A n \in Nodes(plan) : \E k \in ToSet(kept) : k.id = Survivor(n.id) /\ SameCall(plan, k, n)
          /\ \A x \in DOMAIN aliases : aliases[x] \notin DOMAIN aliases
      BY <1>2, <1>4, <2>9, Survivors
    <3>2. \A id : CanonicalNode(id) = Survivor(id) /\ RewriteRef(id) = Survivor(id)
      <4>1. IsFiniteSet(DOMAIN aliases)
        <5>1. DOMAIN aliases \subseteq Ids(plan)
          BY <1>3, <1>4 DEF Ids
        <5> QED
          BY <1>2, <5>1, IdsFinite, FS_Subset
      <4>2. 0 \notin DOMAIN aliases
        <5>1. \A n \in Nodes(plan) : n.id # 0
          BY <1>2 DEF PlanShape, NodeShape
        <5> QED
          BY <1>3, <1>4, <5>1
      <4>3. \A id : CanonicalNode(id) = Survivor(id)
        BY <3>1, <4>1, CanonicalIs
      <4> QED
        BY <4>2, <4>3 DEF RewriteRef, Survivor
    <3>20. \A x \in Nat : Survivor(x) \in Nat
      <4>1. \A k \in ToSet(kept) : k.id \in Nat
        BY <1>5 DEF NodeShape
      <4> QED
        BY <1>3, <1>4, <3>1, <4>1 DEF Survivor
    <3>3. ~merged => \A id : Survivor(id) = id
      BY DEF Survivor
    <3>4. \A id : Survivor(id)' = Survivor(id)
      BY <1>1 DEF Survivor
    <3>5. plan'.outputs = {Survivor(id) : id \in submitted.outputs}
      <4>1. CASE merged
        BY <1>3, <2>8, <3>2, <4>1 DEF outputs
      <4>2. CASE ~merged
        BY <1>3, <2>8, <3>3, <4>2 DEF outputs
      <4> QED
        BY <4>1, <4>2
    <3>6. ASSUME NEW k \in ToSet(kept)
          PROVE  /\ made(k).input.refs = {Survivor(id) : id \in k.input.refs}
                 /\ made(k).for_each = Survivor(k.for_each) /\ made(k).when = Survivor(k.when)
                 /\ ToSet(made(k).depends_on) = {Survivor(x) : x \in ToSet(k.depends_on)}
      <4>1. CASE merged
        <5> DEFINE C == {CanonicalNode(x) : x \in ToSet(k.depends_on)}
        <5>1. made(k) =
                [id |-> k.id, tool |-> k.tool,
                 input |-> [path |-> k.input.path, refs |-> {RewriteRef(id) : id \in k.input.refs}],
                 depends_on |-> Sorted(C), for_each |-> RewriteRef(k.for_each), when |-> RewriteRef(k.when)]
          BY <1>5, <4>1, RewrittenNode
        <5>2. C = {Survivor(x) : x \in ToSet(k.depends_on)}
          BY <3>2
        <5>3. C \in SUBSET Nat /\ IsFiniteSet(C)
          <6>1. ToSet(k.depends_on) \subseteq Nat /\ IsFiniteSet(ToSet(k.depends_on))
            BY <1>5, SeqOfMembers, MembersFinite
          <6>2. PICK D : D = ToSet(k.depends_on)
            OBVIOUS
          <6>3. C = {Survivor(x) : x \in D}
            BY <5>2, <6>2
          <6> HIDE DEF C
          <6>4. [x \in D |-> Survivor(x)] \in Surjection(D, C)
            BY <6>3 DEF Surjection
          <6> QED
            BY <3>20, <6>1, <6>2, <6>3, <6>4, FS_Surjection
        <5> HIDE DEF made, C
        <5>4. /\ made(k).input.refs = {RewriteRef(id) : id \in k.input.refs}
              /\ made(k).for_each = RewriteRef(k.for_each) /\ made(k).when = RewriteRef(k.when)
              /\ made(k).depends_on = Sorted(C)
          BY <5>1
        <5>5. ToSet(made(k).depends_on) = C
          BY <5>3, <5>4, SortedIs
        <5> QED
          BY <3>2, <5>2, <5>4, <5>5
      <4>2. CASE ~merged
        BY <3>3, <4>2
      <4> QED
        BY <4>1, <4>2
    <3>7. ASSUME NEW n \in Nodes(submitted)
          PROVE  /\ \A m \in Nodes(plan') : m.id = Survivor(n.id) => StandsFor(m, n)
                 /\ Survivor(n.id) \in Ids(plan') /\ Survivor(n.id) # 0
      <4>1. PICK k \in ToSet(kept) : k.id = Survivor(n.id) /\ SameCall(plan, k, n)
        BY <1>3, <3>1
      <4>2. Survivor(n.id) \in Ids(plan')
        BY <2>2, <2>6, <2>8, <4>1 DEF Ids
      <4>3. ASSUME NEW m \in Nodes(plan'), m.id = Survivor(n.id) PROVE StandsFor(m, n)
        <5>1. PICK j \in ToSet(kept) : m = made(j)
          BY <2>5, <2>8
        <5>2. j.id = k.id /\ m.tool = j.tool /\ m.input.path = j.input.path
          BY <2>2, <4>1, <4>3, <5>1
        <5>3. j = k
          BY <1>2, <1>3, <1>5, <2>9, <5>2, DistinctNames
        <5>4. /\ m.input.refs = {Survivor(id) : id \in k.input.refs}
              /\ m.for_each = Survivor(k.for_each) /\ m.when = Survivor(k.when)
              /\ ToSet(m.depends_on) = {Survivor(x) : x \in ToSet(k.depends_on)}
          BY <3>6, <5>1, <5>3
        <5> QED
          BY <1>3, <4>1, <5>2, <5>3, <5>4 DEF StandsFor, SameCall
      <4>4. Survivor(n.id) # 0
        BY <1>5, <4>1 DEF NodeShape
      <4> QED
        BY <4>2, <4>3, <4>4
    <3>8. \A m, n : StandsFor(m, n)' <=> StandsFor(m, n)
      BY <1>1 DEF StandsFor, Survivor
    <3> QED
      BY <1>1, <3>4, <3>5, <3>7, <3>8 DEF Meaning
  <2>10. DistinctIds' = DistinctIds
    BY <1>1 DEF DistinctIds
  <2> QED
    BY <1>1, <1>2, <1>7, <2>7, <2>8, <2>9, <2>10 DEF CompileInv, Waiting, Unpruned, Graphed
<1> QED
  BY <1>1, <1>6, <1>7

\* A plan that passes the checks of validate.
LEMMA CheckedPlan ==
  ASSUME NEW p, GraphError(p) = ""
  PROVE  /\ \A i, j \in DOMAIN p.nodes : p.nodes[i].id = p.nodes[j].id => i = j
         /\ \A n \in Nodes(p) : n.tool \in DOMAIN p.tools /\ Wanted(n) \subseteq Ids(p)
         /\ p.outputs \subseteq Ids(p)
BY Zenon DEF GraphError

\* The graph validate builds is the plan's.
LEMMA GraphBuilt ==
  ASSUME NEW p, GraphError(p) = ""
  PROVE  /\ DependenciesOf(p) \in [Ids(p) -> SUBSET Ids(p)]
         /\ DOMAIN EffectsOfNodes(p) = Ids(p)
         /\ \A n \in Nodes(p) : /\ DependenciesOf(p)[n.id] = Wanted(n)
                                /\ EffectsOfNodes(p)[n.id] = Resolved(p, n)
<1>1. \A id \in Ids(p) : NodeOf(p, id) \in Nodes(p) /\ NodeOf(p, id).id = id
  BY DEF NodeOf, Ids
<1>2. \A m, n \in Nodes(p) : m.id = n.id => m = n
  BY CheckedPlan DEF Nodes, ToSet
<1>3. \A n \in Nodes(p) : n.id \in Ids(p) /\ NodeOf(p, n.id) = n
  <2>1. \A n \in Nodes(p) : n.id \in Ids(p)
    BY DEF Ids
  <2> QED
    BY <1>1, <1>2, <2>1
<1>4. \A id \in Ids(p) : Wanted(NodeOf(p, id)) \in SUBSET Ids(p)
  BY <1>1, CheckedPlan
<1>5. DependenciesOf(p) \in [Ids(p) -> SUBSET Ids(p)]
  BY <1>4 DEF DependenciesOf
<1> QED
  BY <1>3, <1>5 DEF DependenciesOf, EffectsOfNodes

LEMMA ValidateKeepsInv ==
  ASSUME CompileInv, Validate
  PROVE  CompileInv'
<1>1. /\ phase = "validate" /\ UNCHANGED <<plan, submitted, aliases>>
      /\ \/ phase' = "rejected"
         \/ /\ GraphError(plan) = "" /\ phase' = "layers"
            /\ dependencies' = DependenciesOf(plan) /\ effects' = EffectsOfNodes(plan)
  BY Zenon DEF Validate, SafeLayers, compileVars
<1>2. /\ PlanShape(plan) /\ PlanShape(submitted)
      /\ plan.tools = submitted.tools /\ (DistinctIds => Meaning)
  BY <1>1 DEF CompileInv, Unpruned
<1>3. CASE phase' = "rejected"
  BY <1>1, <1>2, <1>3 DEF CompileInv, Waiting, Unpruned, Graphed
<1>4. CASE phase' # "rejected"
  <2>1. /\ dependencies' \in [Ids(plan) -> SUBSET Ids(plan)] /\ DOMAIN effects' = Ids(plan)
        /\ \A n \in Nodes(plan) : dependencies'[n.id] = Wanted(n) /\ effects'[n.id] = Resolved(plan, n)
    BY <1>1, <1>4, GraphBuilt
  <2>2. /\ plan.outputs \subseteq Ids(plan)
        /\ \A n \in Nodes(plan) : n.tool \in DOMAIN plan.tools
    BY <1>1, <1>4, CheckedPlan
  <2>3. GraphOfPlan'
    <3>1. plan' = plan
      BY <1>1
    <3>2. dependencies' \in [Ids(plan') -> SUBSET Ids(plan')] /\ DOMAIN effects' = Ids(plan')
      BY <2>1, <3>1
    <3>3. ASSUME NEW n \in Nodes(plan')
          PROVE  /\ Wanted(n) = dependencies'[n.id] /\ effects'[n.id] = Resolved(plan', n)
                 /\ n.tool \in DOMAIN plan'.tools
      BY <2>1, <2>2, <3>1
    <3> QED
      BY <2>2, <3>1, <3>2, <3>3 DEF GraphOfPlan
  <2>4. phase \in Unpruned /\ phase' \in Unpruned /\ phase' = "layers"
    BY <1>1, <1>4 DEF Unpruned
  <2>5. UNCHANGED <<plan, submitted, aliases>>
    BY <1>1
  <2>6. DistinctIds' => Meaning'
    <3>1. (DistinctIds' <=> DistinctIds) /\ (DistinctIds => Meaning)
      BY <1>2, <2>5 DEF DistinctIds
    <3>2. Meaning => Meaning'
      BY <2>4, <2>5 DEF Meaning, StandsFor, Survivor
    <3> QED
      BY <3>1, <3>2
  <2> QED
    BY <1>2, <2>3, <2>4, <2>5, <2>6 DEF CompileInv, Waiting
<1> QED
  BY <1>3, <1>4

\* Steps that leave the plan and its graph alone.
LEMMA StillKeepsInv ==
  ASSUME CompileInv, UNCHANGED <<plan, submitted, aliases, dependencies, effects>>,
         phase \in Graphed, phase' \in Graphed \cup {"rejected"}, phase' \in Unpruned => phase \in Unpruned
  PROVE  CompileInv'
<1>1. /\ PlanShape(plan) /\ PlanShape(submitted) /\ GraphOfPlan
      /\ plan.tools = submitted.tools /\ (DistinctIds => Meaning)
  BY DEF CompileInv
<1>2. GraphOfPlan'
  BY <1>1 DEF GraphOfPlan
<1>3. DistinctIds' => Meaning'
  BY <1>1 DEF DistinctIds, Meaning, StandsFor, Survivor
<1>4. phase' \notin {"source", "submitted", "dedup"}
  BY DEF Graphed
<1> QED
  BY <1>1, <1>2, <1>3, <1>4 DEF CompileInv, Waiting

\* The effects of a node depend on the tools of the plan alone, and whether
\* they are pure on its tool.
LEMMA ResolvedSame ==
  ASSUME NEW p, NEW q, p.tools = q.tools, NEW n
  PROVE  Resolved(p, n) = Resolved(q, n)
BY DEF Resolved, EffectsOf

LEMMA ResolvedIs ==
  ASSUME NEW p, NEW n, p.tools[n.tool] \in ToolSpecs
  PROVE  LET e == IF EffectsOf(p, n.tool) = None THEN Vacuous ELSE EffectsOf(p, n.tool)
         IN  /\ e.pure \in BOOLEAN /\ e.commutative \in BOOLEAN
             /\ Resolved(p, n).pure = e.pure /\ Resolved(p, n).commutative = e.commutative
             /\ Resolved(p, n).declared \in BOOLEAN
             /\ Resolved(p, n).writes = {ResolveTemplate(t, n.input) : t \in e.writes}
<1> DEFINE e == IF EffectsOf(p, n.tool) = None THEN Vacuous ELSE EffectsOf(p, n.tool)
           reads == {ResolveTemplate(t, n.input) : t \in e.reads}
           writes == {ResolveTemplate(t, n.input) : t \in e.writes}
<1>1. Resolved(p, n) = ForNode(n.tool, [e EXCEPT !.reads = reads, !.writes = writes])
  BY DEF Resolved
<1>2. /\ e = [pure |-> e.pure, cacheable |-> e.cacheable, batchable |-> e.batchable,
              commutative |-> e.commutative, reads |-> e.reads, writes |-> e.writes]
      /\ e.pure \in BOOLEAN /\ e.commutative \in BOOLEAN
  <2>1. EffectsOf(p, n.tool) # None => EffectsOf(p, n.tool) \in Declarations
    BY DEF EffectsOf, ToolSpecs
  <2>2. CASE EffectsOf(p, n.tool) = None
    <3>1. e = Vacuous
      BY <2>2
    <3> HIDE DEF e
    <3> QED
      BY <3>1 DEF Vacuous
  <2>3. CASE EffectsOf(p, n.tool) # None
    <3>1. e = EffectsOf(p, n.tool)
      BY <2>3
    <3> HIDE DEF e
    <3> QED
      BY <2>1, <2>3, <3>1 DEF Declarations
  <2> QED
    BY <2>2, <2>3
<1> HIDE DEF e
<1>3. ASSUME NEW r, NEW w
      PROVE  /\ [e EXCEPT !.reads = r, !.writes = w].pure = e.pure
             /\ [e EXCEPT !.reads = r, !.writes = w].commutative = e.commutative
             /\ [e EXCEPT !.reads = r, !.writes = w].writes = w
  <2>1. PICK f : f = [e EXCEPT !.reads = r]
    OBVIOUS
  <2>2. f = [pure |-> e.pure, cacheable |-> e.cacheable, batchable |-> e.batchable,
             commutative |-> e.commutative, reads |-> r, writes |-> e.writes]
    BY <1>2, <2>1
  <2>3. /\ [f EXCEPT !.writes = w].pure = e.pure
        /\ [f EXCEPT !.writes = w].commutative = e.commutative
        /\ [f EXCEPT !.writes = w].writes = w
    BY <2>2
  <2>4. [e EXCEPT !.reads = r, !.writes = w] = [f EXCEPT !.writes = w]
    BY <2>1
  <2> QED
    BY <2>3, <2>4
<1>4. ASSUME NEW f
      PROVE  /\ ForNode(n.tool, f).pure = f.pure
             /\ ForNode(n.tool, f).commutative = f.commutative
             /\ ForNode(n.tool, f).writes = f.writes
             /\ ForNode(n.tool, f).declared \in BOOLEAN
  BY DEF ForNode, DeclaresSideEffects
<1> HIDE DEF reads, writes
<1>5. /\ Resolved(p, n).pure = e.pure /\ Resolved(p, n).commutative = e.commutative
      /\ Resolved(p, n).declared \in BOOLEAN
      /\ Resolved(p, n).writes = writes
  <2>1. PICK f : f = [e EXCEPT !.reads = reads, !.writes = writes]
    OBVIOUS
  <2>2. Resolved(p, n) = ForNode(n.tool, f)
    BY <1>1, <2>1, Zenon
  <2>3. f.pure = e.pure /\ f.commutative = e.commutative /\ f.writes = writes
    BY <1>3, <2>1, Zenon
  <2> QED
    BY <1>4, <2>2, <2>3, Zenon
<1>6. writes = {ResolveTemplate(t, n.input) : t \in e.writes}
  BY DEF writes
<1> QED
  BY <1>2, <1>5, <1>6, Zenon DEF e

LEMMA ResolvedPure ==
  ASSUME NEW p, NEW n, p.tools[n.tool] \in ToolSpecs
  PROVE  Resolved(p, n).pure = (IF EffectsOf(p, n.tool) = None THEN FALSE ELSE EffectsOf(p, n.tool).pure)
<1>1. Vacuous.pure = FALSE
  BY DEF Vacuous
<1>2. Resolved(p, n).pure = (IF EffectsOf(p, n.tool) = None THEN Vacuous ELSE EffectsOf(p, n.tool)).pure
  BY ResolvedIs, Zenon
<1> QED
  BY <1>1, <1>2

\* What validate lets through: a declaration that is not contradictory
\* resolves to effects that are not.
LEMMA ResolvedSound ==
  ASSUME NEW p, NEW n, p.tools[n.tool] \in ToolSpecs,
         EffectsOf(p, n.tool) # None => ~IsContradictory(EffectsOf(p, n.tool))
  PROVE  IsResolvedEffects(Resolved(p, n)) /\ ~IsContradictory(Resolved(p, n))
<1>1. PICK e : e = IF EffectsOf(p, n.tool) = None THEN Vacuous ELSE EffectsOf(p, n.tool)
  OBVIOUS
<1>2. /\ e.pure \in BOOLEAN /\ e.commutative \in BOOLEAN
      /\ Resolved(p, n).pure = e.pure /\ Resolved(p, n).commutative = e.commutative
      /\ Resolved(p, n).declared \in BOOLEAN
      /\ Resolved(p, n).writes = {ResolveTemplate(t, n.input) : t \in e.writes}
  BY <1>1, ResolvedIs, Zenon
<1>3. ~e.pure \/ e.writes = {}
  <2>1. Vacuous.writes = {}
    BY DEF Vacuous
  <2> QED
    BY <1>1, <2>1 DEF IsContradictory
<1>4. e.writes = {} => {ResolveTemplate(t, n.input) : t \in e.writes} = {}
  OBVIOUS
<1> QED
  BY <1>2, <1>3, <1>4 DEF IsResolvedEffects, IsContradictory

\* The live nodes: every output, every node with effects, and what they need.
LEMMA LiveIs ==
  ASSUME PlanShape(plan), GraphOfPlan
  PROVE  LET live == Live(plan)
         IN  /\ live \subseteq Ids(plan) /\ plan.outputs \subseteq live
             /\ \A id \in Ids(plan) : ~effects[id].pure => id \in live
             /\ \A id \in live : dependencies[id] \subseteq live
<1>1. /\ dependencies \in [Ids(plan) -> SUBSET Ids(plan)] /\ DOMAIN effects = Ids(plan)
      /\ plan.outputs \subseteq Ids(plan)
  BY DEF GraphOfPlan
<1>2. CASE plan.outputs = {}
  BY <1>1, <1>2 DEF Live
<1>3. CASE plan.outputs # {}
  <2>1. Live(plan) = Upstream(dependencies, Roots(plan))
    BY <1>3 DEF Live
  <2>2. Roots(plan) \in SUBSET Ids(plan)
    BY <1>1 DEF Roots
  <2>3. /\ Roots(plan) \subseteq Live(plan) /\ Live(plan) \subseteq Ids(plan)
        /\ \A id \in Live(plan) : dependencies[id] \subseteq Live(plan)
    BY <1>1, <2>1, <2>2, IdsFinite, UpstreamClosed
  <2> QED
    BY <1>1, <2>3 DEF Roots
<1> QED
  BY <1>2, <1>3

LEMMA EliminateKeepsInv ==
  ASSUME CompileInv, EliminateDeadNodes
  PROVE  CompileInv'
<1> DEFINE live == Live(plan)
<1>1. /\ phase = "dce" /\ UNCHANGED <<submitted, aliases>>
      /\ plan' = [plan EXCEPT !.nodes = Retain(plan.nodes, live)]
      /\ \/ phase' = "batch" /\ live = Ids(plan) /\ UNCHANGED <<dependencies, effects>>
         \/ /\ phase' = "relayers"
            /\ dependencies' = Restrict(dependencies, DOMAIN dependencies \cap live)
            /\ effects' = Restrict(effects, DOMAIN effects \cap live)
  BY DEF EliminateDeadNodes, SafeLayers, layerVars
<1>2. /\ PlanShape(plan) /\ PlanShape(submitted) /\ GraphOfPlan
      /\ plan.tools = submitted.tools /\ (DistinctIds => Meaning)
  BY <1>1 DEF CompileInv, Graphed, Unpruned
<1>3. /\ live \subseteq Ids(plan) /\ plan.outputs \subseteq live
      /\ \A id \in Ids(plan) : ~effects[id].pure => id \in live
      /\ \A id \in live : dependencies[id] \subseteq live
  BY <1>2, LiveIs
<1> HIDE DEF live
<1> DEFINE q == Retain(plan.nodes, live)
<1>4. /\ q \in Seq(Nodes(plan))
      /\ \A n : n \in ToSet(q) <=> n \in Nodes(plan) /\ n.id \in live
  BY <1>2, RetainIs DEF PlanShape, Nodes
<1> HIDE DEF q
<1>5. plan' = [version |-> plan.version, tools |-> plan.tools, nodes |-> q, outputs |-> plan.outputs]
  <2>1. plan = [version |-> plan.version, tools |-> plan.tools, nodes |-> plan.nodes,
                outputs |-> plan.outputs]
    BY <1>2 DEF PlanShape
  <2> QED
    BY <1>1, <2>1 DEF q
<1>6. /\ plan'.tools = plan.tools /\ plan'.nodes = q /\ plan'.outputs = plan.outputs
      /\ Nodes(plan') = ToSet(q)
  BY <1>5 DEF Nodes
<1>7. PlanShape(plan')
  <2>1. q \in Seq(ToSet(q))
    BY <1>4, SeqOfMembers
  <2> QED
    BY <1>2, <1>4, <1>5, <1>6, <2>1 DEF PlanShape
<1>8. Ids(plan') = live
  <2>1. \A id \in live : \E n \in Nodes(plan) : n.id = id
    BY <1>3 DEF Ids
  <2> QED
    BY <1>4, <1>6, <2>1 DEF Ids
<1>9. /\ DOMAIN dependencies' = live /\ DOMAIN effects' = live
      /\ \A id \in live : dependencies'[id] = dependencies[id] /\ effects'[id] = effects[id]
      /\ dependencies' = [id \in live |-> dependencies'[id]]
  <2>1. /\ dependencies \in [Ids(plan) -> SUBSET Ids(plan)] /\ DOMAIN effects = Ids(plan)
    BY <1>2 DEF GraphOfPlan
  <2>2. CASE live = Ids(plan) /\ UNCHANGED <<dependencies, effects>>
    BY <2>1, <2>2
  <2>3. CASE /\ dependencies' = Restrict(dependencies, DOMAIN dependencies \cap live)
             /\ effects' = Restrict(effects, DOMAIN effects \cap live)
    <3>1. DOMAIN dependencies \cap live = live /\ DOMAIN effects \cap live = live
      BY <1>3, <2>1
    <3>2. dependencies' = [x \in live |-> dependencies[x]] /\ effects' = [x \in live |-> effects[x]]
      BY <2>3, <3>1 DEF Restrict
    <3> QED
      BY <3>2
  <2> QED
    BY <1>1, <2>2, <2>3
<1>10. GraphOfPlan'
  <2>1. dependencies' \in [live -> SUBSET live]
    BY <1>3, <1>9
  <2>2. \A n \in Nodes(plan') : /\ Wanted(n) = dependencies'[n.id]
                                /\ effects'[n.id] = Resolved(plan', n)
                                /\ n.tool \in DOMAIN plan'.tools
    <3> SUFFICES ASSUME NEW n \in Nodes(plan')
                 PROVE  /\ Wanted(n) = dependencies'[n.id]
                        /\ effects'[n.id] = Resolved(plan', n)
                        /\ n.tool \in DOMAIN plan'.tools
      OBVIOUS
    <3>1. n \in Nodes(plan) /\ n.id \in live
      BY <1>4, <1>6
    <3>2. /\ Wanted(n) = dependencies[n.id] /\ effects[n.id] = Resolved(plan, n)
          /\ n.tool \in DOMAIN plan.tools
      BY <1>2, <3>1 DEF GraphOfPlan
    <3>3. Resolved(plan', n) = Resolved(plan, n)
      BY <1>6, ResolvedSame
    <3> QED
      BY <1>6, <1>9, <3>1, <3>2, <3>3
  <2> QED
    BY <1>3, <1>6, <1>8, <1>9, <2>1, <2>2 DEF GraphOfPlan
<1>11. ASSUME DistinctIds PROVE Meaning'
  <2>1. \A id : Survivor(id)' = Survivor(id)
    BY <1>1 DEF Survivor
  <2>2. \A m, n : StandsFor(m, n)' <=> StandsFor(m, n)
    BY <1>1 DEF StandsFor, Survivor
  <2>3. plan.outputs = {Survivor(id) : id \in submitted.outputs}
    BY <1>2, <1>11 DEF Meaning
  <2>4. ASSUME NEW n \in Nodes(submitted)
        PROVE  /\ \A k \in Nodes(plan') : k.id = Survivor(n.id) => StandsFor(k, n)
               /\ Survivor(n.id) \in Ids(plan') \/ Resolved(submitted, n).pure
               /\ Survivor(n.id) # 0
    <3>1. /\ \A k \in Nodes(plan) : k.id = Survivor(n.id) => StandsFor(k, n)
          /\ Survivor(n.id) \in Ids(plan) /\ Survivor(n.id) # 0
      BY <1>1, <1>2, <1>11, <2>4 DEF Meaning, Unpruned
    <3>2. \A k \in Nodes(plan') : k \in Nodes(plan)
      BY <1>4, <1>6
    <3>3. ASSUME Survivor(n.id) \notin live PROVE Resolved(submitted, n).pure
      <4>1. PICK k \in Nodes(plan) : k.id = Survivor(n.id)
        BY <3>1 DEF Ids
      <4>2. k.tool = n.tool
        BY <3>1, <4>1 DEF StandsFor
      <4>3. effects[k.id] = Resolved(plan, k) /\ k.tool \in DOMAIN plan.tools
        BY <1>2, <4>1 DEF GraphOfPlan
      <4>4. effects[k.id].pure
        BY <1>3, <3>1, <3>3, <4>1
      <4>5. plan.tools[k.tool] \in ToolSpecs /\ submitted.tools[n.tool] \in ToolSpecs
        BY <1>2, <4>2, <4>3 DEF PlanShape
      <4>6. Resolved(plan, k).pure = Resolved(submitted, n).pure
        <5>1. EffectsOf(plan, k.tool) = EffectsOf(submitted, n.tool)
          BY <1>2, <4>2 DEF EffectsOf
        <5> QED
          BY <4>5, <5>1, ResolvedPure, Zenon
      <4> QED
        BY <4>3, <4>4, <4>6, Zenon
    <3> QED
      BY <1>8, <3>1, <3>2, <3>3
  <2>5. phase' \notin Unpruned
    BY <1>1 DEF Unpruned
  <2> QED
    BY <1>1, <1>6, <2>1, <2>2, <2>3, <2>4, <2>5 DEF Meaning
<1>12. DistinctIds' = DistinctIds
  BY <1>1 DEF DistinctIds
<1>13. phase' \notin {"source", "submitted", "dedup"}
  BY <1>1
<1> QED
  BY <1>1, <1>2, <1>6, <1>7, <1>10, <1>11, <1>12, <1>13 DEF CompileInv, Waiting

LEMMA CompileInvNext == CompileInv /\ [PlannerNext]_plannerVars => CompileInv'
<1> SUFFICES ASSUME CompileInv, [PlannerNext]_plannerVars PROVE CompileInv'
  OBVIOUS
<1>1. CASE UNCHANGED plannerVars
  <2>1. UNCHANGED <<phase, plan, submitted, cursor, seen, aliases, kept, dependencies, effects, source>>
    BY <1>1 DEF plannerVars, vars, layerVars
  <2>2. Waiting' = Waiting /\ DistinctIds' = DistinctIds /\ GraphOfPlan' = GraphOfPlan
    BY <2>1 DEF Waiting, DistinctIds, GraphOfPlan
  <2>3. Dedup' = Dedup
    BY <2>1 DEF Dedup, Met, DistinctIds
  <2>4. Meaning' = Meaning
    BY <2>1 DEF Meaning, StandsFor, Survivor
  <2> QED
    BY <2>1, <2>2, <2>3, <2>4 DEF CompileInv
<1>2. CASE Lower
  BY <1>2, LowerKeepsInv
<1>3. CASE Hydrate
  BY <1>3, HydrateKeepsInv
<1>4. CASE DedupNode
  BY <1>4, DedupKeepsInv
<1>5. CASE Rewrite
  BY <1>5, RewriteKeepsInv
<1>6. CASE Validate
  BY <1>6, ValidateKeepsInv
<1>7. CASE EliminateDeadNodes
  BY <1>7, EliminateKeepsInv
<1>8. CASE Build
  <2>1. /\ phase \in {"layers", "relayers"} /\ phase' = phase
        /\ UNCHANGED <<plan, submitted, aliases>>
    BY <1>8 DEF Build, compileVars
  <2>2. UNCHANGED <<dependencies, effects>>
    BY <1>8 DEF Build, BuildLayers, Scan, CloseLayer, EndLayers
  <2>3. phase \in Graphed /\ phase' \in Graphed
    BY <2>1 DEF Graphed
  <2> QED
    BY <2>1, <2>2, <2>3, StillKeepsInv
<1>9. CASE LayersBuilt \/ Summarize \/ MakeUnits \/ Explain
  <2>1. /\ UNCHANGED <<plan, submitted, aliases, dependencies, effects>>
        /\ phase \in {"layers", "relayers", "batch", "engine", "explain"}
        /\ phase' \in {"rejected", "engine", "dce", "batch", "explain", "ready", "explained"}
        /\ phase' = "dce" => phase = "layers"
    BY <1>9 DEF LayersBuilt, Summarize, MakeUnits, Explain, compileVars, layerVars
  <2>2. /\ phase \in Graphed /\ phase' \in Graphed \cup {"rejected"}
        /\ phase' \in Unpruned => phase \in Unpruned
    BY <2>1 DEF Graphed, Unpruned
  <2> QED
    BY <2>1, <2>2, StillKeepsInv
<1>10. CASE Ended /\ UNCHANGED source
  BY <1>1, <1>10 DEF Ended, plannerVars
<1> QED
  BY <1>1, <1>2, <1>3, <1>4, <1>5, <1>6, <1>7, <1>8, <1>9, <1>10 DEF PlannerNext, Next

LEMMA CompileInvAlways == PlannerSpec => []CompileInv
<1>1. PlannerInit => CompileInv
  BY CompileInvInit
<1>2. CompileInv /\ [PlannerNext]_plannerVars => CompileInv'
  BY CompileInvNext
<1> QED
  BY <1>1, <1>2, PTL DEF PlannerSpec

----------------------------------------------------------------------------
(* A compilation builds layers as Layers says: it calls safe_layers with a *)
(* checked graph, when no other call is under way, and only its steps      *)
(* change what it keeps.                                                   *)

\* How far safe_layers is, phase by phase.
BuildPhase ==
  /\ phase \in {"source", "submitted", "dedup", "validate"} => building = "idle"
  /\ phase \in {"dce", "batch", "explain", "engine", "ready", "explained"} => building = "layered"

\* validate hands safe_layers a graph it has checked.
LEMMA ValidateCalls ==
  ASSUME CompileInv, BuildPhase, Validate, phase' # "rejected"
  PROVE  CallSafeLayers /\ phase' = "layers"
<1>1. /\ phase = "validate" /\ phase' = "layers" /\ GraphError(plan) = ""
      /\ SafeLayers(DependenciesOf(plan), EffectsOfNodes(plan))
  BY Zenon DEF Validate
<1>2. dependencies' = DependenciesOf(plan) /\ effects' = EffectsOfNodes(plan)
  BY <1>1 DEF SafeLayers
<1>3. PlanShape(plan)
  BY DEF CompileInv
<1>4. building = "idle"
  BY <1>1 DEF BuildPhase
<1>5. GraphError(plan) = ""
  BY <1>1
<1>6. /\ DependenciesOf(plan) \in [Ids(plan) -> SUBSET Ids(plan)]
      /\ DOMAIN EffectsOfNodes(plan) = Ids(plan)
      /\ \A n \in Nodes(plan) : EffectsOfNodes(plan)[n.id] = Resolved(plan, n)
  BY <1>5, GraphBuilt
<1>7. /\ \A n \in Nodes(plan) : n.tool \in DOMAIN plan.tools
      /\ \A t \in DOMAIN plan.tools :
           EffectsOf(plan, t) # None => ~IsContradictory(EffectsOf(plan, t))
  BY <1>5, Zenon DEF GraphError
<1>8. \A n \in Nodes(plan) : IsResolvedEffects(Resolved(plan, n)) /\ ~IsContradictory(Resolved(plan, n))
  <2> TAKE n \in Nodes(plan)
  <2>1. plan.tools[n.tool] \in ToolSpecs
    BY <1>3, <1>7 DEF PlanShape
  <2> QED
    BY <1>7, <2>1, ResolvedSound
<1>9. IsFiniteSet(Ids(plan)) /\ Ids(plan) \subseteq Nat
  <2>1. \A n \in Nodes(plan) : n.id \in Nat
    BY <1>3 DEF PlanShape, NodeShape
  <2> QED
    BY <1>3, <2>1, IdsFinite DEF Ids
<1>10. \A id \in Ids(plan) : \E n \in Nodes(plan) : n.id = id
  BY DEF Ids
<1>11. /\ dependencies' \in [Ids(plan) -> SUBSET Ids(plan)] /\ DOMAIN dependencies' = Ids(plan)
       /\ DOMAIN effects' = Ids(plan)
  BY <1>2, <1>6
<1>12. \A id \in DOMAIN effects' : IsResolvedEffects(effects'[id]) /\ ~IsContradictory(effects'[id])
  BY <1>2, <1>6, <1>8, <1>10, <1>11
<1>13. SafeLayers(dependencies', effects')
  BY <1>1, <1>2, Zenon
<1> QED
  BY <1>1, <1>4, <1>9, <1>11, <1>12, <1>13, Zenon DEF CallSafeLayers

\* ExecutionGraph::retain hands it the part of the graph that is live.
LEMMA EliminateCalls ==
  ASSUME CompileInv, LayersInv, BuildPhase, EliminateDeadNodes, phase' # "batch"
  PROVE  CallSafeLayers /\ phase' = "relayers"
<1>1. /\ phase = "dce" /\ phase' = "relayers"
      /\ SafeLayers(Restrict(dependencies, DOMAIN dependencies \cap Live(plan)),
                    Restrict(effects, DOMAIN effects \cap Live(plan)))
  BY DEF EliminateDeadNodes
<1>2. /\ dependencies' = Restrict(dependencies, DOMAIN dependencies \cap Live(plan))
      /\ effects' = Restrict(effects, DOMAIN effects \cap Live(plan))
  BY <1>1 DEF SafeLayers
<1>3. PlanShape(plan) /\ GraphOfPlan /\ building = "layered"
  BY <1>1 DEF CompileInv, Graphed, BuildPhase
<1> DEFINE live == Live(plan)
<1>4. live \subseteq Ids(plan) /\ \A id \in live : dependencies[id] \subseteq live
  BY <1>3, LiveIs
<1> HIDE DEF live
<1>5. /\ DOMAIN dependencies = Ids(plan) /\ DOMAIN effects = Ids(plan)
      /\ Ids(plan) \in SUBSET Nat /\ IsFiniteSet(Ids(plan))
      /\ \A n \in Ids(plan) : IsResolvedEffects(effects[n]) /\ ~IsContradictory(effects[n])
  BY <1>3 DEF GraphOfPlan, LayersInv, LayerTypeOK, Graph
<1>6. dependencies' = [x \in live |-> dependencies[x]] /\ effects' = [x \in live |-> effects[x]]
  <2>1. DOMAIN dependencies \cap live = live /\ DOMAIN effects \cap live = live
    BY <1>4, <1>5
  <2> QED
    BY <1>2, <2>1 DEF Restrict, live
<1>7. /\ DOMAIN dependencies' = live /\ DOMAIN effects' = live
      /\ dependencies' \in [live -> SUBSET live]
  BY <1>4, <1>6
<1>8. live \subseteq Nat /\ IsFiniteSet(live)
  BY <1>4, <1>5, FS_Subset
<1>9. \A n \in DOMAIN effects' : IsResolvedEffects(effects'[n]) /\ ~IsContradictory(effects'[n])
  BY <1>4, <1>5, <1>6
<1>10. SafeLayers(dependencies', effects')
  BY <1>1, <1>2, Zenon
<1>11. building # "busy"
  BY <1>3
<1> QED
  BY <1>1, <1>7, <1>8, <1>9, <1>10, <1>11, Zenon DEF CallSafeLayers

\* Every step of a compilation is a step of safe_layers or none.
LEMMA CompileIsLayers ==
  ASSUME CompileInv, LayersInv, BuildPhase, [PlannerNext]_plannerVars
  PROVE  [LayersNext]_layerVars /\ BuildPhase'
<1>1. CASE UNCHANGED plannerVars
  BY <1>1 DEF plannerVars, vars, layerVars, BuildPhase
<1>2. CASE Lower
  <2>1. /\ phase = "source" /\ phase' \in {"rejected", "submitted"} /\ UNCHANGED layerVars
        /\ building' = building
    BY <1>2, Zenon DEF Lower, layerVars
  <2> QED
    BY <2>1 DEF BuildPhase
<1>3. CASE Hydrate \/ DedupNode \/ Rewrite
  <2>1. UNCHANGED layerVars /\ phase \in {"submitted", "dedup"} /\ phase' \in {"validate", "dedup", "spinning"}
    BY <1>3 DEF Hydrate, DedupNode, Rewrite
  <2>2. building' = building
    BY <2>1 DEF layerVars
  <2> QED
    BY <2>1, <2>2 DEF BuildPhase
<1>4. CASE Validate
  <2>1. CASE phase' = "rejected"
    <3>1. UNCHANGED layerVars
      BY <1>4, <2>1, Zenon DEF Validate
    <3> QED
      BY <2>1, <3>1 DEF BuildPhase
  <2>2. CASE phase' # "rejected"
    BY <1>4, <2>2, ValidateCalls DEF BuildPhase, LayersNext
  <2> QED
    BY <2>1, <2>2
<1>5. CASE EliminateDeadNodes
  <2>1. CASE phase' = "batch"
    <3>1. UNCHANGED layerVars /\ phase = "dce"
      BY <1>5, <2>1 DEF EliminateDeadNodes
    <3>2. building' = building
      BY <3>1 DEF layerVars
    <3> QED
      BY <2>1, <3>1, <3>2 DEF BuildPhase
  <2>2. CASE phase' # "batch"
    BY <1>5, <2>2, EliminateCalls DEF BuildPhase, LayersNext
  <2> QED
    BY <2>1, <2>2
<1>6. CASE Build
  BY <1>6 DEF Build, BuildPhase, LayersNext
<1>7. CASE LayersBuilt
  <2>1. /\ UNCHANGED layerVars /\ building' = building
        /\ building \in {"layered", "cycle"}
        /\ phase' # "rejected" => building # "cycle"
        /\ phase' \in {"rejected", "engine", "dce", "batch"}
    BY <1>7 DEF LayersBuilt, layerVars
  <2> QED
    BY <2>1 DEF BuildPhase
<1>8. CASE Summarize \/ MakeUnits \/ Explain \/ (Ended /\ UNCHANGED source)
  <2>1. /\ UNCHANGED layerVars /\ building' = building
        /\ \/ phase' = phase
           \/ /\ phase \in {"batch", "engine", "explain"}
              /\ phase' \in {"rejected", "engine", "explain", "ready", "explained"}
    BY <1>8 DEF Summarize, MakeUnits, Explain, Ended, vars, layerVars
  <2> QED
    BY <2>1 DEF BuildPhase
<1> QED
  BY <1>1, <1>2, <1>3, <1>4, <1>5, <1>6, <1>7, <1>8 DEF PlannerNext, Next

LEMMA BuildInvAlways == PlannerSpec => [](CompileInv /\ LayersInv /\ BuildPhase)
<1>1. PlannerInit => CompileInv /\ LayersInv /\ BuildPhase
  <2> SUFFICES ASSUME PlannerInit PROVE LayersInit /\ phase \in {"source", "submitted"}
    BY CompileInvInit, LayersInvInit DEF BuildPhase, LayersInit
  <2> QED
    BY DEF PlannerInit, Init
<1>2. CompileInv /\ LayersInv /\ BuildPhase /\ [PlannerNext]_plannerVars
        => (CompileInv /\ LayersInv /\ BuildPhase)'
  BY CompileInvNext, CompileIsLayers, LayersInvNext
<1> QED
  BY <1>1, <1>2, PTL DEF PlannerSpec

\* From a submitted plan, an intent or a recipe to the engine, a compilation
\* implements Layers: validate and ExecutionGraph::retain call safe_layers
\* as that specification lets them, on graphs that satisfy what it asks.
THEOREM CompileImplementsLayers == PlannerSpec => LayersSpec
<1>1. PlannerInit => LayersInit
  BY DEF PlannerInit, Init
<1>2. CompileInv /\ LayersInv /\ BuildPhase /\ [PlannerNext]_plannerVars => [LayersNext]_layerVars
  BY CompileIsLayers
<1> QED
  BY <1>1, <1>2, BuildInvAlways, PTL DEF PlannerSpec, LayersSpec

\* So what Layers promises of every graph holds of every compilation: the
\* layers a run gets, the decisions that made them and the verdict on cycles
\* (ExecutionGraph::layers).
COROLLARY CompiledLayers == PlannerSpec => [](LayersSound /\ AdmitsIsPairwise /\ VerdictRight)
BY CompileImplementsLayers, LayersTheorem, AdmissionTheorem, VerdictTheorem, PTL

\* The graph the layers are rebuilt over after eliminate_dead_nodes is the
\* compiled plan's, and nothing in it depends on a node that is gone
\* (ExecutionGraph::retain).
THEOREM ClosedTheorem == PlannerSpec => []KeptIsClosed
<1>1. CompileInv => KeptIsClosed
  <2> SUFFICES ASSUME CompileInv, phase \in {"relayers", "batch", "explain", "engine", "ready"}
               PROVE  /\ DOMAIN dependencies = Ids(plan)
                      /\ \A n \in Nodes(plan) : Wanted(n) = dependencies[n.id]
                      /\ \A n \in Nodes(plan) : Wanted(n) \subseteq Ids(plan)
    BY DEF KeptIsClosed
  <2>1. GraphOfPlan
    BY DEF CompileInv, Graphed
  <2>2. \A n \in Nodes(plan) : n.id \in Ids(plan)
    BY DEF Ids
  <2> QED
    BY <2>1, <2>2 DEF GraphOfPlan
<1> QED
  BY <1>1, CompileInvAlways, PTL

\* What deduplicate_nodes and eliminate_dead_nodes leave means what the
\* submitted plan meant, for every plan, intent and recipe with distinct
\* names.
THEOREM MeaningTheorem == PlannerSpec => []SameMeaning
<1>1. CompileInv => SameMeaning
  <2> SUFFICES ASSUME CompileInv, phase = "ready", DistinctIds
               PROVE  SameMeaning
    BY DEF SameMeaning
  <2>1. GraphOfPlan /\ Meaning
    BY DEF CompileInv, Graphed
  <2>2. /\ plan.outputs = {Survivor(id) : id \in submitted.outputs}
        /\ plan.outputs \subseteq Ids(plan)
    BY <2>1 DEF GraphOfPlan, Meaning
  <2>3. \A id \in Ids(plan) : NodeOf(plan, id) \in Nodes(plan) /\ NodeOf(plan, id).id = id
    BY DEF NodeOf, Ids
  <2>4. ASSUME NEW n \in Nodes(submitted)
        PROVE  /\ ~Resolved(submitted, n).pure => Survivor(n.id) \in Ids(plan)
               /\ Survivor(n.id) \in Ids(plan) => StandsFor(NodeOf(plan, Survivor(n.id)), n)
    BY <2>1, <2>3 DEF Meaning
  <2> QED
    BY <2>2, <2>4 DEF SameMeaning, StandsFor
<1> QED
  BY <1>1, CompileInvAlways, PTL

----------------------------------------------------------------------------
(* The units the engine gets.                                              *)

\* The groups of the report are those of the plan and its layers; a run that
\* is not optimized has none.
ReportInv ==
  /\ report = [eliminated |-> report.eliminated, groups |-> report.groups, units |-> report.units,
               serial_ms |-> report.serial_ms, compiled_ms |-> report.compiled_ms,
               calls_after |-> report.calls_after]
  /\ phase \notin {"explain", "engine", "ready", "explained", "rejected"} => report.groups = {}
  /\ phase \in {"engine", "ready"} => report.groups \in {{}, FindBatchGroups(plan)}
  /\ phase = "ready" => report.units = UnitsOf(Ids(plan), report.groups)

LEMMA ReportInvInit == PlannerInit => ReportInv
<1> SUFFICES ASSUME PlannerInit PROVE ReportInv
  OBVIOUS
<1>1. report = EmptyReport /\ phase \in {"source", "submitted"}
  BY DEF PlannerInit, Init
<1> QED
  BY <1>1 DEF ReportInv, EmptyReport

LEMMA ReportInvNext == ReportInv /\ [PlannerNext]_plannerVars => ReportInv'
<1> SUFFICES ASSUME ReportInv, [PlannerNext]_plannerVars PROVE ReportInv'
  OBVIOUS
<1> DEFINE Shape(r) ==
             r = [eliminated |-> r.eliminated, groups |-> r.groups, units |-> r.units,
                  serial_ms |-> r.serial_ms, compiled_ms |-> r.compiled_ms,
                  calls_after |-> r.calls_after]
           Late == {"explain", "engine", "ready", "explained", "rejected"}
<1>1. Shape(report)
  BY DEF ReportInv
<1>2. CASE UNCHANGED plannerVars
  <2>1. UNCHANGED <<phase, plan, report, layers>>
    BY <1>2 DEF plannerVars, vars, layerVars
  <2>2. FindBatchGroups(plan)' = FindBatchGroups(plan)
    BY <2>1 DEF FindBatchGroups
  <2> QED
    BY <2>1, <2>2 DEF ReportInv
<1>3. CASE Lower
  <2>1. report' = report /\ phase = "source" /\ phase' \in {"rejected", "submitted"}
    BY <1>3, Zenon DEF Lower
  <2> QED
    BY <2>1 DEF ReportInv
<1>4. CASE Hydrate \/ DedupNode \/ Rewrite
  <2>1. /\ report' = report /\ phase \in {"submitted", "dedup"}
        /\ phase' \in {"validate", "dedup", "spinning"}
    BY <1>4 DEF Hydrate, DedupNode, Rewrite
  <2> QED
    BY <2>1 DEF ReportInv
<1>5. CASE Validate
  <2>1. report' = report /\ phase = "validate" /\ phase' \in {"rejected", "layers"}
    BY <1>5, Zenon DEF Validate, compileVars
  <2> QED
    BY <2>1 DEF ReportInv
<1>6. CASE Build
  <2>1. report' = report /\ phase \in {"layers", "relayers"} /\ phase' = phase
    BY <1>6 DEF Build, compileVars
  <2> QED
    BY <2>1 DEF ReportInv
<1>7. CASE LayersBuilt
  <2>1. /\ report' = report /\ phase \in {"layers", "relayers"}
        /\ phase' \in {"rejected", "engine", "dce", "batch"}
    BY <1>7 DEF LayersBuilt, compileVars
  <2> QED
    BY <2>1 DEF ReportInv
<1>8. CASE EliminateDeadNodes
  <2>1. PICK gone : report' = [report EXCEPT !.eliminated = gone]
    BY <1>8 DEF EliminateDeadNodes
  <2>2. Shape(report') /\ report'.groups = report.groups
    BY <1>1, <2>1
  <2>3. phase = "dce" /\ phase' \in {"batch", "relayers"}
    BY <1>8 DEF EliminateDeadNodes
  <2> QED
    BY <2>2, <2>3 DEF ReportInv
<1>9. CASE Summarize
  <2>1. PICK s, c, a : report' = [report EXCEPT !.groups = FindBatchGroups(plan), !.serial_ms = s,
                                                !.compiled_ms = c, !.calls_after = a]
    BY <1>9, Zenon DEF Summarize
  <2>2. PICK g : g = FindBatchGroups(plan)
    OBVIOUS
  <2>3. PICK r1 : r1 = [report EXCEPT !.groups = g]
    OBVIOUS
  <2>4. PICK r2 : r2 = [r1 EXCEPT !.serial_ms = s]
    OBVIOUS
  <2>5. PICK r3 : r3 = [r2 EXCEPT !.compiled_ms = c]
    OBVIOUS
  <2>6. report' = [r3 EXCEPT !.calls_after = a]
    BY <2>1, <2>2, <2>3, <2>4, <2>5
  <2>7. Shape(r1) /\ r1.groups = g
    BY <1>1, <2>3
  <2>8. Shape(r2) /\ r2.groups = g
    BY <2>4, <2>7
  <2>9. Shape(r3) /\ r3.groups = g
    BY <2>5, <2>8
  <2>10. Shape(report') /\ report'.groups = g
    BY <2>6, <2>9
  <2>11. phase' \in {"explain", "engine"} /\ UNCHANGED <<plan, layers>>
    BY <1>9 DEF Summarize, layerVars
  <2>12. FindBatchGroups(plan)' = g
    BY <2>2, <2>11 DEF FindBatchGroups
  <2> QED
    BY <2>10, <2>11, <2>12 DEF ReportInv
<1>10. CASE MakeUnits
  <2>1. PICK u : u = UnitsOf(Ids(plan), report.groups) /\ report' = [report EXCEPT !.units = u]
    BY <1>10 DEF MakeUnits
  <2>2. Shape(report') /\ report'.groups = report.groups /\ report'.units = u
    BY <1>1, <2>1
  <2>3. phase = "engine" /\ phase' \in {"rejected", "ready"} /\ UNCHANGED <<plan, layers>>
    BY <1>10 DEF MakeUnits, layerVars
  <2>4. FindBatchGroups(plan)' = FindBatchGroups(plan)
    BY <2>3 DEF FindBatchGroups
  <2>5. report.groups \in {{}, FindBatchGroups(plan)}
    BY <2>3 DEF ReportInv
  <2> QED
    BY <2>1, <2>2, <2>3, <2>4, <2>5 DEF ReportInv
<1>11. CASE Explain
  <2>1. report' = report /\ phase' = "explained"
    BY <1>11 DEF Explain
  <2> QED
    BY <2>1 DEF ReportInv
<1>12. CASE Ended /\ UNCHANGED source
  BY <1>2, <1>12 DEF Ended, plannerVars
<1> QED
  BY <1>2, <1>3, <1>4, <1>5, <1>6, <1>7, <1>8, <1>9, <1>10, <1>11, <1>12 DEF PlannerNext, Next

\* A set of calls one dispatch may make: of one layer, of one tool, and no
\* more than the tool takes.
IsGroup(g) ==
  /\ g # {} /\ \E i \in DOMAIN layers : g \subseteq layers[i]
  /\ \E t \in DOMAIN plan.tools :
       /\ \A n \in g : NodeOf(plan, n).tool = t
       /\ plan.tools[t].batch_size # None => Cardinality(g) <= plan.tools[t].batch_size

LEMMA GroupsAre ==
  ASSUME PlanShape(plan), LayersInv, building = "layered"
  PROVE  /\ \A g \in FindBatchGroups(plan) : IsGroup(g)
         /\ \A g, h \in FindBatchGroups(plan) : g # h => Disjoint(g, h)
<1> DEFINE calls(i, t) == {n \in layers[i] : NodeOf(plan, n).tool = t /\ Batchable(plan, n)}
<1>1. ASSUME NEW i \in DOMAIN layers, NEW t \in DOMAIN plan.tools
      PROVE  /\ calls(i, t) \in SUBSET Nat /\ IsFiniteSet(calls(i, t))
             /\ plan.tools[t].batch_size \in Nat \cup {None}
  <2>1. plan.tools[t] \in ToolSpecs
    BY DEF PlanShape
  <2>2. layers \in Seq(SUBSET Graph) /\ Graph \in SUBSET Nat /\ IsFiniteSet(Graph)
    BY DEF LayersInv, LayerTypeOK
  <2>3. layers[i] \in SUBSET Graph
    BY <2>2
  <2>4. calls(i, t) \in SUBSET Graph
    BY <2>3
  <2> HIDE DEF calls
  <2> QED
    BY <2>1, <2>2, <2>4, FS_Subset DEF ToolSpecs
<1>2. \A g \in FindBatchGroups(plan) :
        \E i \in DOMAIN layers, t \in DOMAIN plan.tools : g \in Chunks(plan, t, calls(i, t))
  BY DEF FindBatchGroups
<1>3. \A i, t : \A n \in calls(i, t) : n \in layers[i] /\ NodeOf(plan, n).tool = t
  OBVIOUS
<1> HIDE DEF calls
<1>4. ASSUME NEW g \in FindBatchGroups(plan) PROVE IsGroup(g)
  <2>1. PICK i \in DOMAIN layers, t \in DOMAIN plan.tools : g \in Chunks(plan, t, calls(i, t))
    BY <1>2
  <2>2. /\ g \subseteq calls(i, t) /\ g # {}
        /\ plan.tools[t].batch_size # None => Cardinality(g) <= plan.tools[t].batch_size
    BY <1>1, <2>1, ChunksAre
  <2> QED
    BY <1>3, <2>2 DEF IsGroup
<1>5. ASSUME NEW g \in FindBatchGroups(plan), NEW h \in FindBatchGroups(plan), g # h
      PROVE  Disjoint(g, h)
  <2>1. PICK i \in DOMAIN layers, t \in DOMAIN plan.tools : g \in Chunks(plan, t, calls(i, t))
    BY <1>2
  <2>2. PICK j \in DOMAIN layers, u \in DOMAIN plan.tools : h \in Chunks(plan, u, calls(j, u))
    BY <1>2
  <2>3. g \subseteq calls(i, t) /\ h \subseteq calls(j, u)
    BY <1>1, <2>1, <2>2, ChunksAre
  <2>4. CASE i = j /\ t = u
    BY <1>1, <1>5, <2>1, <2>2, <2>4, ChunksAre
  <2>5. CASE i # j
    <3>1. Disjoint(layers[i], layers[j])
      BY <2>5 DEF LayersInv, Apart
    <3> QED
      BY <1>3, <2>3, <3>1 DEF Disjoint
  <2>6. CASE t # u
    BY <1>3, <2>3, <2>6 DEF Disjoint
  <2> QED
    BY <2>4, <2>5, <2>6
<1> QED
  BY <1>4, <1>5

\* Sets of nodes, each within a layer, that are apart: there are always some
\* that wait for none of the others.
LEMMA NoCycleOfUnits ==
  ASSUME LayersInv, building = "layered", NEW W, W # {},
         \A u \in W : u # {} /\ \E i \in DOMAIN layers : u \subseteq layers[i]
  PROVE  \E u \in W : \A v \in W : \A n \in u : v # u => Disjoint(dependencies[n], v)
<1> DEFINE T == {i \in DOMAIN layers : \E u \in W : u \subseteq layers[i]}
<1>1. layers \in Seq(SUBSET Graph) /\ DOMAIN layers = 1..Len(layers) /\ Len(layers) \in Nat
  BY DEF LayersInv, LayerTypeOK
<1>2. T \subseteq Nat /\ T # {}
  BY <1>1
<1> HIDE DEF T
<1>3. PICK i \in T : \A j \in T : i <= j
  BY <1>2, Least
<1>4. PICK u \in W : i \in DOMAIN layers /\ u \subseteq layers[i]
  BY <1>3 DEF T
<1>5. SUFFICES ASSUME NEW v \in W, NEW n \in u, v # u, NEW d \in dependencies[n], d \in v PROVE FALSE
  BY <1>4 DEF Disjoint
<1>6. PICK j \in 1..(i - 1) : d \in layers[j]
  BY <1>4 DEF LayersInv, LayersSound
<1>7. PICK k \in DOMAIN layers : v \subseteq layers[k]
  OBVIOUS
<1>8. k \in T
  BY <1>7 DEF T
<1>9. j \in DOMAIN layers /\ k # j
  BY <1>1, <1>3, <1>4, <1>6, <1>8
<1>10. Disjoint(layers[j], layers[k])
  BY <1>7, <1>9 DEF LayersInv, Apart
<1> QED
  BY <1>5, <1>6, <1>7, <1>10 DEF Disjoint

\* The units of an engine: one for every group, one for every other node.
LEMMA UnitsOfAre ==
  ASSUME PlanShape(plan), GraphOfPlan, LayersInv, building = "layered",
         NEW G \in {{}, FindBatchGroups(plan)}, NEW U, U = UnitsOf(Ids(plan), G)
  PROVE  /\ UNION U = Ids(plan)
         /\ \A u, v \in U : u # v => Disjoint(u, v)
         /\ \A u \in U :
              /\ u # {} /\ \E i \in DOMAIN layers : u \subseteq layers[i]
              /\ \A m, n \in u : NodeOf(plan, m).tool = NodeOf(plan, n).tool
         /\ \A g \in G : IsGroup(g) /\ g \subseteq Ids(plan)
<1>1. /\ \A g \in G : IsGroup(g)
      /\ \A g, h \in G : g # h => Disjoint(g, h)
  BY GroupsAre
<1>2. /\ \A id \in Ids(plan) : \E i \in DOMAIN layers : id \in layers[i]
      /\ \A i \in DOMAIN layers : layers[i] \subseteq Ids(plan)
  <2>1. Graph = Ids(plan) /\ Placed = Graph
    BY DEF Graph, GraphOfPlan, LayersInv, VerdictRight
  <2> QED
    BY <2>1 DEF Placed
<1>3. \A u : u \in U <=> u \in G \/ \E n \in Ids(plan) : u = {n} /\ n \notin UNION G
  BY DEF UnitsOf
<1>4. \A g \in G : g \subseteq Ids(plan)
  BY <1>1, <1>2 DEF IsGroup
<1>5. UNION U = Ids(plan)
  <2>1. ASSUME NEW id \in Ids(plan) PROVE \E u \in U : id \in u
    <3>1. CASE id \in UNION G
      BY <1>3, <3>1
    <3>2. CASE id \notin UNION G
      BY <1>3, <3>2
    <3> QED
      BY <3>1, <3>2
  <2>2. ASSUME NEW u \in U PROVE u \subseteq Ids(plan)
    BY <1>3, <1>4
  <2> QED
    BY <2>1, <2>2
<1>6. ASSUME NEW u \in U, NEW v \in U, u # v PROVE Disjoint(u, v)
  <2>1. SUFFICES ASSUME NEW n \in u, n \in v PROVE FALSE
    BY DEF Disjoint
  <2>2. ASSUME NEW w \in U, n \in w, w \notin G PROVE w = {n} /\ n \notin UNION G
    BY <1>3, <2>2
  <2>3. CASE u \in G /\ v \in G
    BY <1>1, <1>6, <2>1, <2>3 DEF Disjoint
  <2>4. CASE u \notin G \/ v \notin G
    BY <1>6, <2>1, <2>2, <2>4
  <2> QED
    BY <2>3, <2>4
<1>7. ASSUME NEW u \in U
       PROVE  /\ u # {} /\ \E i \in DOMAIN layers : u \subseteq layers[i]
              /\ \A m, n \in u : NodeOf(plan, m).tool = NodeOf(plan, n).tool
  <2>1. CASE u \in G
    BY <1>1, <2>1 DEF IsGroup
  <2>2. CASE u \notin G
    BY <1>2, <1>3, <2>2
  <2> QED
    BY <2>1, <2>2
<1> QED
  BY <1>1, <1>4, <1>5, <1>6, <1>7

LEMMA UnitsAre ==
  ASSUME CompileInv, LayersInv, BuildPhase, ReportInv, phase = "ready"
  PROVE  /\ UNION report.units = Ids(plan)
         /\ \A u, v \in report.units : u # v => Disjoint(u, v)
         /\ \A u \in report.units :
              /\ u # {} /\ \E i \in DOMAIN layers : u \subseteq layers[i]
              /\ \A m, n \in u : NodeOf(plan, m).tool = NodeOf(plan, n).tool
         /\ \A g \in report.groups : IsGroup(g)
<1>1. PlanShape(plan) /\ GraphOfPlan /\ building = "layered"
  BY DEF CompileInv, BuildPhase, Graphed
<1>2. PICK G \in {{}, FindBatchGroups(plan)} : G = report.groups
  BY DEF ReportInv
<1>3. PICK U : U = report.units /\ U = UnitsOf(Ids(plan), G)
  BY <1>2 DEF ReportInv
<1>4. /\ UNION U = Ids(plan)
      /\ \A u, v \in U : u # v => Disjoint(u, v)
      /\ \A u \in U :
           /\ u # {} /\ \E i \in DOMAIN layers : u \subseteq layers[i]
           /\ \A m, n \in u : NodeOf(plan, m).tool = NodeOf(plan, n).tool
      /\ \A g \in G : IsGroup(g)
  BY <1>1, <1>3, UnitsOfAre
<1> QED
  BY <1>2, <1>3, <1>4

\* What Engine::new gets of every compilation: units that share no node and
\* hold all of them, groups within the batch size whose calls are of one tool
\* and may run together, and no set of units that wait for one another.
THEOREM UnitsTheorem == PlannerSpec => []UnitsSchedulable
<1>1. CompileInv /\ LayersInv /\ BuildPhase /\ ReportInv => UnitsSchedulable
  <2> SUFFICES ASSUME CompileInv, LayersInv, BuildPhase, ReportInv, phase = "ready"
               PROVE  UnitsSchedulable
    BY DEF UnitsSchedulable
  <2>1. building = "layered"
    BY DEF BuildPhase
  <2>2. /\ UNION report.units = Ids(plan)
        /\ \A u, v \in report.units : u # v => Disjoint(u, v)
    BY UnitsAre
  <2>3. \A u \in report.units :
          /\ u # {} /\ \E i \in DOMAIN layers : u \subseteq layers[i]
          /\ \A m, n \in u : NodeOf(plan, m).tool = NodeOf(plan, n).tool
    BY UnitsAre
  <2>4. ASSUME NEW u \in report.units, NEW m \in u, NEW n \in u, m # n
        PROVE  /\ NodeOf(plan, m).tool = NodeOf(plan, n).tool
               /\ m \notin dependencies[n]
               /\ CanRunWith(effects[m], effects[n])
    <3>1. PICK i \in DOMAIN layers : u \subseteq layers[i]
      BY <2>3
    <3>2. CanRunWith(effects[m], effects[n])
      BY <2>4, <3>1 DEF LayersInv, LayersSound
    <3>3. ASSUME m \in dependencies[n] PROVE FALSE
      <4>1. PICK j \in 1..(i - 1) : m \in layers[j]
        BY <3>1, <3>3 DEF LayersInv, LayersSound
      <4>2. layers \in Seq(SUBSET Graph)
        BY DEF LayersInv, LayerTypeOK
      <4>3. j \in DOMAIN layers /\ i # j
        BY <4>2
      <4>4. Disjoint(layers[i], layers[j])
        BY <4>3 DEF LayersInv, Apart
      <4> QED
        BY <3>1, <4>1, <4>4 DEF Disjoint
    <3> QED
      BY <2>3, <3>2, <3>3
  <2>5. ASSUME NEW g \in report.groups
        PROVE  LET size == plan.tools[NodeOf(plan, CHOOSE n \in g : TRUE).tool].batch_size
               IN  size # None => Cardinality(g) <= size
    <3>1. IsGroup(g)
      BY UnitsAre
    <3>2. (CHOOSE n \in g : TRUE) \in g
      BY <3>1 DEF IsGroup
    <3> QED
      BY <3>1, <3>2 DEF IsGroup
  <2>6. ASSUME NEW W \in SUBSET report.units, W # {}
        PROVE  \E u \in W : Disjoint({v \in report.units \ {u} :
                                        \E n \in u : ~Disjoint(dependencies[n], v)}, W)
    <3>1. \A u \in W : u # {} /\ \E i \in DOMAIN layers : u \subseteq layers[i]
      BY <2>3
    <3>2. PICK u \in W : \A v \in W : \A n \in u : v # u => Disjoint(dependencies[n], v)
      BY <2>1, <2>6, <3>1, NoCycleOfUnits
    <3>3. \A v \in W : v # u => ~\E n \in u : ~Disjoint(dependencies[n], v)
      BY <3>2
    <3>4. Disjoint({v \in report.units \ {u} : \E n \in u : ~Disjoint(dependencies[n], v)}, W)
      BY <3>3, Zenon DEF Disjoint
    <3> QED
      BY <3>4, Zenon
  <2> QED
    BY <2>2, <2>4, <2>5, <2>6, Zenon DEF UnitsSchedulable
<1> QED
  BY <1>1, BuildInvAlways, ReportInvInit, ReportInvNext, PTL DEF PlannerSpec

----------------------------------------------------------------------------
(* What the planner submits, and the order it asks for.                    *)

\* The plan of an intent or a recipe is what it lowers to, from its submission
\* on; hydrating it leaves the nodes alone.
Lowers(src) == LoweringError(src) = ""
Lowered(p) == Lowers(source) /\ p.nodes = LoweredNodes(source)

SourceInv ==
  source # None =>
    /\ source \in Sources
    /\ phase = "submitted" => Lowered(plan)
    /\ phase \notin {"source", "submitted", "rejected"} => Lowered(submitted)

LEMMA SourceInvInit == PlannerInit => SourceInv
<1> SUFFICES ASSUME PlannerInit, source # None PROVE SourceInv
  BY DEF SourceInv
<1>1. source \in Sources /\ phase = "source"
  BY DEF PlannerInit
<1> QED
  BY <1>1 DEF SourceInv

LEMMA SourceInvNext == CompileInv /\ SourceInv /\ [PlannerNext]_plannerVars => SourceInv'
<1>0. [PlannerNext]_plannerVars => source' = source
  <2>1. Lower => source' = source
    BY Zenon DEF Lower
  <2> QED
    BY <2>1 DEF PlannerNext, plannerVars
<1> SUFFICES ASSUME CompileInv, SourceInv, [PlannerNext]_plannerVars, source # None PROVE SourceInv'
  BY <1>0 DEF SourceInv
<1>1. source \in Sources /\ source' = source
  BY <1>0 DEF SourceInv
<1>2. CASE Lower
  <2>1. CASE LoweringError(source) # ""
    <3>1. phase' = "rejected"
      BY <1>2, <2>1, Zenon DEF Lower
    <3> QED
      BY <1>1, <3>1 DEF SourceInv
  <2>2. CASE LoweringError(source) = ""
    <3>1. phase' = "submitted" /\ plan'.nodes = LoweredNodes(source)
      <4>1. /\ phase' = "submitted"
            /\ plan' = [version |-> "0", tools |-> source.tools, nodes |-> LoweredNodes(source),
                        outputs |-> source.outputs]
        BY <1>2, <2>2, Zenon DEF Lower
      <4> QED
        BY <4>1
    <3>2. Lowered(plan)'
      BY <1>1, <2>2, <3>1, Zenon DEF Lowered, Lowers
    <3> QED
      BY <1>1, <3>1, <3>2 DEF SourceInv
  <2> QED
    BY <2>1, <2>2, Zenon
<1>3. CASE Hydrate
  <2>1. /\ phase = "submitted" /\ submitted' = plan' /\ phase' \in {"validate", "dedup"}
        /\ plan' = plan \/ plan' = ApplyCapabilities(plan)
    BY <1>3 DEF Hydrate
  <2>2. plan'.nodes = plan.nodes
    BY <2>1, HydratedShape DEF CompileInv
  <2>3. Lowered(plan)
    BY <2>1 DEF SourceInv
  <2>4. Lowered(submitted)'
    BY <1>1, <2>1, <2>2, <2>3, Zenon DEF Lowered
  <2> QED
    BY <1>1, <2>1, <2>4 DEF SourceInv
<1>4. CASE /\ UNCHANGED submitted
           /\ \/ phase' \notin {"source", "submitted"} /\ phase \notin {"source", "submitted", "rejected"}
              \/ phase' = phase /\ UNCHANGED plan
  <2>1. Lowered(submitted)' = Lowered(submitted)
    BY <1>1, <1>4, Zenon DEF Lowered
  <2>2. plan' = plan => Lowered(plan)' = Lowered(plan)
    BY <1>1, Zenon DEF Lowered
  <2> QED
    BY <1>1, <1>4, <2>1, <2>2 DEF SourceInv
<1>5. CASE UNCHANGED plannerVars \/ Ended
  BY <1>4, <1>5 DEF plannerVars, vars, Ended
<1>6. CASE DedupNode \/ Rewrite \/ Build \/ LayersBuilt \/ EliminateDeadNodes
  BY <1>4, <1>6 DEF DedupNode, Rewrite, Build, LayersBuilt, EliminateDeadNodes, compileVars
<1>7. CASE Validate
  <2>1. UNCHANGED submitted /\ phase = "validate" /\ phase' \in {"rejected", "layers"}
    BY <1>7, Zenon DEF Validate, compileVars
  <2> QED
    BY <1>4, <2>1
<1>8. CASE Summarize \/ MakeUnits \/ Explain
  BY <1>4, <1>8 DEF Summarize, MakeUnits, Explain
<1> QED
  BY <1>2, <1>3, <1>5, <1>6, <1>7, <1>8 DEF PlannerNext, Next

LEMMA SourceInvAlways == PlannerSpec => []SourceInv
<1> QED
  BY CompileInvAlways, SourceInvInit, SourceInvNext, PTL DEF PlannerSpec

\* What a node depends on is in an earlier layer than the node.
LEMMA LayerBefore ==
  ASSUME CompileInv, LayersInv, BuildPhase, phase = "ready",
         NEW n \in Ids(plan), NEW d \in dependencies[n]
  PROVE  LayerOf(d) < LayerOf(n)
<1>1. /\ building = "layered" /\ DOMAIN dependencies = Ids(plan)
      /\ layers \in Seq(SUBSET Graph)
  BY DEF BuildPhase, CompileInv, Graphed, GraphOfPlan, LayersInv, LayerTypeOK
<1>2. PICK i \in DOMAIN layers : n \in layers[i]
  BY <1>1 DEF LayersInv, VerdictRight, Placed
<1>3. PICK j \in 1..(i - 1) : d \in layers[j]
  BY <1>2 DEF LayersInv, LayersSound
<1>4. i \in Nat /\ j \in Nat /\ j < i /\ j \in DOMAIN layers
  BY <1>1
<1>5. \A m, k : k \in DOMAIN layers /\ m \in layers[k] => LayerOf(m) = k
  <2> SUFFICES ASSUME NEW m, NEW k \in DOMAIN layers, m \in layers[k] PROVE LayerOf(m) = k
    OBVIOUS
  <2>1. LayerOf(m) \in DOMAIN layers /\ m \in layers[LayerOf(m)]
    BY DEF LayerOf
  <2> QED
    BY <2>1 DEF LayersInv, Apart, Disjoint
<1> QED
  BY <1>2, <1>3, <1>4, <1>5

\* The nodes of an intent are its steps, under their own names.
LEMMA IntentNodes ==
  ASSUME NEW src \in Sources, src.body.kind = "intent", Lowers(src)
  PROVE  LET q == LoweredNodes(src)
             steps == src.body.steps
         IN  /\ DOMAIN q = DOMAIN steps
             /\ \A i \in DOMAIN steps :
                  /\ q[i].id = steps[i].id
                  /\ ToSet(q[i].depends_on) = ToSet(steps[i].after) \cup steps[i].input.refs
             /\ \A i, j \in DOMAIN steps : steps[i].id = steps[j].id => i = j
<1>1. src.body.steps \in Seq(Steps)
  <2>1. src.body \in IntentPlans \/ src.body \in Recipes
    BY SourceAssumption
  <2>2. src.body.kind = "intent"
    OBVIOUS
  <2> QED
    BY <2>1, <2>2 DEF IntentPlans, Recipes
<1> DEFINE steps == src.body.steps
           make(i) == CompileStep(steps[i])
<1>2. LoweredNodes(src) = [i \in DOMAIN steps |-> make(i)]
  BY Zenon DEF LoweredNodes
<1>3. ASSUME NEW i \in DOMAIN steps
      PROVE  /\ make(i).id = steps[i].id
             /\ ToSet(make(i).depends_on) = ToSet(steps[i].after) \cup steps[i].input.refs
  <2>1. PICK s \in Steps : s = steps[i]
    BY <1>1
  <2>2. PICK d : /\ d = Sorted(ToSet(s.after) \cup s.input.refs)
                 /\ make(i) = [NewNode(s.id, s.tool, PlainInput(s.input)) EXCEPT !.depends_on = d]
    BY <2>1, Zenon DEF CompileStep
  <2>3. make(i) = [id |-> s.id, tool |-> s.tool, input |-> PlainInput(s.input), depends_on |-> d,
                   for_each |-> 0, when |-> 0]
    BY <2>2, NodeUpdates, Zenon DEF NewNode
  <2>4. s.after \in Seq(Nat) /\ s.input \in Inputs
    BY DEF Steps
  <2>5. ToSet(d) = ToSet(s.after) \cup s.input.refs
    BY <2>2, <2>4, AfterSorted
  <2> HIDE DEF make
  <2>6. make(i).id = s.id /\ make(i).depends_on = d
    BY <2>3
  <2> QED
    BY <2>1, <2>5, <2>6
<1>4. \A i \in DOMAIN steps : \A j \in 1..(i - 1) : steps[j].id # steps[i].id
  <2>1. IntentError(src.body, src.tools) = ""
    BY Zenon DEF Lowers, LoweringError
  <2> QED
    BY <2>1, Zenon DEF IntentError
<1>5. \A i, j \in DOMAIN steps : steps[i].id = steps[j].id => i = j
  <2> SUFFICES ASSUME NEW i \in DOMAIN steps, NEW j \in DOMAIN steps, i # j
               PROVE  steps[i].id # steps[j].id
    BY Zenon
  <2>1. i \in 1..(j - 1) \/ j \in 1..(i - 1)
    BY <1>1
  <2> QED
    BY <1>4, <2>1, Zenon
<1> HIDE DEF make
<1>6. /\ DOMAIN LoweredNodes(src) = DOMAIN steps
      /\ \A i \in DOMAIN steps : LoweredNodes(src)[i] = make(i)
  BY <1>2, Zenon
<1> QED
  BY <1>3, <1>5, <1>6, Zenon

\* The calls a reducer aggregates.
Mapped(body) == IF body.items_ref # 0 THEN {EachId} ELSE DOMAIN body.items

\* The nodes of a map-reduce have names of their own, and the reducer refers
\* to all of the calls.
LEMMA ReduceNodes ==
  ASSUME NEW src \in Sources, src.body.kind = "map_reduce"
  PROVE  LET q == LoweredNodes(src)
         IN  /\ \E r \in ToSet(q) : r.id = ReduceId /\ r.input.refs = Mapped(src.body)
             /\ \A m \in Mapped(src.body) : \E n \in ToSet(q) : n.id = m
             /\ \A i, j \in DOMAIN q : q[i].id = q[j].id => i = j
<1>1. /\ src.body \in Recipes /\ Disjoint({EachId, ReduceId}, DOMAIN src.body.items)
      /\ EachId # ReduceId
  <2>1. \/ src.body \in IntentPlans
        \/ src.body \in Recipes /\ Disjoint({EachId, ReduceId}, DOMAIN src.body.items)
    BY SourceAssumption
  <2> QED
    BY <2>1, SourceAssumption DEF IntentPlans
<1>2. PICK body \in Recipes : body = src.body
  BY <1>1
<1>3. PICK params : params = Merged(src.params, src.values)
  OBVIOUS
<1> DEFINE f == FanOut(body, params)
           q == MapReduce(body, params)
           r == NewNode(ReduceId, body.reduce_tool, ReduceInput(f))
<1>4. LoweredNodes(src) = q
  BY <1>2, <1>3 DEF LoweredNodes
<1>5. PICK k \in Nat :
        /\ f = [i \in 1..k |-> f[i]]
        /\ IF body.items_ref # 0 THEN k = 1 /\ f[1].id = EachId
           ELSE 1..k = DOMAIN body.items /\ \A i \in 1..k : f[i].id = i
        /\ q = [i \in 1..(k + 1) |-> q[i]]
        /\ \A i \in 1..(k + 1) : q[i] = IF i = k + 1 THEN r ELSE f[i]
  BY MapReduceShaped
<1>6. r.id = ReduceId /\ r.input.refs = {f[i].id : i \in DOMAIN f}
  BY DEF NewNode, ReduceInput
<1> HIDE DEF f, q, r
<1>7. DOMAIN f = 1..k /\ DOMAIN q = 1..(k + 1)
  BY <1>5, Zenon
<1>8. /\ {f[i].id : i \in 1..k} = Mapped(body)
      /\ \A i, j \in 1..k : f[i].id = f[j].id => i = j
      /\ \A i \in 1..k : f[i].id # ReduceId
  <2>1. CASE body.items_ref # 0
    <3>1. k = 1 /\ f[1].id = EachId
      BY <1>5, <2>1
    <3>2. 1..k = {1}
      BY <3>1
    <3>3. Mapped(body) = {EachId} /\ EachId # ReduceId
      BY <1>1, <2>1 DEF Mapped
    <3> QED
      BY <3>1, <3>2, <3>3
  <2>2. CASE body.items_ref = 0
    <3>1. 1..k = DOMAIN body.items /\ \A i \in 1..k : f[i].id = i
      BY <1>5, <2>2
    <3>2. Mapped(body) = 1..k /\ ReduceId \notin 1..k
      BY <1>1, <1>2, <2>2, <3>1 DEF Mapped, Disjoint
    <3> QED
      BY <3>1, <3>2
  <2> QED
    BY <2>1, <2>2
<1>9. /\ k + 1 \in 1..(k + 1) /\ \A i \in 1..k : i \in 1..(k + 1) /\ i # k + 1
      /\ \A i \in 1..(k + 1) : i = k + 1 \/ i \in 1..k
  OBVIOUS
<1>10. q[k + 1] = r /\ \A i \in 1..k : q[i] = f[i]
  BY <1>5, <1>9
<1>11. \A i \in 1..(k + 1) : q[i] \in ToSet(q)
  BY <1>7 DEF ToSet
<1>12. \E x \in ToSet(q) : x.id = ReduceId /\ x.input.refs = Mapped(body)
  BY <1>6, <1>7, <1>8, <1>9, <1>10, <1>11
<1>13. \A m \in Mapped(body) : \E n \in ToSet(q) : n.id = m
  BY <1>8, <1>9, <1>10, <1>11
<1>14. \A i, j \in 1..(k + 1) : q[i].id = q[j].id => i = j
  BY <1>6, <1>8, <1>9, <1>10
<1> QED
  BY <1>2, <1>4, <1>7, <1>12, <1>13, <1>14

\* A node whose tool is not declared pure has effects.
LEMMA HasEffects ==
  ASSUME PlanShape(submitted), NEW n, ~Resolved(submitted, n).pure
  PROVE  ~IsPure(submitted, n.tool)
<1> SUFFICES ASSUME IsPure(submitted, n.tool) PROVE Resolved(submitted, n).pure
  OBVIOUS
<1>1. /\ submitted.tools[n.tool] \in ToolSpecs
      /\ EffectsOf(submitted, n.tool) # None /\ EffectsOf(submitted, n.tool).pure
  BY DEF PlanShape, IsPure
<1> QED
  BY <1>1, ResolvedPure

\* A step of an intent that has effects runs after the steps it names and
\* those it uses the output of (compile_step), a reducer after all of the
\* calls it aggregates and with all of their results (compile_map_reduce),
\* for every intent and recipe, whatever is merged or removed on the way.
THEOREM LoweredTheorem == PlannerSpec => []LoweredOrder
<1>1. CompileInv /\ LayersInv /\ BuildPhase /\ SourceInv => LoweredOrder
  <2> SUFFICES ASSUME CompileInv, LayersInv, BuildPhase, SourceInv, phase = "ready", source # None
               PROVE  LoweredOrder
    BY DEF LoweredOrder, Runs
  <2>1. /\ PlanShape(submitted) /\ GraphOfPlan /\ (DistinctIds => Meaning)
        /\ source \in Sources /\ Lowers(source) /\ submitted.nodes = LoweredNodes(source)
    BY DEF CompileInv, Graphed, SourceInv, Lowered
  <2>2. \A id \in Ids(submitted) : NodeOf(submitted, id) \in Nodes(submitted) /\ NodeOf(submitted, id).id = id
    BY DEF NodeOf, Ids
  <2>3. \A id \in Ids(plan) : NodeOf(plan, id) \in Nodes(plan) /\ NodeOf(plan, id).id = id
    BY DEF NodeOf, Ids
  <2>4. ASSUME NEW k \in Nodes(plan), NEW d \in Wanted(k)
        PROVE  LayerOf(d) < LayerOf(k.id)
    <3>1. k.id \in Ids(plan) /\ d \in dependencies[k.id]
      BY <2>1 DEF Ids, GraphOfPlan
    <3> QED
      BY <3>1, LayerBefore
  <2>5. ASSUME source.body.kind = "intent", NEW i \in DOMAIN source.body.steps,
               ~Resolved(submitted, NodeOf(submitted, source.body.steps[i].id)).pure,
               NEW d \in ToSet(source.body.steps[i].after) \cup source.body.steps[i].input.refs
        PROVE  Before(d, source.body.steps[i].id)
    <3>1. PICK s : s = source.body.steps[i]
      OBVIOUS
    <3>2. PICK n : n = submitted.nodes[i]
      OBVIOUS
    <3>3. /\ DOMAIN submitted.nodes = DOMAIN source.body.steps
          /\ \A j \in DOMAIN source.body.steps : submitted.nodes[j].id = source.body.steps[j].id
          /\ \A j, k \in DOMAIN source.body.steps :
               source.body.steps[j].id = source.body.steps[k].id => j = k
      BY <2>1, <2>5, IntentNodes
    <3>4. n.id = s.id /\ ToSet(n.depends_on) = ToSet(s.after) \cup s.input.refs
      BY <2>1, <2>5, <3>1, <3>2, IntentNodes
    <3>5. DistinctIds
      BY <3>3 DEF DistinctIds
    <3>6. n \in Nodes(submitted)
      BY <3>2, <3>3 DEF Nodes, ToSet
    <3>7. NodeOf(submitted, s.id) = n
      <4>1. s.id \in Ids(submitted)
        BY <3>4, <3>6 DEF Ids
      <4> QED
        BY <2>1, <2>2, <3>4, <3>5, <3>6, <4>1, DistinctNames
    <3>8. ~Resolved(submitted, n).pure
      BY <2>5, <3>1, <3>7
    <3>9. Survivor(n.id) \in Ids(plan)
      BY <2>1, <3>5, <3>6, <3>8 DEF Meaning
    <3>10. PICK k \in Nodes(plan) : k.id = Survivor(n.id)
      BY <3>9 DEF Ids
    <3>11. StandsFor(k, n)
      BY <2>1, <3>5, <3>6, <3>10 DEF Meaning
    <3>12. ~IsPure(submitted, n.tool)
      BY <2>1, <3>8, HasEffects
    <3>13. Survivor(d) \in ToSet(k.depends_on)
      BY <2>5, <3>1, <3>4, <3>11, <3>12 DEF StandsFor
    <3>14. Survivor(d) \in Wanted(k)
      BY <3>13 DEF Wanted
    <3> QED
      BY <2>4, <3>1, <3>4, <3>10, <3>14 DEF Before
  <2>6. ASSUME source.body.kind = "map_reduce", Survivor(ReduceId) \in Ids(plan)
        PROVE  /\ \A i \in Mapped(source.body) : Before(i, ReduceId)
               /\ NodeOf(plan, Survivor(ReduceId)).input.refs = {Survivor(i) : i \in Mapped(source.body)}
    <3>1. DistinctIds
      BY <2>1, <2>6, ReduceNodes DEF DistinctIds
    <3>2. Nodes(submitted) = ToSet(LoweredNodes(source))
      BY <2>1 DEF Nodes
    <3>3. PICK r \in Nodes(submitted) : r.id = ReduceId /\ r.input.refs = Mapped(source.body)
      BY <2>1, <2>6, <3>2, ReduceNodes
    <3>4. \A m \in Mapped(source.body) : \E n \in Nodes(submitted) : n.id = m
      BY <2>1, <2>6, <3>2, ReduceNodes
    <3>5. PICK k \in Nodes(plan) : k = NodeOf(plan, Survivor(ReduceId)) /\ k.id = Survivor(ReduceId)
      BY <2>3, <2>6
    <3>6. k.input.refs = {Survivor(i) : i \in Mapped(source.body)}
      BY <2>1, <3>1, <3>3, <3>5 DEF Meaning, StandsFor
    <3>7. \A m \in Mapped(source.body) : Survivor(m) # 0
      BY <2>1, <3>1, <3>4 DEF Meaning
    <3>8. \A m \in Mapped(source.body) : Survivor(m) \in Wanted(k)
      BY <3>6, <3>7 DEF Wanted, References
    <3> QED
      BY <2>4, <3>5, <3>6, <3>8 DEF Before
  <2> QED
    BY <2>5, <2>6 DEF LoweredOrder, Runs, Mapped
<1> QED
  BY <1>1, BuildInvAlways, SourceInvAlways, PTL

----------------------------------------------------------------------------
(* Sums.  The sum of the weights w over a set S is the number of pairs     *)
(* <<x, j>> with x in S and j in 1..w[x].                                  *)

Heap(S, w) == UNION {{x} \X (1..w[x]) : x \in S}

\* Induction on the subsets of a finite set.
LEMMA SetInduction ==
  ASSUME NEW S, IsFiniteSet(S), NEW F, {} \in F,
         \A s \in SUBSET S : s # {} /\ (\A x \in s : s \ {x} \in F) => s \in F
  PROVE  \A s \in SUBSET S : s \in F
<1> DEFINE T == {n \in Nat : \A s \in SUBSET S : Cardinality(s) = n => s \in F}
<1>1. \A s \in SUBSET S : IsFiniteSet(s) /\ Cardinality(s) \in Nat
  BY FS_Subset, FS_CardinalityType
<1>2. 0 \in T
  BY <1>1, FS_EmptySet
<1>3. ASSUME NEW n \in Nat, n \in T PROVE n + 1 \in T
  <2>1. SUFFICES ASSUME NEW s \in SUBSET S, Cardinality(s) = n + 1 PROVE s \in F
    OBVIOUS
  <2>2. s # {}
    <3>1. n + 1 # 0
      OBVIOUS
    <3> QED
      BY <2>1, <3>1, FS_EmptySet
  <2>3. ASSUME NEW x \in s PROVE s \ {x} \in F
    <3>1. Cardinality(s \ {x}) = Cardinality(s) - 1
      BY <1>1, FS_RemoveElement
    <3>2. Cardinality(s \ {x}) = n /\ s \ {x} \in SUBSET S
      BY <2>1, <3>1
    <3> QED
      BY <1>3, <3>2
  <2> QED
    BY <2>2, <2>3
<1> HIDE DEF T
<1>4. \A n \in Nat : n \in T
  BY <1>2, <1>3, Induction
<1> QED
  BY <1>1, <1>4 DEF T

\* The heap of a union, and of one element.
LEMMA HeapOfUnion ==
  ASSUME NEW A, NEW B, NEW w, Disjoint(A, B), IsFiniteSet(Heap(A, w)), IsFiniteSet(Heap(B, w))
  PROVE  /\ IsFiniteSet(Heap(A \cup B, w))
         /\ Cardinality(Heap(A \cup B, w)) = Cardinality(Heap(A, w)) + Cardinality(Heap(B, w))
<1>1. Heap(A \cup B, w) = Heap(A, w) \cup Heap(B, w)
  BY DEF Heap
<1>2. Heap(A, w) \cap Heap(B, w) = {}
  <2>1. \A e \in Heap(A, w) : e[1] \in A
    BY DEF Heap
  <2>2. \A e \in Heap(B, w) : e[1] \in B
    BY DEF Heap
  <2> QED
    BY <2>1, <2>2 DEF Disjoint
<1>3. /\ IsFiniteSet(Heap(A, w) \cup Heap(B, w))
      /\ Cardinality(Heap(A, w) \cup Heap(B, w)) =
           Cardinality(Heap(A, w)) + Cardinality(Heap(B, w)) - Cardinality(Heap(A, w) \cap Heap(B, w))
  BY FS_Union
<1>4. Cardinality(Heap(A, w)) \in Nat /\ Cardinality(Heap(B, w)) \in Nat
  BY FS_CardinalityType
<1>5. Cardinality(Heap(A, w) \cap Heap(B, w)) = 0
  BY <1>2, FS_EmptySet
<1>6. \A a, b, c, d : a \in Nat /\ b \in Nat /\ d = 0 /\ c = a + b - d => c = a + b
  OBVIOUS
<1> QED
  BY <1>1, <1>3, <1>4, <1>5, <1>6

LEMMA HeapOfOne ==
  ASSUME NEW x, NEW w, w[x] \in Nat
  PROVE  IsFiniteSet(Heap({x}, w)) /\ Cardinality(Heap({x}, w)) = w[x]
<1>1. Heap({x}, w) = {x} \X (1..w[x])
  BY DEF Heap
<1>2. IsFiniteSet(1..w[x]) /\ Cardinality(1..w[x]) = w[x]
  BY FS_Interval
<1>3. IsFiniteSet({x}) /\ Cardinality({x}) = 1
  BY FS_Singleton
<1>4. /\ IsFiniteSet({x} \X (1..w[x]))
      /\ Cardinality({x} \X (1..w[x])) = Cardinality({x}) * Cardinality(1..w[x])
  BY <1>2, <1>3, FS_Product
<1>5. 1 * w[x] = w[x]
  OBVIOUS
<1> QED
  BY <1>1, <1>2, <1>3, <1>4, <1>5

LEMMA HeapFinite ==
  ASSUME NEW S, IsFiniteSet(S), NEW w, \A x \in S : w[x] \in Nat
  PROVE  /\ \A s \in SUBSET S : IsFiniteSet(Heap(s, w))
         /\ \A s \in SUBSET S : \A x \in s :
              Cardinality(Heap(s, w)) = w[x] + Cardinality(Heap(s \ {x}, w))
<1> DEFINE F == {s \in SUBSET S : IsFiniteSet(Heap(s, w))}
<1>1. {} \in F
  <2>1. Heap({}, w) = {}
    BY DEF Heap
  <2> QED
    BY <2>1, FS_EmptySet
<1>2. ASSUME NEW s \in SUBSET S, NEW x \in s, IsFiniteSet(Heap(s \ {x}, w))
      PROVE  /\ IsFiniteSet(Heap(s, w))
             /\ Cardinality(Heap(s, w)) = w[x] + Cardinality(Heap(s \ {x}, w))
  <2>1. s = {x} \cup (s \ {x}) /\ Disjoint({x}, s \ {x})
    BY DEF Disjoint
  <2>2. IsFiniteSet(Heap({x}, w)) /\ Cardinality(Heap({x}, w)) = w[x]
    BY HeapOfOne
  <2>3. PICK t : t = s \ {x}
    OBVIOUS
  <2>4. /\ IsFiniteSet(Heap({x} \cup t, w))
        /\ Cardinality(Heap({x} \cup t, w)) = Cardinality(Heap({x}, w)) + Cardinality(Heap(t, w))
    BY <1>2, <2>1, <2>2, <2>3, HeapOfUnion
  <2> QED
    BY <2>1, <2>2, <2>3, <2>4
<1>3. \A s \in SUBSET S : s # {} /\ (\A x \in s : s \ {x} \in F) => s \in F
  BY <1>2
<1>4. \A s \in SUBSET S : s \in F
  <2> HIDE DEF F
  <2> QED
    BY <1>1, <1>3, SetInduction
<1>5. ASSUME NEW s \in SUBSET S, NEW x \in s
      PROVE  Cardinality(Heap(s, w)) = w[x] + Cardinality(Heap(s \ {x}, w))
  <2>1. s \ {x} \in SUBSET S
    OBVIOUS
  <2> QED
    BY <1>2, <1>4, <2>1
<1> QED
  BY <1>4, <1>5

LEMMA HeapOfEqual ==
  ASSUME NEW S, IsFiniteSet(S), NEW w, NEW k \in Nat, \A x \in S : w[x] = k
  PROVE  Cardinality(Heap(S, w)) = Cardinality(S) * k
<1>1. PICK I : I = 1..k
  OBVIOUS
<1>2. \A x \in S : 1..w[x] = I
  BY <1>1, Zenon
<1>3. Heap(S, w) = S \X I
  <2>1. ASSUME NEW e \in Heap(S, w) PROVE e \in S \X I
    <3>1. PICK x \in S : e \in {x} \X (1..w[x])
      BY <2>1, Zenon DEF Heap
    <3>2. e \in {x} \X I
      BY <1>2, <3>1, Zenon
    <3> QED
      BY <3>2
  <2>2. ASSUME NEW e \in S \X I PROVE e \in Heap(S, w)
    <3>1. PICK x \in S : e \in {x} \X I
      OBVIOUS
    <3>2. e \in {x} \X (1..w[x])
      BY <1>2, <3>1, Zenon
    <3> QED
      BY <3>2, Zenon DEF Heap
  <2> QED
    BY <2>1, <2>2, Zenon
<1>4. IsFiniteSet(I) /\ Cardinality(I) = k
  BY <1>1, FS_Interval
<1>5. Cardinality(S \X I) = Cardinality(S) * Cardinality(I)
  BY <1>4, FS_Product
<1> QED
  BY <1>3, <1>4, <1>5

\* What MapThenSumSet computes.
SumsUp(g, S, w) ==
  g = [s \in SUBSET S |-> IF s = {} THEN 0
                          ELSE w[CHOOSE x \in s : TRUE] + g[s \ {CHOOSE x \in s : TRUE}]]

LEMMA SumIs ==
  ASSUME NEW S, IsFiniteSet(S), NEW w, \A x \in S : w[x] \in Nat
  PROVE  /\ \E g : SumsUp(g, S, w)
         /\ \A g : SumsUp(g, S, w) => g[S] = Cardinality(Heap(S, w))
<1> DEFINE h == [s \in SUBSET S |-> Cardinality(Heap(s, w))]
           some(s) == CHOOSE x \in s : TRUE
<1>1. \A s \in SUBSET S : s # {} => some(s) \in s /\ s \ {some(s)} \in SUBSET S
  OBVIOUS
<1>2. \A s \in SUBSET S : \A x \in s : Cardinality(Heap(s, w)) = w[x] + Cardinality(Heap(s \ {x}, w))
  BY HeapFinite
<1>3. Cardinality(Heap({}, w)) = 0
  <2>1. Heap({}, w) = {}
    BY DEF Heap
  <2> QED
    BY <2>1, FS_EmptySet
<1>4. SumsUp(h, S, w)
  <2> HIDE DEF some
  <2>1. ASSUME NEW s \in SUBSET S
        PROVE  h[s] = IF s = {} THEN 0 ELSE w[some(s)] + h[s \ {some(s)}]
    <3>1. CASE s = {}
      BY <1>3, <3>1
    <3>2. CASE s # {}
      <4>1. some(s) \in s /\ s \ {some(s)} \in SUBSET S
        BY <1>1, <3>2
      <4>2. h[s] = Cardinality(Heap(s, w)) /\ h[s \ {some(s)}] = Cardinality(Heap(s \ {some(s)}, w))
        BY <4>1
      <4> HIDE DEF h
      <4> QED
        BY <1>2, <3>2, <4>1, <4>2
    <3> QED
      BY <3>1, <3>2
  <2>2. h = [s \in SUBSET S |-> h[s]]
    OBVIOUS
  <2> HIDE DEF h
  <2>3. h = [s \in SUBSET S |-> IF s = {} THEN 0 ELSE w[some(s)] + h[s \ {some(s)}]]
    BY <2>1, <2>2
  <2> QED
    BY <2>3, Zenon DEF SumsUp, some
<1>5. SUFFICES ASSUME NEW g, SumsUp(g, S, w) PROVE g[S] = Cardinality(Heap(S, w))
  <2> HIDE DEF h
  <2> QED
    BY <1>4, Zenon
<1>6. \A s \in SUBSET S : g[s] = IF s = {} THEN 0 ELSE w[some(s)] + g[s \ {some(s)}]
  BY <1>5 DEF SumsUp
<1> HIDE DEF h, some
<1> DEFINE F == {s \in SUBSET S : g[s] = Cardinality(Heap(s, w))}
<1>7. {} \in F
  BY <1>3, <1>6
<1>8. ASSUME NEW s \in SUBSET S, s # {}, \A x \in s : s \ {x} \in F PROVE s \in F
  <2>1. some(s) \in s /\ s \ {some(s)} \in F
    BY <1>1, <1>8
  <2>2. g[s] = w[some(s)] + g[s \ {some(s)}]
    BY <1>6, <1>8
  <2>3. Cardinality(Heap(s, w)) = w[some(s)] + Cardinality(Heap(s \ {some(s)}, w))
    BY <1>2, <2>1
  <2> QED
    BY <2>1, <2>2, <2>3
<1>9. \A s \in SUBSET S : s \in F
  <2> HIDE DEF F
  <2> QED
    BY <1>7, <1>8, SetInduction
<1> QED
  BY <1>9

\* The cost of a dispatch is no more than that of its calls one at a time.
LEMMA CallMsIs ==
  ASSUME NEW p, NEW t, p.tools[t] \in ToolSpecs, NEW m \in Nat \ {0}
  PROVE  /\ CallMs(p, t, 1) \in Nat /\ CallMs(p, t, m) \in Nat
         /\ CallMs(p, t, m) <= m * CallMs(p, t, 1)
<1>1. CASE p.tools[t].cost = None
  <2>1. CallMs(p, t, 1) = 0 /\ CallMs(p, t, m) = 0
    BY <1>1 DEF CallMs
  <2>2. m * 0 = 0
    OBVIOUS
  <2> QED
    BY <2>1, <2>2
<1>2. CASE p.tools[t].cost # None
  <2>1. p.tools[t].cost \in Costs
    BY <1>2 DEF ToolSpecs
  <2>2. PICK a \in Nat, b \in Nat : a = p.tools[t].cost.fixed /\ b = p.tools[t].cost.per_call
    BY <2>1 DEF Costs
  <2>3. CallMs(p, t, 1) = a + b * 1 /\ CallMs(p, t, m) = a + b * m
    BY <1>2, <2>2 DEF CallMs
  <2>4. b * 1 = b /\ b * m \in Nat /\ m * (a + b) = m * a + b * m
    OBVIOUS
  <2>5. a <= m * a
    OBVIOUS
  <2>6. m * a \in Nat
    OBVIOUS
  <2> QED
    BY <2>3, <2>4, <2>5, <2>6
<1> QED
  BY <1>1, <1>2

LEMMA SerialIs ==
  ASSUME NEW p, PlanShape(p), \A n \in Nodes(p) : n.tool \in DOMAIN p.tools,
         NEW w, w = [i \in DOMAIN p.nodes |-> CallMs(p, p.nodes[i].tool, 1)]
  PROVE  /\ IsFiniteSet(DOMAIN p.nodes) /\ \A i \in DOMAIN p.nodes : w[i] \in Nat
         /\ SerialMs(p) = Cardinality(Heap(DOMAIN p.nodes, w))
<1> DEFINE S == DOMAIN p.nodes
           P(g) == g = [s \in SUBSET S |->
                          IF s = {} THEN 0
                          ELSE CallMs(p, p.nodes[CHOOSE x \in s : TRUE].tool, 1)
                               + g[s \ {CHOOSE x \in s : TRUE}]]
<1>1. SerialMs(p) = (CHOOSE g : P(g))[S]
  BY Zenon DEF SerialMs, MapThenSumSet, MapThenFoldSet
<1>2. p.nodes \in Seq(Nodes(p)) /\ S = 1..Len(p.nodes) /\ Len(p.nodes) \in Nat
  BY DEF PlanShape
<1>3. IsFiniteSet(S)
  BY <1>2, FS_Interval
<1>4. \A i \in S : w[i] \in Nat /\ w[i] = CallMs(p, p.nodes[i].tool, 1)
  <2> TAKE i \in S
  <2>1. p.nodes[i] \in Nodes(p)
    BY <1>2
  <2>2. p.tools[p.nodes[i].tool] \in ToolSpecs
    BY <2>1 DEF PlanShape
  <2>3. 1 \in Nat \ {0}
    OBVIOUS
  <2> QED
    BY <2>2, <2>3, CallMsIs
<1> HIDE DEF S
<1>5. ASSUME NEW g PROVE P(g) <=> SumsUp(g, S, w)
  <2>1. \A s \in SUBSET S : s # {} =>
          w[CHOOSE x \in s : TRUE] = CallMs(p, p.nodes[CHOOSE x \in s : TRUE].tool, 1)
    <3> TAKE s \in SUBSET S
    <3> HAVE s # {}
    <3>1. (CHOOSE x \in s : TRUE) \in S
      OBVIOUS
    <3> QED
      BY <1>4, <3>1, Zenon
  <2> DEFINE a(s) == CallMs(p, p.nodes[CHOOSE x \in s : TRUE].tool, 1)
             b(s) == w[CHOOSE x \in s : TRUE]
             rest(s) == g[s \ {CHOOSE x \in s : TRUE}]
  <2>2. \A s \in SUBSET S : s # {} => b(s) = a(s)
    BY <2>1, Zenon
  <2>3. P(g) <=> g = [s \in SUBSET S |-> IF s = {} THEN 0 ELSE a(s) + rest(s)]
    BY Zenon
  <2>4. SumsUp(g, S, w) <=> g = [s \in SUBSET S |-> IF s = {} THEN 0 ELSE b(s) + rest(s)]
    BY Zenon DEF SumsUp
  <2> HIDE DEF a, b, rest, P
  <2>5. \A s \in SUBSET S : (IF s = {} THEN 0 ELSE a(s) + rest(s)) = (IF s = {} THEN 0 ELSE b(s) + rest(s))
    BY <2>2
  <2>6. [s \in SUBSET S |-> IF s = {} THEN 0 ELSE a(s) + rest(s)]
          = [s \in SUBSET S |-> IF s = {} THEN 0 ELSE b(s) + rest(s)]
    BY <2>5
  <2> QED
    BY <2>3, <2>4, <2>6, Zenon
<1> HIDE DEF P
<1>6. SumsUp(CHOOSE g : P(g), S, w)
  <2>1. \E g : P(g)
    BY <1>3, <1>4, <1>5, SumIs
  <2>2. P(CHOOSE g : P(g))
    BY <2>1, Zenon
  <2> QED
    BY <1>5, <2>2, Zenon
<1>7. (CHOOSE g : P(g))[S] = Cardinality(Heap(S, w))
  BY <1>3, <1>4, <1>6, SumIs, Zenon
<1> QED
  BY <1>1, <1>3, <1>4, <1>7 DEF S

\* The greatest of some numbers that have a bound.
LEMMA MaxBounded ==
  ASSUME NEW S \in SUBSET Nat, S # {}, NEW b \in Nat, \A x \in S : x <= b
  PROVE  Max(S) \in Nat /\ Max(S) <= b
<1> DEFINE T == {y \in Nat : \A x \in S : x <= y}
<1>1. T \subseteq Nat /\ T # {}
  OBVIOUS
<1>2. PICK t \in T : \A y \in T : t <= y
  <2> HIDE DEF T
  <2> QED
    BY <1>1, Least
<1>3. t \in Nat /\ \A x \in S : x <= t
  BY <1>2
<1>4. t \in S
  <2>1. SUFFICES ASSUME t \notin S PROVE FALSE
    OBVIOUS
  <2>2. \A x \in S : x < t
    BY <1>3, <2>1
  <2>3. t - 1 \in Nat /\ \A x \in S : x <= t - 1
    <3>1. PICK x \in S : x \in Nat /\ x < t
      BY <2>2
    <3>2. t - 1 \in Nat
      BY <1>3, <3>1
    <3>3. \A y \in S : y \in Nat /\ y < t
      BY <2>2
    <3> QED
      BY <1>3, <3>2, <3>3
  <2>4. t - 1 \in T /\ ~(t <= t - 1)
    BY <1>3, <2>3
  <2> QED
    BY <1>2, <2>4
<1>5. \E x \in S : \A y \in S : x >= y
  BY <1>3, <1>4
<1>6. Max(S) \in S
  BY <1>5, Zenon DEF Max
<1> QED
  BY <1>6

\* What a layer adds to compiled_ms.
LayerMs(p, units, i) == Max({DispatchMs(p, units, n) : n \in layers[i]} \cup {0})

LEMMA CompiledIs ==
  ASSUME NEW p, NEW units, IsFiniteSet(DOMAIN layers),
         NEW w, \A i \in DOMAIN layers : w[i] \in Nat,
         \A i \in DOMAIN layers : w[i] = LayerMs(p, units, i)
  PROVE  CompiledMs(p, units) = Cardinality(Heap(DOMAIN layers, w))
<1> DEFINE S == DOMAIN layers
           e(i) == LayerMs(p, units, i)
           P(g) == g = [s \in SUBSET S |->
                          IF s = {} THEN 0
                          ELSE e(CHOOSE x \in s : TRUE) + g[s \ {CHOOSE x \in s : TRUE}]]
<1>1. CompiledMs(p, units) = (CHOOSE g : P(g))[S]
  BY Zenon DEF CompiledMs, MapThenSumSet, MapThenFoldSet, LayerMs
<1>2. IsFiniteSet(S) /\ \A i \in S : w[i] \in Nat
  OBVIOUS
<1>3. \A i \in S : w[i] = e(i)
  BY Zenon
<1> HIDE DEF S, e
<1>4. ASSUME NEW g PROVE P(g) <=> SumsUp(g, S, w)
  <2> DEFINE a(s) == e(CHOOSE x \in s : TRUE)
             b(s) == w[CHOOSE x \in s : TRUE]
             rest(s) == g[s \ {CHOOSE x \in s : TRUE}]
  <2>1. \A s \in SUBSET S : s # {} => b(s) = a(s)
    <3> TAKE s \in SUBSET S
    <3> HAVE s # {}
    <3>1. (CHOOSE x \in s : TRUE) \in S
      OBVIOUS
    <3> QED
      BY <1>3, <3>1, Zenon
  <2>2. P(g) <=> g = [s \in SUBSET S |-> IF s = {} THEN 0 ELSE a(s) + rest(s)]
    BY Zenon
  <2>3. SumsUp(g, S, w) <=> g = [s \in SUBSET S |-> IF s = {} THEN 0 ELSE b(s) + rest(s)]
    BY Zenon DEF SumsUp
  <2> HIDE DEF a, b, rest, P
  <2>4. \A s \in SUBSET S : (IF s = {} THEN 0 ELSE a(s) + rest(s)) = (IF s = {} THEN 0 ELSE b(s) + rest(s))
    BY <2>1
  <2>5. [s \in SUBSET S |-> IF s = {} THEN 0 ELSE a(s) + rest(s)]
          = [s \in SUBSET S |-> IF s = {} THEN 0 ELSE b(s) + rest(s)]
    BY <2>4
  <2> QED
    BY <2>2, <2>3, <2>5, Zenon
<1> HIDE DEF P
<1>5. SumsUp(CHOOSE g : P(g), S, w)
  <2>1. \E g : P(g)
    BY <1>2, <1>4, SumIs
  <2>2. P(CHOOSE g : P(g))
    BY <2>1, Zenon
  <2> QED
    BY <1>4, <2>2, Zenon
<1>6. (CHOOSE g : P(g))[S] = Cardinality(Heap(S, w))
  BY <1>2, <1>5, SumIs, Zenon
<1> QED
  BY <1>1, <1>6 DEF S

\* A layer costs no more than its calls one at a time, so all of them cost no
\* more than all calls.
LEMMA CompiledBound ==
  ASSUME PlanShape(plan), GraphOfPlan, LayersInv, building = "layered",
         NEW units, UNION units = Ids(plan),
         \A u \in units :
           /\ u # {} /\ \E i \in DOMAIN layers : u \subseteq layers[i]
           /\ \A m, n \in u : NodeOf(plan, m).tool = NodeOf(plan, n).tool,
         NEW c, c = [id \in Ids(plan) |-> CallMs(plan, NodeOf(plan, id).tool, 1)]
  PROVE  /\ \A id \in Ids(plan) : c[id] \in Nat
         /\ CompiledMs(plan, units) \in Nat
         /\ CompiledMs(plan, units) <= Cardinality(Heap(Ids(plan), c))
<1>1. /\ layers \in Seq(SUBSET Ids(plan)) /\ IsFiniteSet(Ids(plan))
      /\ DOMAIN layers = 1..Len(layers) /\ Len(layers) \in Nat
  BY DEF LayersInv, LayerTypeOK, Graph, GraphOfPlan
<1>2. \A i \in DOMAIN layers : layers[i] \in SUBSET Ids(plan)
  BY <1>1
<1>3. IsFiniteSet(DOMAIN layers)
  BY <1>1, FS_Interval
<1>4. \A id \in Ids(plan) : plan.tools[NodeOf(plan, id).tool] \in ToolSpecs
  <2> TAKE id \in Ids(plan)
  <2>1. NodeOf(plan, id) \in Nodes(plan)
    BY Zenon DEF Ids, NodeOf
  <2> QED
    BY <2>1 DEF GraphOfPlan, PlanShape
<1>5. \A id \in Ids(plan) : c[id] = CallMs(plan, NodeOf(plan, id).tool, 1) /\ c[id] \in Nat
  <2>1. 1 \in Nat \ {0}
    OBVIOUS
  <2> QED
    BY <1>4, <2>1, CallMsIs
<1>6. \A s \in SUBSET Ids(plan) : IsFiniteSet(Heap(s, c)) /\ Cardinality(Heap(s, c)) \in Nat
  BY <1>1, <1>5, HeapFinite, FS_CardinalityType
<1>7. ASSUME NEW i \in DOMAIN layers, NEW n \in layers[i]
      PROVE  /\ DispatchMs(plan, units, n) \in Nat
             /\ DispatchMs(plan, units, n) <= Cardinality(Heap(layers[i], c))
  <2>1. n \in Ids(plan)
    BY <1>2
  <2>2. PICK u \in units : n \in u /\ u = CHOOSE v \in units : n \in v
    <3>1. \E v \in units : n \in v
      BY <2>1
    <3> QED
      BY <3>1, Zenon
  <2>3. u \subseteq layers[i]
    <3>1. PICK j \in DOMAIN layers : u \subseteq layers[j]
      OBVIOUS
    <3>2. i = j
      BY <2>2, <3>1 DEF LayersInv, Apart, Disjoint
    <3> QED
      BY <3>1, <3>2
  <2>4. u \in SUBSET Ids(plan) /\ layers[i] \in SUBSET Ids(plan)
    BY <1>2, <2>3
  <2>5. IsFiniteSet(u) /\ Cardinality(u) \in Nat \ {0}
    <3>1. IsFiniteSet(u) /\ Cardinality(u) \in Nat
      BY <1>1, <2>4, FS_Subset, FS_CardinalityType
    <3>2. Cardinality(u) # 0
      BY <2>2, <3>1, FS_EmptySet
    <3> QED
      BY <3>1, <3>2
  <2>6. DispatchMs(plan, units, n) = CallMs(plan, NodeOf(plan, n).tool, Cardinality(u))
    BY <2>2, Zenon DEF DispatchMs
  <2>7. /\ DispatchMs(plan, units, n) \in Nat
        /\ DispatchMs(plan, units, n) <= Cardinality(u) * c[n]
    <3>1. PICK t : t = NodeOf(plan, n).tool
      OBVIOUS
    <3>2. plan.tools[t] \in ToolSpecs /\ c[n] = CallMs(plan, t, 1)
      BY <1>4, <1>5, <2>1, <3>1
    <3>3. CallMs(plan, t, Cardinality(u)) \in Nat
          /\ CallMs(plan, t, Cardinality(u)) <= Cardinality(u) * CallMs(plan, t, 1)
      BY <2>5, <3>2, CallMsIs
    <3> QED
      BY <2>6, <3>1, <3>2, <3>3
  <2>8. \A x \in u : c[x] = c[n]
    <3> TAKE x \in u
    <3>1. NodeOf(plan, x).tool = NodeOf(plan, n).tool
      BY <2>2
    <3>2. x \in Ids(plan)
      BY <2>4
    <3> QED
      BY <1>5, <2>1, <3>1, <3>2, Zenon
  <2>9. c[n] \in Nat
    BY <1>5, <2>1
  <2>10. Cardinality(Heap(u, c)) = Cardinality(u) * c[n]
    <3>1. PICK k \in Nat : k = c[n]
      BY <2>9
    <3>2. IsFiniteSet(u) /\ \A x \in u : c[x] = k
      BY <2>5, <2>8, <3>1
    <3> QED
      BY <3>1, <3>2, HeapOfEqual
  <2>11. Cardinality(Heap(u, c)) <= Cardinality(Heap(layers[i], c))
    <3>1. Heap(u, c) \subseteq Heap(layers[i], c)
      BY <2>3 DEF Heap
    <3> QED
      BY <1>6, <2>4, <3>1, FS_Subset
  <2>12. /\ Cardinality(Heap(u, c)) \in Nat /\ Cardinality(Heap(layers[i], c)) \in Nat
    BY <1>6, <2>4
  <2> QED
    BY <2>7, <2>10, <2>11, <2>12
<1> DEFINE w == [i \in DOMAIN layers |-> LayerMs(plan, units, i)]
<1>8. ASSUME NEW i \in DOMAIN layers
      PROVE  w[i] \in Nat /\ w[i] <= Cardinality(Heap(layers[i], c))
  <2> DEFINE M == {DispatchMs(plan, units, n) : n \in layers[i]} \cup {0}
  <2>1. w[i] = Max(M)
    BY Zenon DEF LayerMs
  <2>2. Cardinality(Heap(layers[i], c)) \in Nat
    BY <1>2, <1>6
  <2>3. M \in SUBSET Nat /\ M # {} /\ \A x \in M : x <= Cardinality(Heap(layers[i], c))
    BY <1>7, <2>2
  <2> HIDE DEF M, w
  <2> QED
    BY <2>1, <2>2, <2>3, MaxBounded
<1>9. CompiledMs(plan, units) = Cardinality(Heap(DOMAIN layers, w))
  <2>1. \A i \in DOMAIN layers : w[i] \in Nat
    BY <1>8
  <2>2. \A i \in DOMAIN layers : w[i] = LayerMs(plan, units, i)
    BY Zenon
  <2> HIDE DEF w
  <2> QED
    BY <1>3, <2>1, <2>2, CompiledIs, Zenon
<1> HIDE DEF w
<1> DEFINE all(s) == UNION {layers[i] : i \in s}
           F == {s \in SUBSET DOMAIN layers : Cardinality(Heap(s, w)) <= Cardinality(Heap(all(s), c))}
<1>10. {} \in F
  <2>1. Heap({}, w) = {} /\ all({}) = {} /\ Heap({}, c) = {}
    BY DEF Heap
  <2>2. Cardinality({}) = 0 /\ 0 <= 0
    BY FS_EmptySet
  <2> HIDE DEF all
  <2> QED
    BY <2>1, <2>2
<1>11. ASSUME NEW s \in SUBSET DOMAIN layers, s # {}, \A x \in s : s \ {x} \in F PROVE s \in F
  <2>1. PICK x \in s : TRUE
    BY <1>11
  <2>2. PICK r : r = s \ {x}
    OBVIOUS
  <2>3. r \in SUBSET DOMAIN layers /\ x \in DOMAIN layers /\ Cardinality(Heap(r, w)) <= Cardinality(Heap(all(r), c))
    BY <1>11, <2>2
  <2>4. Cardinality(Heap(s, w)) = w[x] + Cardinality(Heap(r, w))
    BY <1>3, <1>8, <2>2, HeapFinite
  <2>5. all(s) = all(r) \cup layers[x] /\ Disjoint(all(r), layers[x])
    <3>1. all(s) = all(r) \cup layers[x]
      BY <2>2
    <3>2. \A i \in r : Disjoint(layers[i], layers[x])
      BY <2>2, <2>3 DEF LayersInv, Apart
    <3> QED
      BY <3>1, <3>2 DEF Disjoint
  <2>6. all(r) \in SUBSET Ids(plan) /\ layers[x] \in SUBSET Ids(plan)
    BY <1>2, <2>3
  <2> HIDE DEF all
  <2>7. Cardinality(Heap(all(s), c)) = Cardinality(Heap(all(r), c)) + Cardinality(Heap(layers[x], c))
    BY <1>6, <2>5, <2>6, HeapOfUnion
  <2>8. w[x] <= Cardinality(Heap(layers[x], c)) /\ w[x] \in Nat
    BY <1>8, <2>3
  <2>9. Cardinality(Heap(r, w)) \in Nat
    BY <1>3, <1>8, <2>3, HeapFinite, FS_CardinalityType
  <2>10. Cardinality(Heap(all(r), c)) \in Nat /\ Cardinality(Heap(layers[x], c)) \in Nat
    BY <1>6, <2>6
  <2>11. Cardinality(Heap(s, w)) <= Cardinality(Heap(all(s), c))
    BY <2>3, <2>4, <2>7, <2>8, <2>9, <2>10
  <2> QED
    BY <2>11
<1>12. DOMAIN layers \in F
  <2>1. PICK D : D = DOMAIN layers
    OBVIOUS
  <2>2. \A s \in SUBSET D : s # {} /\ (\A x \in s : s \ {x} \in F) => s \in F
    BY <1>11, <2>1
  <2> HIDE DEF F
  <2>3. \A s \in SUBSET D : s \in F
    BY <1>3, <1>10, <2>1, <2>2, SetInduction
  <2> QED
    BY <2>1, <2>3
<1>13. Cardinality(Heap(DOMAIN layers, w)) <= Cardinality(Heap(all(DOMAIN layers), c))
  BY <1>12
<1>14. all(DOMAIN layers) \in SUBSET Ids(plan)
  BY <1>2
<1> HIDE DEF all
<1>15. Cardinality(Heap(all(DOMAIN layers), c)) <= Cardinality(Heap(Ids(plan), c))
  <2>1. Heap(all(DOMAIN layers), c) \subseteq Heap(Ids(plan), c)
    BY <1>14 DEF Heap
  <2> QED
    BY <1>6, <2>1, FS_Subset
<1>16. /\ Cardinality(Heap(DOMAIN layers, w)) \in Nat
       /\ Cardinality(Heap(all(DOMAIN layers), c)) \in Nat /\ Cardinality(Heap(Ids(plan), c)) \in Nat
  <2>1. Cardinality(Heap(DOMAIN layers, w)) \in Nat
    BY <1>3, <1>8, HeapFinite, FS_CardinalityType
  <2> QED
    BY <1>6, <1>14, <2>1
<1> QED
  BY <1>5, <1>9, <1>13, <1>15, <1>16

----------------------------------------------------------------------------
(* Where the nodes of the compiled plan come from.                         *)

\* A node the dedup pass drops is of a known tool, a node that is left has the
\* name and the tool of a submitted one, and the nodes of a graph have
\* different names.
OriginInv ==
  /\ phase = "dedup" => \A n \in Met : n \in ToSet(kept) \/ n.tool \in DOMAIN plan.tools
  /\ phase \in Unpruned \cup Graphed =>
       /\ \A k \in Nodes(plan) : \E n \in Nodes(submitted) : n.id = k.id /\ n.tool = k.tool
       /\ \A n \in Nodes(submitted) :
            \/ n.tool \in DOMAIN submitted.tools
            \/ phase = "validate" /\ \E k \in Nodes(plan) : k.tool = n.tool
  /\ phase \in Graphed => Len(plan.nodes) = Cardinality(Ids(plan))

\* The rewrite keeps the name and the tool of every node.
LEMMA RewriteMakes ==
  ASSUME CompileInv, Rewrite, phase' = "validate"
  PROVE  /\ \A m \in Nodes(plan') : \E k \in ToSet(kept) : m.id = k.id /\ m.tool = k.tool
         /\ \A k \in ToSet(kept) : \E m \in Nodes(plan') : m.tool = k.tool
<1>1. phase = "dedup" /\ Dedup /\ PlanShape(plan)
  BY DEF Rewrite, CompileInv
<1>2. kept \in Seq(Nodes(plan)) /\ \A k \in ToSet(kept) : NodeShape(k)
  <2>1. kept \in Seq(Nodes(plan)) /\ \A n \in Nodes(plan) : NodeShape(n)
    BY <1>1 DEF Dedup, PlanShape
  <2> QED
    BY <2>1, SeqOfMembers
<1> DEFINE merged == aliases # <<>>
           made(k) == IF merged THEN RewriteNodeAliases(k) ELSE k
           q == [i \in DOMAIN kept |-> made(kept[i])]
<1>3. \A k \in ToSet(kept) : made(k).id = k.id /\ made(k).tool = k.tool
  <2> SUFFICES ASSUME NEW k \in ToSet(kept), merged
               PROVE  RewriteNodeAliases(k).id = k.id /\ RewriteNodeAliases(k).tool = k.tool
    OBVIOUS
  <2>1. PICK d, e, f, g : RewriteNodeAliases(k) =
          [id |-> k.id, tool |-> k.tool, input |-> [path |-> k.input.path, refs |-> g],
           depends_on |-> d, for_each |-> e, when |-> f]
    BY <1>2, RewrittenNode
  <2> QED
    BY <2>1
<1>4. plan'.nodes = q
  <2>1. PICK r : r = [plan EXCEPT !.nodes = kept]
    OBVIOUS
  <2>2. plan = [version |-> plan.version, tools |-> plan.tools, nodes |-> plan.nodes,
                outputs |-> plan.outputs]
    BY <1>1 DEF PlanShape
  <2>3. r = [version |-> plan.version, tools |-> plan.tools, nodes |-> kept, outputs |-> plan.outputs]
    BY <2>1, <2>2
  <2>4. CASE merged
    <3>1. PICK a, b : /\ a = [i \in DOMAIN kept |-> RewriteNodeAliases(kept[i])]
                      /\ plan' = [r EXCEPT !.nodes = a, !.outputs = b]
      BY <2>1, <2>4 DEF Rewrite
    <3>2. PICK s : s = [r EXCEPT !.nodes = a]
      OBVIOUS
    <3>3. s = [version |-> plan.version, tools |-> plan.tools, nodes |-> a, outputs |-> plan.outputs]
      BY <2>3, <3>2
    <3>4. plan' = [s EXCEPT !.outputs = b]
      BY <3>1, <3>2
    <3>5. plan'.nodes = a
      BY <3>3, <3>4
    <3>6. q = [i \in DOMAIN kept |-> RewriteNodeAliases(kept[i])]
      BY <2>4
    <3> HIDE DEF q
    <3> QED
      BY <3>1, <3>5, <3>6
  <2>5. CASE ~merged
    <3>1. plan' = r
      BY <2>1, <2>5 DEF Rewrite
    <3>2. q = [i \in DOMAIN kept |-> kept[i]]
      BY <2>5
    <3>3. q = kept
      BY <1>2, <3>2
    <3> HIDE DEF q
    <3> QED
      BY <2>3, <3>1, <3>3
  <2> QED
    BY <2>4, <2>5
<1> HIDE DEF made
<1>5. DOMAIN q = DOMAIN kept /\ \A i \in DOMAIN kept : q[i] = made(kept[i]) /\ kept[i] \in ToSet(kept)
  BY DEF ToSet
<1> HIDE DEF q
<1>6. \A m \in ToSet(q) : \E k \in ToSet(kept) : m = made(k)
  BY <1>5 DEF ToSet
<1>7. \A k \in ToSet(kept) : made(k) \in ToSet(q)
  BY <1>5 DEF ToSet
<1> QED
  BY <1>3, <1>4, <1>6, <1>7 DEF Nodes

\* Where no two nodes of J have one name, there are as many names as nodes.
LEMMA NamesCounted ==
  ASSUME NEW s, NEW J, IsFiniteSet(J), NEW I, I = {s[i].id : i \in J}
  PROVE  /\ Cardinality(I) <= Cardinality(J)
         /\ (\A i, j \in J : s[i].id = s[j].id => i = j) <=> Cardinality(I) = Cardinality(J)
<1> DEFINE f == [i \in J |-> s[i].id]
<1>1. f \in Surjection(J, I)
  BY DEF Surjection
<1>2. f \in Injection(J, I) <=> \A i, j \in J : s[i].id = s[j].id => i = j
  BY DEF Injection, IsInjective
<1> HIDE DEF f
<1> QED
  BY <1>1, <1>2, FS_Surjection

LEMMA PlanNames ==
  ASSUME NEW p, PlanShape(p)
  PROVE  /\ DOMAIN p.nodes = 1..Len(p.nodes) /\ Len(p.nodes) \in Nat
         /\ IsFiniteSet(DOMAIN p.nodes) /\ Cardinality(DOMAIN p.nodes) = Len(p.nodes)
         /\ Ids(p) = {p.nodes[i].id : i \in DOMAIN p.nodes}
<1>1. DOMAIN p.nodes = 1..Len(p.nodes) /\ Len(p.nodes) \in Nat
  BY DEF PlanShape
<1>2. Ids(p) = {p.nodes[i].id : i \in DOMAIN p.nodes}
  BY DEF Ids, Nodes, ToSet
<1> QED
  BY <1>1, <1>2, FS_Interval

LEMMA OriginDedup ==
  ASSUME CompileInv, OriginInv, DedupNode
  PROVE  OriginInv'
<1>1. /\ phase = "dedup" /\ phase' = "dedup" /\ cursor <= Len(plan.nodes)
      /\ cursor' = cursor + 1 /\ UNCHANGED <<plan, submitted>>
  BY DEF DedupNode
<1>2. Dedup /\ PlanShape(plan)
  BY <1>1 DEF CompileInv
<1>3. PICK n : n = plan.nodes[cursor]
  OBVIOUS
<1>4. cursor \in Nat \ {0} /\ Len(plan.nodes) \in Nat /\ DOMAIN plan.nodes = 1..Len(plan.nodes)
  BY <1>2, PlanNames DEF Dedup
<1>5. n \in Nodes(plan)
  BY <1>1, <1>3, <1>4 DEF Nodes, ToSet
<1>6. Met' = Met \cup {n}
  <2>1. 1..((cursor + 1) - 1) = 1..(cursor - 1) \cup {cursor}
    BY <1>4
  <2> QED
    BY <1>1, <1>3, <2>1 DEF Met
<1>7. \A m \in Met : m \in ToSet(kept) \/ m.tool \in DOMAIN plan.tools
  BY <1>1 DEF OriginInv
<1>8. CASE DedupKey(plan, n) # None /\ DedupKey(plan, n) \in DOMAIN seen
  <2>1. kept' = kept
    BY <1>3, <1>8 DEF DedupNode
  <2>2. n.tool \in DOMAIN plan.tools
    BY <1>8, Zenon DEF DedupKey
  <2> QED
    BY <1>1, <1>6, <1>7, <2>1, <2>2 DEF OriginInv, Unpruned, Graphed
<1>9. CASE ~(DedupKey(plan, n) # None /\ DedupKey(plan, n) \in DOMAIN seen)
  <2>1. kept' = Append(kept, n)
    BY <1>3, <1>9 DEF DedupNode
  <2>2. ToSet(kept') = ToSet(kept) \cup {n}
    BY <1>2, <1>5, <2>1, ToSetOfAppend DEF Dedup
  <2> QED
    BY <1>1, <1>6, <1>7, <2>2 DEF OriginInv, Unpruned, Graphed
<1> QED
  BY <1>8, <1>9

LEMMA OriginRewrite ==
  ASSUME CompileInv, OriginInv, Rewrite
  PROVE  OriginInv'
<1>1. /\ phase = "dedup" /\ UNCHANGED <<submitted, kept>>
      /\ phase' \in {"spinning", "validate"}
  BY DEF Rewrite
<1>2. CASE phase' = "spinning"
  BY <1>2 DEF OriginInv, Unpruned, Graphed
<1>3. CASE phase' = "validate"
  <2>1. Dedup /\ PlanShape(plan)
    BY <1>1 DEF CompileInv
  <2>2. plan = submitted /\ kept \in Seq(Nodes(plan))
    BY <2>1 DEF Dedup
  <2>3. Met = Nodes(plan)
    <3>1. cursor > Len(plan.nodes) /\ cursor \in 1..(Len(plan.nodes) + 1)
      BY <2>1 DEF Rewrite, Dedup
    <3>2. Len(plan.nodes) \in Nat /\ DOMAIN plan.nodes = 1..Len(plan.nodes)
      BY <2>1, PlanNames
    <3>3. cursor - 1 = Len(plan.nodes)
      BY <3>1, <3>2
    <3> QED
      BY <3>2, <3>3 DEF Met, Nodes, ToSet
  <2>4. \A n \in Nodes(submitted) : n \in ToSet(kept) \/ n.tool \in DOMAIN submitted.tools
    BY <1>1, <2>2, <2>3 DEF OriginInv
  <2>5. /\ \A m \in Nodes(plan') : \E k \in ToSet(kept) : m.id = k.id /\ m.tool = k.tool
        /\ \A k \in ToSet(kept) : \E m \in Nodes(plan') : m.tool = k.tool
    BY <1>3, RewriteMakes
  <2>6. \A k \in ToSet(kept) : k \in Nodes(submitted)
    BY <2>2, SeqOfMembers
  <2>7. \A m \in Nodes(plan') : \E n \in Nodes(submitted) : n.id = m.id /\ n.tool = m.tool
    BY <2>5, <2>6
  <2>8. \A n \in Nodes(submitted) :
          n.tool \in DOMAIN submitted.tools \/ \E m \in Nodes(plan') : m.tool = n.tool
    BY <2>4, <2>5
  <2> QED
    BY <1>1, <1>3, <2>7, <2>8 DEF OriginInv, Graphed
<1> QED
  BY <1>1, <1>2, <1>3

LEMMA OriginValidate ==
  ASSUME CompileInv, OriginInv, Validate
  PROVE  OriginInv'
<1>1. /\ phase = "validate" /\ UNCHANGED <<plan, submitted>>
      /\ \/ phase' = "rejected"
         \/ GraphError(plan) = "" /\ phase' = "layers"
  BY Zenon DEF Validate, compileVars
<1>2. CASE phase' = "rejected"
  BY <1>2 DEF OriginInv, Unpruned, Graphed
<1>3. CASE phase' # "rejected"
  <2>1. /\ PlanShape(plan) /\ plan.tools = submitted.tools
        /\ \A k \in Nodes(plan) : \E n \in Nodes(submitted) : n.id = k.id /\ n.tool = k.tool
        /\ \A n \in Nodes(submitted) : \/ n.tool \in DOMAIN submitted.tools
                                       \/ \E k \in Nodes(plan) : k.tool = n.tool
    BY <1>1 DEF CompileInv, OriginInv, Unpruned
  <2>2. /\ \A i, j \in DOMAIN plan.nodes : plan.nodes[i].id = plan.nodes[j].id => i = j
        /\ \A n \in Nodes(plan) : n.tool \in DOMAIN plan.tools
    BY <1>1, <1>3, CheckedPlan, Zenon
  <2>3. /\ phase' = "layers" /\ plan' = plan /\ submitted' = submitted
    BY <1>1, <1>3, Zenon
  <2>4. Len(plan.nodes) = Cardinality(Ids(plan))
    <3>1. PICK J : J = DOMAIN plan.nodes
      OBVIOUS
    <3>2. PICK s : s = plan.nodes
      OBVIOUS
    <3>3. IsFiniteSet(J) /\ Cardinality(J) = Len(plan.nodes) /\ Ids(plan) = {s[i].id : i \in J}
      BY <2>1, <3>1, <3>2, PlanNames
    <3>4. \A i, j \in J : s[i].id = s[j].id => i = j
      BY <2>2, <3>1, <3>2
    <3>5. Cardinality(Ids(plan)) = Cardinality(J)
      BY <3>3, <3>4, NamesCounted
    <3> QED
      BY <3>3, <3>5
  <2>5. \A n \in Nodes(submitted) : n.tool \in DOMAIN submitted.tools
    BY <2>1, <2>2
  <2> QED
    BY <2>1, <2>3, <2>4, <2>5 DEF OriginInv
<1> QED
  BY <1>2, <1>3

LEMMA OriginEliminate ==
  ASSUME CompileInv, OriginInv, EliminateDeadNodes
  PROVE  OriginInv'
<1> DEFINE live == Live(plan)
<1>1. /\ phase = "dce" /\ submitted' = submitted /\ phase' \in {"batch", "relayers"}
      /\ plan' = [plan EXCEPT !.nodes = Retain(plan.nodes, live)]
  BY DEF EliminateDeadNodes
<1>2. /\ PlanShape(plan) /\ GraphOfPlan /\ Len(plan.nodes) = Cardinality(Ids(plan))
      /\ \A k \in Nodes(plan) : \E n \in Nodes(submitted) : n.id = k.id /\ n.tool = k.tool
      /\ \A n \in Nodes(submitted) : n.tool \in DOMAIN submitted.tools
  BY <1>1 DEF CompileInv, OriginInv, Graphed, Unpruned
<1>3. live \subseteq Ids(plan)
  BY <1>2, LiveIs
<1> HIDE DEF live
<1>4. PICK s : s = plan.nodes
  OBVIOUS
<1>5. PICK J : J = {j \in DOMAIN s : s[j].id \in live}
  OBVIOUS
<1>6. PICK q : q = Retain(s, live)
  OBVIOUS
<1>7. s \in Seq(Nodes(plan)) /\ Nodes(plan) = ToSet(s)
  BY <1>2, <1>4 DEF PlanShape, Nodes
<1>8. /\ \A n : n \in ToSet(q) <=> n \in ToSet(s) /\ n.id \in live
      /\ Len(q) = Cardinality(J)
  BY <1>5, <1>6, <1>7, RetainIs
<1>9. plan'.nodes = q
  <2>1. plan = [version |-> plan.version, tools |-> plan.tools, nodes |-> plan.nodes,
                outputs |-> plan.outputs]
    BY <1>2 DEF PlanShape
  <2>2. plan' = [plan EXCEPT !.nodes = q]
    BY <1>1, <1>4, <1>6
  <2> QED
    BY <2>1, <2>2
<1>10. Nodes(plan') \subseteq Nodes(plan)
  BY <1>7, <1>8, <1>9 DEF Nodes
<1>11. Ids(plan') = {s[i].id : i \in J}
  <2>1. \A id : id \in Ids(plan') <=> \E n \in ToSet(q) : id = n.id
    BY <1>9 DEF Ids, Nodes
  <2>2. \A n : n \in ToSet(s) <=> \E i \in DOMAIN s : n = s[i]
    BY DEF ToSet
  <2>3. \A id : id \in Ids(plan') <=> \E i \in J : id = s[i].id
    BY <1>5, <1>8, <2>1, <2>2
  <2> QED
    BY <2>3
<1>12. Len(q) = Cardinality(Ids(plan'))
  <2>1. /\ IsFiniteSet(DOMAIN s) /\ Cardinality(DOMAIN s) = Cardinality(Ids(plan))
        /\ Ids(plan) = {s[i].id : i \in DOMAIN s}
    BY <1>2, <1>4, PlanNames
  <2>2. PICK D : D = DOMAIN s
    OBVIOUS
  <2>3. \A i, j \in D : s[i].id = s[j].id => i = j
    BY <2>1, <2>2, NamesCounted
  <2>4. IsFiniteSet(J) /\ \A i, j \in J : s[i].id = s[j].id => i = j
    <3>1. J \in SUBSET D
      BY <1>5, <2>2
    <3> QED
      BY <2>1, <2>2, <2>3, <3>1, FS_Subset
  <2>5. Cardinality(Ids(plan')) = Cardinality(J)
    BY <1>11, <2>4, NamesCounted
  <2> QED
    BY <1>8, <2>5
<1> QED
  BY <1>1, <1>2, <1>9, <1>10, <1>12 DEF OriginInv

LEMMA OriginInit == PlannerInit => OriginInv
<1> SUFFICES ASSUME PlannerInit PROVE phase \in {"source", "submitted"}
  BY DEF OriginInv, Unpruned, Graphed
<1> QED
  BY DEF PlannerInit, Init

LEMMA OriginNext == CompileInv /\ OriginInv /\ [PlannerNext]_plannerVars => OriginInv'
<1> SUFFICES ASSUME CompileInv, OriginInv, [PlannerNext]_plannerVars PROVE OriginInv'
  OBVIOUS
<1>1. CASE UNCHANGED plannerVars
  <2>1. UNCHANGED <<phase, plan, submitted, cursor, kept>>
    BY <1>1 DEF plannerVars, vars
  <2> QED
    BY <2>1 DEF OriginInv, Met
<1>2. CASE Lower
  <2>1. phase' \in {"rejected", "submitted"}
    BY <1>2, Zenon DEF Lower
  <2> QED
    BY <2>1 DEF OriginInv, Unpruned, Graphed
<1>3. CASE Hydrate
  <2>1. /\ phase = "submitted" /\ submitted' = plan' /\ cursor' = cursor
        /\ phase' \in {"validate", "dedup"}
    BY <1>3 DEF Hydrate
  <2>2. cursor = 1
    BY <2>1 DEF CompileInv, Waiting
  <2>3. Met' = {}
    BY <2>1, <2>2 DEF Met
  <2> QED
    BY <2>1, <2>3 DEF OriginInv, Graphed, Unpruned
<1>4. CASE DedupNode
  BY <1>4, OriginDedup
<1>5. CASE Rewrite
  BY <1>5, OriginRewrite
<1>6. CASE Validate
  BY <1>6, OriginValidate
<1>7. CASE EliminateDeadNodes
  BY <1>7, OriginEliminate
<1>8. CASE Build \/ LayersBuilt \/ Summarize \/ MakeUnits \/ Explain
  <2>1. UNCHANGED <<plan, submitted>> /\ phase \in Graphed /\ phase' \in Graphed \cup {"rejected"}
    BY <1>8 DEF Build, LayersBuilt, Summarize, MakeUnits, Explain, compileVars, Graphed
  <2>2. phase \notin {"validate", "dedup"} /\ phase' \notin {"validate", "dedup"}
        /\ (phase' \in Unpruned \cup Graphed => phase' \in Graphed)
    BY <2>1 DEF Graphed, Unpruned
  <2> QED
    BY <2>1, <2>2 DEF OriginInv
<1>9. CASE Ended /\ UNCHANGED source
  BY <1>1, <1>9 DEF Ended, plannerVars
<1> QED
  BY <1>1, <1>2, <1>3, <1>4, <1>5, <1>6, <1>7, <1>8, <1>9 DEF PlannerNext, Next

----------------------------------------------------------------------------
(* The summary of a compilation.                                           *)

\* Weights that are those of other elements, one for each.
LEMMA HeapInjects ==
  ASSUME NEW S, NEW T, NEW c, NEW w, NEW f \in Injection(S, T),
         \A x \in S : c[x] = w[f[x]], IsFiniteSet(Heap(T, w))
  PROVE  Cardinality(Heap(S, c)) <= Cardinality(Heap(T, w))
<1> DEFINE g == [e \in Heap(S, c) |-> <<f[e[1]], e[2]>>]
<1>1. \A e \in Heap(S, c) : e[1] \in S /\ e[2] \in 1..c[e[1]] /\ e = <<e[1], e[2]>>
  BY DEF Heap
<1>2. \A x \in S : f[x] \in T /\ \A y \in S : f[x] = f[y] => x = y
  BY DEF Injection, IsInjective
<1>3. \A e \in Heap(S, c) : g[e] \in Heap(T, w)
  <2> TAKE e \in Heap(S, c)
  <2>1. PICK x, j : x = e[1] /\ j = e[2]
    OBVIOUS
  <2>2. x \in S /\ j \in 1..w[f[x]] /\ f[x] \in T
    BY <1>1, <1>2, <2>1
  <2>3. <<f[x], j>> \in Heap(T, w)
    BY <2>2 DEF Heap
  <2> QED
    BY <2>1, <2>3
<1>4. \A d, e \in Heap(S, c) : g[d] = g[e] => d = e
  BY <1>1, <1>2
<1>5. g \in Injection(Heap(S, c), Heap(T, w))
  <2>1. DOMAIN g = Heap(S, c) /\ g = [e \in Heap(S, c) |-> g[e]]
    OBVIOUS
  <2> HIDE DEF g
  <2>2. g \in [Heap(S, c) -> Heap(T, w)]
    BY <1>3, <2>1
  <2> QED
    BY <1>4, <2>1, <2>2 DEF Injection, IsInjective
<1> HIDE DEF g
<1> QED
  BY <1>5, FS_Injection

\* One set for every group and one for every other node.
LEMMA UnitsCounted ==
  ASSUME NEW I, IsFiniteSet(I), NEW G, \A g \in G : g \subseteq I
  PROVE  /\ IsFiniteSet(G) /\ IsFiniteSet(UnitsOf(I, G))
         /\ Cardinality(I) - Cardinality(UNION G) + Cardinality(G) = Cardinality(UnitsOf(I, G))
<1> DEFINE R == I \ UNION G
           one == {{n} : n \in R}
<1>1. IsFiniteSet(G)
  <2>1. IsFiniteSet(SUBSET I)
    BY FS_SUBSET
  <2>2. G \in SUBSET (SUBSET I)
    OBVIOUS
  <2> QED
    BY <2>1, <2>2, FS_Subset
<1>2. IsFiniteSet(R) /\ Cardinality(R) = Cardinality(I) - Cardinality(UNION G)
  <2>1. I \cap UNION G = UNION G
    OBVIOUS
  <2> QED
    BY <2>1, FS_Difference
<1>3. IsFiniteSet(one) /\ Cardinality(one) = Cardinality(R)
  <2> HIDE DEF R
  <2>1. [n \in R |-> {n}] \in Bijection(R, one)
    BY DEF Bijection, Injection, Surjection, IsInjective
  <2> HIDE DEF one
  <2>2. ExistsBijection(R, one)
    BY <2>1 DEF ExistsBijection
  <2> QED
    BY <1>2, <2>2, FS_Bijection
<1>4. G \cap one = {}
  OBVIOUS
<1>5. UnitsOf(I, G) = G \cup one
  BY DEF UnitsOf
<1> HIDE DEF R, one
<1>6. /\ IsFiniteSet(G \cup one)
      /\ Cardinality(G \cup one) = Cardinality(G) + Cardinality(one) - Cardinality(G \cap one)
  BY <1>1, <1>3, FS_Union
<1>7. Cardinality(G \cap one) = 0
  BY <1>4, FS_EmptySet
<1>8. /\ Cardinality(G) \in Nat /\ Cardinality(one) \in Nat /\ Cardinality(I) \in Nat
      /\ Cardinality(UNION G) \in Nat
  <2>1. UNION G \in SUBSET I
    OBVIOUS
  <2>2. IsFiniteSet(UNION G)
    BY <2>1, FS_Subset
  <2> QED
    BY <1>1, <1>3, <2>2, FS_CardinalityType
<1>9. \A a, b, c, d, z : a \in Nat /\ b \in Nat /\ c \in Nat /\ d \in Nat /\ d = a - b /\ z = 0
                           => a - b + c = c + d - z
  OBVIOUS
<1> QED
  BY <1>1, <1>2, <1>3, <1>5, <1>6, <1>7, <1>8, <1>9

\* Sets that are apart and not empty are no more than their elements.
LEMMA FewerSets ==
  ASSUME NEW I, IsFiniteSet(I), NEW U, UNION U = I, \A u \in U : u # {},
         \A u, v \in U : u # v => Disjoint(u, v)
  PROVE  Cardinality(U) <= Cardinality(I)
<1> DEFINE f == [n \in I |-> CHOOSE u \in U : n \in u]
<1>1. \A n \in I : f[n] \in U /\ n \in f[n]
  <2> TAKE n \in I
  <2>1. \E u \in U : n \in u
    OBVIOUS
  <2> QED
    BY <2>1
<1>2. f = [n \in I |-> f[n]]
  OBVIOUS
<1> HIDE DEF f
<1>3. f \in [I -> U]
  BY <1>1, <1>2
<1>4. \A u \in U : \E n \in I : f[n] = u
  <2> TAKE u \in U
  <2>1. PICK n \in u : n \in I
    OBVIOUS
  <2>2. f[n] = u
    BY <1>1, <2>1 DEF Disjoint
  <2> QED
    BY <2>1, <2>2
<1>5. f \in Surjection(I, U)
  BY <1>3, <1>4 DEF Surjection
<1> QED
  BY <1>5, FS_Surjection

\* What the batch pass sums up: the dispatches there will be, and a cost that
\* is no more than that of the submitted calls one at a time.
LEMMA SummaryRight ==
  ASSUME CompileInv, OriginInv, LayersInv, BuildPhase, phase = "batch",
         NEW G, G = FindBatchGroups(plan), NEW U, U = UnitsOf(Ids(plan), G)
  PROVE  /\ Len(plan.nodes) - Cardinality(UNION G) + Cardinality(G) = Cardinality(U)
         /\ Cardinality(U) <= Len(submitted.nodes)
         /\ CompiledMs(plan, U) <= SerialMs(submitted)
<1>1. /\ PlanShape(plan) /\ PlanShape(submitted) /\ GraphOfPlan /\ building = "layered"
      /\ plan.tools = submitted.tools
  BY DEF CompileInv, BuildPhase, Graphed
<1>2. /\ \A k \in Nodes(plan) : \E n \in Nodes(submitted) : n.id = k.id /\ n.tool = k.tool
      /\ \A n \in Nodes(submitted) : n.tool \in DOMAIN submitted.tools
      /\ Len(plan.nodes) = Cardinality(Ids(plan))
  BY DEF OriginInv, Graphed
<1>3. /\ UNION U = Ids(plan)
      /\ \A u, v \in U : u # v => Disjoint(u, v)
      /\ \A u \in U : /\ u # {} /\ \E i \in DOMAIN layers : u \subseteq layers[i]
                      /\ \A m, n \in u : NodeOf(plan, m).tool = NodeOf(plan, n).tool
      /\ \A g \in G : g \subseteq Ids(plan)
  <2>1. G \in {{}, FindBatchGroups(plan)}
    OBVIOUS
  <2> QED
    BY <1>1, <2>1, UnitsOfAre
<1>4. IsFiniteSet(Ids(plan))
  BY <1>1, IdsFinite
<1>5. Len(plan.nodes) - Cardinality(UNION G) + Cardinality(G) = Cardinality(U)
  <2>1. IsFiniteSet(U) /\ Cardinality(Ids(plan)) - Cardinality(UNION G) + Cardinality(G) = Cardinality(U)
    BY <1>3, <1>4, UnitsCounted
  <2> QED
    BY <1>2, <2>1
<1>6. PICK s : s = submitted.nodes
  OBVIOUS
<1>7. /\ IsFiniteSet(DOMAIN s) /\ Cardinality(DOMAIN s) = Len(s)
      /\ Ids(submitted) = {s[i].id : i \in DOMAIN s}
  BY <1>1, <1>6, PlanNames
<1>8. Cardinality(U) <= Len(submitted.nodes)
  <2>1. Cardinality(U) <= Cardinality(Ids(plan))
    BY <1>3, <1>4, FewerSets
  <2>2. Ids(plan) \in SUBSET Ids(submitted)
    BY <1>2 DEF Ids
  <2>3. IsFiniteSet(Ids(submitted))
    BY <1>1, IdsFinite
  <2>4. Cardinality(Ids(plan)) <= Cardinality(Ids(submitted))
    BY <2>2, <2>3, FS_Subset
  <2>5. Cardinality(Ids(submitted)) <= Len(s)
    BY <1>7, NamesCounted
  <2>6. IsFiniteSet(U)
    BY <1>3, <1>4, UnitsCounted
  <2>7. /\ Cardinality(U) \in Nat /\ Cardinality(Ids(plan)) \in Nat
        /\ Cardinality(Ids(submitted)) \in Nat /\ Len(s) \in Nat
    BY <1>4, <1>7, <2>3, <2>6, FS_CardinalityType
  <2> QED
    BY <1>6, <2>1, <2>4, <2>5, <2>7
<1>9. CompiledMs(plan, U) <= SerialMs(submitted)
  <2>1. PICK c : c = [id \in Ids(plan) |-> CallMs(plan, NodeOf(plan, id).tool, 1)]
    OBVIOUS
  <2>2. PICK w : w = [i \in DOMAIN s |-> CallMs(submitted, s[i].tool, 1)]
    OBVIOUS
  <2>3. /\ \A id \in Ids(plan) : c[id] \in Nat
        /\ CompiledMs(plan, U) \in Nat
        /\ CompiledMs(plan, U) <= Cardinality(Heap(Ids(plan), c))
    BY <1>1, <1>3, <2>1, CompiledBound
  <2>4. /\ \A i \in DOMAIN s : w[i] \in Nat
        /\ SerialMs(submitted) = Cardinality(Heap(DOMAIN s, w))
    BY <1>1, <1>2, <1>6, <2>2, SerialIs
  <2>5. \A t : CallMs(plan, t, 1) = CallMs(submitted, t, 1)
    BY <1>1 DEF CallMs
  <2>6. \A id \in Ids(plan) : \E i \in DOMAIN s : s[i].id = id /\ s[i].tool = NodeOf(plan, id).tool
    <3> TAKE id \in Ids(plan)
    <3>1. NodeOf(plan, id) \in Nodes(plan) /\ NodeOf(plan, id).id = id
      BY Zenon DEF Ids, NodeOf
    <3>2. PICK n \in Nodes(submitted) : n.id = id /\ n.tool = NodeOf(plan, id).tool
      BY <1>2, <3>1, Zenon
    <3>3. PICK i \in DOMAIN s : n = s[i]
      BY <1>6 DEF Nodes, ToSet
    <3> QED
      BY <3>2, <3>3
  <2> DEFINE origin == [id \in Ids(plan) |->
                          CHOOSE i \in DOMAIN s : s[i].id = id /\ s[i].tool = NodeOf(plan, id).tool]
  <2>7. \A id \in Ids(plan) : /\ origin[id] \in DOMAIN s /\ s[origin[id]].id = id
                              /\ s[origin[id]].tool = NodeOf(plan, id).tool
    BY <2>6, Zenon
  <2>8. origin = [id \in Ids(plan) |-> origin[id]]
    OBVIOUS
  <2> HIDE DEF origin
  <2>9. origin \in Injection(Ids(plan), DOMAIN s)
    <3>1. origin \in [Ids(plan) -> DOMAIN s]
      BY <2>7, <2>8
    <3>2. \A x, y \in Ids(plan) : origin[x] = origin[y] => x = y
      BY <2>7
    <3> QED
      BY <3>1, <3>2 DEF Injection, IsInjective
  <2>10. \A id \in Ids(plan) : c[id] = w[origin[id]]
    <3> TAKE id \in Ids(plan)
    <3>1. PICK t : t = NodeOf(plan, id).tool
      OBVIOUS
    <3>2. c[id] = CallMs(plan, t, 1)
      BY <2>1, <3>1
    <3>3. w[origin[id]] = CallMs(submitted, t, 1)
      BY <2>2, <2>7, <3>1
    <3> QED
      BY <2>5, <3>2, <3>3
  <2>11. IsFiniteSet(Heap(DOMAIN s, w))
    BY <1>7, <2>4, HeapFinite
  <2>12. Cardinality(Heap(Ids(plan), c)) <= Cardinality(Heap(DOMAIN s, w))
    BY <2>9, <2>10, <2>11, HeapInjects
  <2>13. Cardinality(Heap(Ids(plan), c)) \in Nat /\ Cardinality(Heap(DOMAIN s, w)) \in Nat
    BY <1>4, <2>3, <2>11, HeapFinite, FS_CardinalityType
  <2> QED
    BY <2>3, <2>4, <2>12, <2>13
<1> QED
  BY <1>5, <1>8, <1>9

\* The summary holds from the batch pass on.
SummaryInv ==
  entry = "optimized" /\ phase \in {"engine", "ready"} =>
    /\ report.calls_after = Cardinality(UnitsOf(Ids(plan), report.groups))
    /\ report.calls_after <= Len(submitted.nodes)
    /\ report.compiled_ms <= report.serial_ms

LEMMA SummaryNext ==
  CompileInv /\ OriginInv /\ LayersInv /\ BuildPhase /\ ReportInv /\ SummaryInv
    /\ [PlannerNext]_plannerVars => SummaryInv'
<1> SUFFICES ASSUME CompileInv, OriginInv, LayersInv, BuildPhase, ReportInv, SummaryInv,
                    [PlannerNext]_plannerVars
             PROVE  SummaryInv'
  OBVIOUS
<1> DEFINE Shape(r) ==
             r = [eliminated |-> r.eliminated, groups |-> r.groups, units |-> r.units,
                  serial_ms |-> r.serial_ms, compiled_ms |-> r.compiled_ms,
                  calls_after |-> r.calls_after]
<1>1. Shape(report)
  BY DEF ReportInv
<1>2. CASE UNCHANGED plannerVars
  <2>1. UNCHANGED <<phase, entry, plan, submitted, report>>
    BY <1>2 DEF plannerVars, vars
  <2> QED
    BY <2>1 DEF SummaryInv
<1>3. CASE Lower \/ Validate
  <2>1. phase' \in {"rejected", "submitted", "layers"}
    BY <1>3, Zenon DEF Lower, Validate
  <2> QED
    BY <2>1 DEF SummaryInv
<1>4. CASE Hydrate \/ DedupNode \/ Rewrite \/ EliminateDeadNodes \/ Build \/ Explain
  <2>1. phase' \notin {"engine", "ready"}
    BY <1>4 DEF Hydrate, DedupNode, Rewrite, EliminateDeadNodes, Build, Explain
  <2> QED
    BY <2>1 DEF SummaryInv
<1>5. CASE LayersBuilt
  <2>1. phase' # "ready" /\ (phase' = "engine" => entry' # "optimized")
    BY <1>5 DEF LayersBuilt, compileVars
  <2> QED
    BY <2>1 DEF SummaryInv
<1>6. CASE Summarize
  <2>1. PICK g : g = FindBatchGroups(plan)
    OBVIOUS
  <2>2. PICK u : u = UnitsOf(Ids(plan), g)
    OBVIOUS
  <2>3. PICK s, c, a : /\ report' = [report EXCEPT !.groups = g, !.serial_ms = s,
                                                   !.compiled_ms = c, !.calls_after = a]
                       /\ s = SerialMs(submitted) /\ c = CompiledMs(plan, u)
                       /\ a = Len(plan.nodes) - Cardinality(UNION g) + Cardinality(g)
    BY <1>6, <2>1, <2>2, Zenon DEF Summarize
  <2>4. PICK r1 : r1 = [report EXCEPT !.groups = g]
    OBVIOUS
  <2>5. PICK r2 : r2 = [r1 EXCEPT !.serial_ms = s]
    OBVIOUS
  <2>6. PICK r3 : r3 = [r2 EXCEPT !.compiled_ms = c]
    OBVIOUS
  <2>7. report' = [r3 EXCEPT !.calls_after = a]
    BY <2>3, <2>4, <2>5, <2>6
  <2>8. Shape(r1) /\ r1.groups = g
    BY <1>1, <2>4
  <2>9. Shape(r2) /\ r2.groups = g /\ r2.serial_ms = s
    BY <2>5, <2>8
  <2>10. Shape(r3) /\ r3.groups = g /\ r3.serial_ms = s /\ r3.compiled_ms = c
    BY <2>6, <2>9
  <2>11. report'.groups = g /\ report'.serial_ms = s /\ report'.compiled_ms = c /\ report'.calls_after = a
    BY <2>7, <2>10
  <2>12. phase = "batch" /\ UNCHANGED <<plan, submitted>>
    BY <1>6 DEF Summarize
  <2>13. a = Cardinality(u) /\ a <= Len(submitted.nodes) /\ c <= s
    <3>1. /\ Len(plan.nodes) - Cardinality(UNION g) + Cardinality(g) = Cardinality(u)
          /\ Cardinality(u) <= Len(submitted.nodes)
          /\ CompiledMs(plan, u) <= SerialMs(submitted)
      BY <2>1, <2>2, <2>12, SummaryRight
    <3> QED
      BY <2>3, <3>1, Zenon
  <2> QED
    BY <2>2, <2>11, <2>12, <2>13 DEF SummaryInv
<1>7. CASE MakeUnits
  <2>1. PICK u : report' = [report EXCEPT !.units = u]
    BY <1>7 DEF MakeUnits
  <2>2. /\ report'.groups = report.groups /\ report'.calls_after = report.calls_after
        /\ report'.serial_ms = report.serial_ms /\ report'.compiled_ms = report.compiled_ms
    BY <1>1, <2>1
  <2>3. phase = "engine" /\ UNCHANGED <<entry, plan, submitted>>
    BY <1>7 DEF MakeUnits
  <2> QED
    BY <2>2, <2>3 DEF SummaryInv
<1>8. CASE Ended /\ UNCHANGED source
  BY <1>2, <1>8 DEF Ended, plannerVars
<1> QED
  BY <1>2, <1>3, <1>4, <1>5, <1>6, <1>7, <1>8 DEF PlannerNext, Next

----------------------------------------------------------------------------
(* What Explain says of the pairs the layers kept apart.                   *)

\* Two nodes that may not run together, neither of them upstream of the other
\* (there is a closed set that has what both depend on and neither of them),
\* and in different layers, now or once the layer being built is closed.
KeptApart(m, n) ==
  /\ m \in Graph /\ n \in Graph /\ m # n /\ ~CanRunWith(effects[m], effects[n])
  /\ \E X \in SUBSET Graph :
       /\ m \notin X /\ n \notin X /\ dependencies[m] \subseteq X /\ dependencies[n] \subseteq X
       /\ \A x \in X : dependencies[x] \subseteq X
  /\ \/ building = "busy" /\ m \in layer /\ n \notin layer /\ n \notin todo
     \/ m \in Placed /\ \A i \in DOMAIN layers : m \in layers[i] => n \notin layers[i]

RefusedInv ==
  /\ phase \in {"source", "submitted", "dedup", "validate"} => refused = {}
  /\ phase \in {"layers", "relayers", "dce", "batch", "explain"} =>
       /\ building = "busy" => Disjoint(layer, todo)
       /\ \A pair \in refused : KeptApart(pair[1], pair[2])

\* The pairs kept apart stay so while the layers are built.
LEMMA ApartAfterScan ==
  ASSUME LayersInv, Disjoint(layer, todo), NEW c \in todo, Scan(c),
         NEW m, NEW n, KeptApart(m, n)
  PROVE  KeptApart(m, n)'
<1>1. /\ building = "busy" /\ UNCHANGED <<dependencies, effects, layers, building>>
      /\ todo' = todo \ {c} /\ (layer' = layer \/ layer' = layer \cup {c})
  BY DEF Scan
<1>2. /\ m \in Graph /\ n \in Graph /\ m # n /\ ~CanRunWith(effects[m], effects[n])
      /\ \E X \in SUBSET Graph :
           /\ m \notin X /\ n \notin X /\ dependencies[m] \subseteq X /\ dependencies[n] \subseteq X
           /\ \A x \in X : dependencies[x] \subseteq X
  BY DEF KeptApart
<1>3. \/ m \in layer /\ n \notin layer /\ n \notin todo
      \/ m \in Placed /\ \A i \in DOMAIN layers : m \in layers[i] => n \notin layers[i]
  BY DEF KeptApart
<1>4. \/ m \in layer' /\ n \notin layer' /\ n \notin todo'
      \/ m \in Placed' /\ \A i \in DOMAIN layers' : m \in layers'[i] => n \notin layers'[i]
  BY <1>1, <1>3 DEF Placed
<1> QED
  BY <1>1, <1>2, <1>4 DEF KeptApart, Graph

\* What a scan refuses is kept apart: it was compared with a member of the
\* layer, and both were ready.
LEMMA ApartWhenRefused ==
  ASSUME LayersInv, Disjoint(layer, todo), NEW c \in todo, Scan(c), layer' = layer,
         NEW m \in layer, ~CanRunWith(effects[m], effects[c])
  PROVE  KeptApart(m, c)'
<1>1. building = "busy" /\ UNCHANGED <<dependencies, effects, layers, building>> /\ todo' = todo \ {c}
  BY DEF Scan
<1>2. /\ todo \subseteq ready /\ layer \subseteq ready
      /\ ready = {n \in Graph \ Placed : dependencies[n] \subseteq Placed} /\ Placed \subseteq Graph
  BY <1>1 DEF LayersInv, LayerTypeOK, Kahn
<1>3. \A x \in Placed : dependencies[x] \subseteq Placed
  BY PlacedClosed DEF LayersInv
<1>4. m \in Graph /\ c \in Graph /\ m # c /\ c \notin layer
  BY <1>2 DEF Disjoint
<1>5. \E X \in SUBSET Graph :
        /\ m \notin X /\ c \notin X /\ dependencies[m] \subseteq X /\ dependencies[c] \subseteq X
        /\ \A x \in X : dependencies[x] \subseteq X
  <2>1. m \notin Placed /\ c \notin Placed /\ dependencies[m] \subseteq Placed /\ dependencies[c] \subseteq Placed
    BY <1>2
  <2> QED
    BY <1>2, <1>3, <2>1
<1>6. building' = "busy" /\ m \in layer' /\ c \notin layer' /\ c \notin todo'
  BY <1>1, <1>4
<1> QED
  BY <1>1, <1>4, <1>5, <1>6 DEF KeptApart, Graph

LEMMA ApartAfterClose ==
  ASSUME LayersInv, CloseLayer, NEW m, NEW n, KeptApart(m, n)
  PROVE  KeptApart(m, n)'
<1>1. /\ building = "busy" /\ UNCHANGED <<dependencies, effects, building>>
      /\ layers' = Append(layers, layer)
  BY DEF CloseLayer
<1>2. /\ m \in Graph /\ n \in Graph /\ m # n /\ ~CanRunWith(effects[m], effects[n])
      /\ \E X \in SUBSET Graph :
           /\ m \notin X /\ n \notin X /\ dependencies[m] \subseteq X /\ dependencies[n] \subseteq X
           /\ \A x \in X : dependencies[x] \subseteq X
  BY DEF KeptApart
<1>3. layer \in SUBSET Graph /\ Disjoint(layer, Placed)
  BY <1>1 DEF LayersInv, LayerTypeOK, Kahn, Disjoint
<1>4. /\ Placed' = Placed \cup layer
      /\ DOMAIN layers' = DOMAIN layers \cup {Len(layers) + 1}
      /\ \A i \in DOMAIN layers : layers'[i] = layers[i]
      /\ layers'[Len(layers) + 1] = layer
  BY <1>1, <1>3, PlacedGrows DEF LayersInv
<1>5. m \in Placed' /\ \A i \in DOMAIN layers' : m \in layers'[i] => n \notin layers'[i]
  <2>1. CASE m \in layer /\ n \notin layer
    <3>1. \A i \in DOMAIN layers : m \notin layers[i]
      BY <1>3, <2>1 DEF Placed, Disjoint
    <3> QED
      BY <1>4, <2>1, <3>1
  <2>2. CASE m \in Placed /\ \A i \in DOMAIN layers : m \in layers[i] => n \notin layers[i]
    <3>1. m \notin layer
      BY <1>3, <2>2 DEF Disjoint
    <3> QED
      BY <1>4, <2>2, <3>1
  <2> QED
    BY <2>1, <2>2 DEF KeptApart
<1> QED
  BY <1>1, <1>2, <1>5 DEF KeptApart, Graph

LEMMA ApartAfterEnd ==
  ASSUME LayersInv, EndLayers, NEW m, NEW n, KeptApart(m, n)
  PROVE  KeptApart(m, n)'
<1>1. /\ building = "busy" /\ ready = {} /\ UNCHANGED <<dependencies, effects, layers>>
  BY DEF EndLayers
<1>2. /\ m \in Graph /\ n \in Graph /\ m # n /\ ~CanRunWith(effects[m], effects[n])
      /\ \E X \in SUBSET Graph :
           /\ m \notin X /\ n \notin X /\ dependencies[m] \subseteq X /\ dependencies[n] \subseteq X
           /\ \A x \in X : dependencies[x] \subseteq X
  BY DEF KeptApart
<1>3. layer = {}
  BY <1>1 DEF LayersInv, LayerTypeOK
<1>4. m \in Placed /\ \A i \in DOMAIN layers : m \in layers[i] => n \notin layers[i]
  BY <1>3 DEF KeptApart
<1> QED
  BY <1>1, <1>2, <1>4 DEF KeptApart, Graph, Placed

LEMMA RefusedBuild ==
  ASSUME LayersInv, RefusedInv, Build
  PROVE  RefusedInv'
<1>1. phase \in {"layers", "relayers"} /\ phase' = phase
  BY DEF Build
<1>2. /\ building = "busy" => Disjoint(layer, todo)
      /\ \A pair \in refused : KeptApart(pair[1], pair[2])
  BY <1>1 DEF RefusedInv
<1> DEFINE least == {c \in todo : \A d \in todo : c <= d}
<1>3. refused' = IF building = "busy" /\ todo # {} /\ layer' = layer
                 THEN refused \cup {pair \in layer \X least :
                                      ~CanRunWith(effects[pair[1]], effects[pair[2]])}
                 ELSE refused
  BY DEF Build
<1>4. CASE \E c \in todo : Scan(c)
  <2>1. PICK c \in todo : Scan(c)
    BY <1>4
  <2>2. building = "busy" /\ Disjoint(layer, todo)
    BY <1>2, <2>1 DEF Scan
  <2>3. todo' = todo \ {c} /\ (layer' = layer \/ layer' = layer \cup {c}) /\ \A d \in todo : c <= d
    BY <2>1 DEF Scan
  <2>4. Disjoint(layer', todo')
    BY <2>2, <2>3 DEF Disjoint
  <2>5. least = {c}
    <3>1. todo \subseteq Nat
      BY <2>2 DEF LayersInv, LayerTypeOK
    <3>2. \A x, y \in Nat : x <= y /\ y <= x => x = y
      OBVIOUS
    <3> QED
      BY <2>3, <3>1, <3>2
  <2> HIDE DEF least
  <2>6. ASSUME NEW pair \in refused' PROVE KeptApart(pair[1], pair[2])'
    <3>1. CASE pair \in refused
      <4>1. PICK m, n : m = pair[1] /\ n = pair[2]
        OBVIOUS
      <4>2. KeptApart(m, n)
        BY <1>2, <3>1, <4>1
      <4>3. KeptApart(m, n)'
        BY <2>1, <2>2, <4>2, ApartAfterScan
      <4> QED
        BY <4>1, <4>3
    <3>2. CASE pair \notin refused
      <4>1. /\ layer' = layer /\ pair \in layer \X {c}
            /\ ~CanRunWith(effects[pair[1]], effects[pair[2]])
        BY <1>3, <2>5, <2>6, <3>2
      <4>2. PICK m \in layer : m = pair[1] /\ c = pair[2]
        BY <4>1
      <4>3. KeptApart(m, c)'
        BY <2>1, <2>2, <4>1, <4>2, ApartWhenRefused
      <4> QED
        BY <4>2, <4>3
    <3> QED
      BY <3>1, <3>2
  <2> QED
    BY <1>1, <2>4, <2>6 DEF RefusedInv
<1>5. CASE CloseLayer \/ EndLayers
  <2>1. building = "busy" /\ todo = {}
    BY <1>5 DEF CloseLayer, EndLayers, LayersInv, LayerTypeOK
  <2>2. refused' = refused
    BY <1>3, <2>1
  <2>3. building' = "busy" => Disjoint(layer', todo')
    BY <1>5, <2>1 DEF CloseLayer, EndLayers, Disjoint
  <2>4. ASSUME NEW pair \in refused' PROVE KeptApart(pair[1], pair[2])'
    <3>1. PICK m, n : m = pair[1] /\ n = pair[2]
      OBVIOUS
    <3>2. KeptApart(m, n)
      BY <1>2, <2>2, <2>4, <3>1
    <3>3. KeptApart(m, n)'
      BY <1>5, <3>2, ApartAfterClose, ApartAfterEnd
    <3> QED
      BY <3>1, <3>3
  <2> QED
    BY <1>1, <2>3, <2>4 DEF RefusedInv
<1> QED
  BY <1>4, <1>5 DEF Build, BuildLayers

LEMMA RefusedInit == PlannerInit => RefusedInv
<1> SUFFICES ASSUME PlannerInit PROVE refused = {} /\ phase \in {"source", "submitted"}
  BY DEF RefusedInv
<1> QED
  BY DEF PlannerInit, Init

LEMMA RefusedNext == LayersInv /\ RefusedInv /\ [PlannerNext]_plannerVars => RefusedInv'
<1> SUFFICES ASSUME LayersInv, RefusedInv, [PlannerNext]_plannerVars PROVE RefusedInv'
  OBVIOUS
<1>1. ASSUME UNCHANGED layerVars
      PROVE  /\ building' = building /\ Disjoint(layer, todo)' = Disjoint(layer, todo)
             /\ \A m, n : KeptApart(m, n)' <=> KeptApart(m, n)
  BY <1>1 DEF layerVars, KeptApart, Graph, Placed
<1>2. CASE UNCHANGED plannerVars
  <2>1. UNCHANGED layerVars /\ UNCHANGED <<phase, refused>>
    BY <1>2 DEF plannerVars, vars
  <2> QED
    BY <1>1, <2>1 DEF RefusedInv
<1>3. CASE Lower
  <2>1. phase = "source" /\ phase' \in {"rejected", "submitted"} /\ refused' = refused
    BY <1>3, Zenon DEF Lower
  <2> QED
    BY <2>1 DEF RefusedInv
<1>4. CASE Hydrate \/ DedupNode \/ Rewrite
  <2>1. /\ phase \in {"submitted", "dedup"} /\ phase' \in {"validate", "dedup", "spinning"}
        /\ refused' = refused
    BY <1>4 DEF Hydrate, DedupNode, Rewrite
  <2> QED
    BY <2>1 DEF RefusedInv
<1>5. CASE Validate
  <2>1. /\ phase = "validate" /\ phase' \in {"rejected", "layers"} /\ refused' = refused
        /\ phase' = "layers" => layer' = {}
    BY <1>5, Zenon DEF Validate, SafeLayers
  <2> QED
    BY <2>1 DEF RefusedInv, Disjoint
<1>6. CASE Build
  BY <1>6, RefusedBuild
<1>7. CASE EliminateDeadNodes
  <2>1. CASE phase' = "batch"
    <3>1. phase = "dce" /\ UNCHANGED layerVars /\ refused' = refused
      BY <1>7, <2>1 DEF EliminateDeadNodes
    <3> QED
      BY <1>1, <2>1, <3>1 DEF RefusedInv
  <2>2. CASE phase' # "batch"
    <3>1. phase' = "relayers" /\ refused' = {} /\ layer' = {}
      BY <1>7, <2>2 DEF EliminateDeadNodes, SafeLayers
    <3> QED
      BY <3>1 DEF RefusedInv, Disjoint
  <2> QED
    BY <2>1, <2>2
<1>8. CASE LayersBuilt \/ Summarize
  <2>1. /\ phase \in {"layers", "relayers", "batch"}
        /\ phase' \in {"rejected", "engine", "dce", "batch", "explain"}
        /\ UNCHANGED layerVars /\ refused' = refused
    BY <1>8 DEF LayersBuilt, Summarize
  <2> QED
    BY <1>1, <2>1 DEF RefusedInv
<1>9. CASE MakeUnits \/ Explain
  <2>1. phase' \in {"rejected", "ready", "explained"}
    BY <1>9 DEF MakeUnits, Explain
  <2> QED
    BY <2>1 DEF RefusedInv
<1>10. CASE Ended /\ UNCHANGED source
  BY <1>2, <1>10 DEF Ended, plannerVars
<1> QED
  BY <1>2, <1>3, <1>4, <1>5, <1>6, <1>7, <1>8, <1>9, <1>10 DEF PlannerNext, Next

\* A closed set that has what n depends on has all that is upstream of n.
LEMMA UpstreamWithin ==
  ASSUME NEW D, NEW deps \in [D -> SUBSET D], NEW n \in D, IsFiniteSet(D),
         NEW X \in SUBSET D, deps[n] \subseteq X, \A x \in X : deps[x] \subseteq X
  PROVE  Upstream(deps, {n}) \subseteq X \cup {n}
<1>1. {n} \in SUBSET D
  OBVIOUS
<1>2. PICK r \in [Nat -> SUBSET D] :
        /\ r[0] = {n} /\ Upstream(deps, {n}) = r[Cardinality(D)]
        /\ \A k \in Nat \ {0} : r[k] = r[k - 1] \cup UNION {deps[x] : x \in r[k - 1]}
  BY <1>1, UpstreamFollows
<1> DEFINE T == {k \in Nat : r[k] \subseteq X \cup {n}}
<1>3. 0 \in T
  BY <1>2
<1>4. ASSUME NEW k \in Nat, k \in T PROVE k + 1 \in T
  <2>1. r[k] \subseteq X \cup {n} /\ k + 1 \in Nat \ {0} /\ (k + 1) - 1 = k
    BY <1>4
  <2>2. r[k + 1] = r[k] \cup UNION {deps[x] : x \in r[k]}
    BY <1>2, <2>1
  <2>3. \A x \in r[k] : deps[x] \subseteq X
    BY <2>1
  <2> QED
    BY <2>1, <2>2, <2>3
<1> HIDE DEF T
<1>5. \A k \in Nat : k \in T
  BY <1>3, <1>4, Induction
<1> QED
  BY <1>2, <1>5, FS_CardinalityType DEF T

\* Nodes kept apart are in different layers, and dependencies do not order them.
LEMMA ApartIsUnordered ==
  ASSUME LayersInv, building = "layered", NEW m, NEW n, KeptApart(m, n)
  PROVE  UnorderedCrossLayer(m, n) /\ UnorderedCrossLayer(n, m)
<1>1. /\ m \in Graph /\ n \in Graph /\ m # n
      /\ m \in Placed /\ \A i \in DOMAIN layers : m \in layers[i] => n \notin layers[i]
  BY DEF KeptApart
<1>2. PICK X \in SUBSET Graph :
        /\ m \notin X /\ n \notin X /\ dependencies[m] \subseteq X /\ dependencies[n] \subseteq X
        /\ \A x \in X : dependencies[x] \subseteq X
  BY DEF KeptApart
<1>3. dependencies \in [Graph -> SUBSET Graph] /\ IsFiniteSet(Graph) /\ Placed = Graph
  BY DEF LayersInv, LayerTypeOK, VerdictRight, Graph
<1>4. Upstream(dependencies, {m}) \subseteq X \cup {m} /\ Upstream(dependencies, {n}) \subseteq X \cup {n}
  BY <1>1, <1>2, <1>3, UpstreamWithin
<1>5. m \notin Upstream(dependencies, {n}) /\ n \notin Upstream(dependencies, {m})
  BY <1>1, <1>2, <1>4
<1>6. \A x \in Graph : LayerOf(x) \in DOMAIN layers /\ x \in layers[LayerOf(x)]
  <2> TAKE x \in Graph
  <2>1. \E i \in DOMAIN layers : x \in layers[i]
    BY <1>3 DEF Placed
  <2> QED
    BY <2>1, Zenon DEF LayerOf
<1>7. LayerOf(m) # LayerOf(n)
  BY <1>1, <1>6
<1> QED
  BY <1>5, <1>7 DEF UnorderedCrossLayer

\* Two nodes that may not run together lack a declaration, or one writes what
\* the other touches.
LEMMA WhyApart ==
  ASSUME NEW m \in DOMAIN effects, NEW n \in DOMAIN effects, m # n,
         ~CanRunWith(effects[m], effects[n]),
         UnorderedCrossLayer(m, n), UnorderedCrossLayer(n, m)
  PROVE  \/ m \in MissingEffects \/ n \in MissingEffects
         \/ \E r \in Written : m \in ConflictsOn(r) /\ n \in ConflictsOn(r)
<1>1. CASE ~effects[m].declared \/ ~effects[n].declared
  BY <1>1 DEF MissingEffects
<1>2. CASE effects[m].declared /\ effects[n].declared
  <2>1. PICK r : \/ r \in effects[m].writes /\ r \in effects[n].reads
                 \/ r \in effects[n].writes /\ r \in effects[m].reads
                 \/ r \in effects[m].writes /\ r \in effects[n].writes
    BY <1>2 DEF CanRunWith, Disjoint
  <2>2. r \in Written
    BY <1>2, <2>1 DEF Written
  <2> DEFINE declared == {x \in DOMAIN effects : effects[x].declared}
             writing == {x \in declared : r \in effects[x].writes}
             touching == writing \cup {x \in declared : r \in effects[x].reads}
  <2>3. ConflictsOn(r) = {x \in touching : \E y \in (IF x \in writing THEN touching ELSE writing) \ {x} :
                                              UnorderedCrossLayer(x, y)}
    BY Zenon DEF ConflictsOn
  <2>4. m \in touching /\ n \in touching /\ (m \in writing \/ n \in writing) /\ writing \subseteq touching
    BY <1>2, <2>1
  <2> HIDE DEF writing, touching
  <2>5. /\ n \in (IF m \in writing THEN touching ELSE writing) \ {m}
        /\ m \in (IF n \in writing THEN touching ELSE writing) \ {n}
    BY <2>4
  <2>6. m \in ConflictsOn(r) /\ n \in ConflictsOn(r)
    BY <2>3, <2>4, <2>5
  <2> QED
    BY <2>2, <2>6
<1> QED
  BY <1>1, <1>2

\* What ReportHonest says of the diagnostics.
RefusalsNamed ==
  \A pair \in refused :
    \/ {pair[1], pair[2]} \cap diagnostics.missing # {}
    \/ \E r \in DOMAIN diagnostics.conflicts : {pair[1], pair[2]} \subseteq diagnostics.conflicts[r]

LEMMA ExplainNames ==
  ASSUME CompileInv, LayersInv, BuildPhase, RefusedInv, Explain
  PROVE  RefusalsNamed'
<1>1. /\ phase = "explain" /\ refused' = refused
      /\ diagnostics' = [missing |-> MissingEffects, conflicts |-> [r \in Written |-> ConflictsOn(r)]]
  BY DEF Explain
<1>2. building = "layered" /\ DOMAIN effects = Graph
  BY <1>1 DEF BuildPhase, LayersInv, LayerTypeOK
<1>3. PICK named : named = [r \in Written |-> ConflictsOn(r)]
  OBVIOUS
<1>4. /\ diagnostics'.missing = MissingEffects /\ diagnostics'.conflicts = named
      /\ DOMAIN named = Written /\ \A r \in Written : named[r] = ConflictsOn(r)
  BY <1>1, <1>3
<1>5. ASSUME NEW pair \in refused
      PROVE  \/ {pair[1], pair[2]} \cap MissingEffects # {}
             \/ \E r \in Written : {pair[1], pair[2]} \subseteq ConflictsOn(r)
  <2>1. PICK m, n : m = pair[1] /\ n = pair[2]
    OBVIOUS
  <2>2. KeptApart(m, n)
    BY <1>1, <2>1 DEF RefusedInv
  <2>3. UnorderedCrossLayer(m, n) /\ UnorderedCrossLayer(n, m)
    BY <1>2, <2>2, ApartIsUnordered
  <2>4. m \in DOMAIN effects /\ n \in DOMAIN effects /\ m # n /\ ~CanRunWith(effects[m], effects[n])
    BY <1>2, <2>2 DEF KeptApart
  <2>5. \/ m \in MissingEffects \/ n \in MissingEffects
        \/ \E r \in Written : m \in ConflictsOn(r) /\ n \in ConflictsOn(r)
    BY <2>3, <2>4, WhyApart
  <2> QED
    BY <2>1, <2>5
<1> QED
  BY <1>1, <1>4, <1>5 DEF RefusalsNamed

LEMMA ExplainedNext ==
  ASSUME CompileInv, LayersInv, BuildPhase, RefusedInv, [PlannerNext]_plannerVars,
         phase = "explained" => RefusalsNamed, phase' = "explained"
  PROVE  RefusalsNamed'
<1>1. CASE UNCHANGED <<phase, refused, diagnostics>>
  BY <1>1 DEF RefusalsNamed
<1>2. CASE Explain
  BY <1>2, ExplainNames
<1>3. Explain \/ UNCHANGED <<phase, refused, diagnostics>>
  <2>1. ~Lower /\ ~Validate
    BY Zenon DEF Lower, Validate
  <2>2. ~(Hydrate \/ DedupNode \/ Rewrite \/ Build \/ LayersBuilt \/ EliminateDeadNodes
          \/ Summarize \/ MakeUnits)
    BY DEF Hydrate, DedupNode, Rewrite, Build, LayersBuilt, EliminateDeadNodes, Summarize, MakeUnits
  <2>3. Ended \/ UNCHANGED plannerVars => UNCHANGED <<phase, refused, diagnostics>>
    BY DEF Ended, plannerVars, vars
  <2> QED
    BY <2>1, <2>2, <2>3 DEF PlannerNext, Next
<1> QED
  BY <1>1, <1>2, <1>3

\* OptimizationReport and Explain are true of every compilation: calls_after
\* is the number of units the engine makes and no more than the calls
\* submitted, compiled_ms is at most serial_ms, and every pair of nodes the
\* layers refused to put together is named, for a missing declaration or by a
\* resource both touch.
THEOREM ReportTheorem == PlannerSpec => []ReportHonest
<1> DEFINE Explained == phase = "explained" => RefusalsNamed
           Rest == OriginInv /\ ReportInv /\ SummaryInv /\ RefusedInv /\ Explained
<1>1. PlannerInit => Rest
  <2> SUFFICES ASSUME PlannerInit PROVE phase \in {"source", "submitted"}
    BY OriginInit, ReportInvInit, RefusedInit DEF SummaryInv
  <2> QED
    BY DEF PlannerInit, Init
<1>2. CompileInv /\ LayersInv /\ BuildPhase /\ Rest /\ [PlannerNext]_plannerVars => Rest'
  <2> SUFFICES ASSUME CompileInv, LayersInv, BuildPhase, Rest, [PlannerNext]_plannerVars
               PROVE  Rest'
    OBVIOUS
  <2>1. OriginInv' /\ ReportInv' /\ SummaryInv' /\ RefusedInv'
    BY OriginNext, ReportInvNext, SummaryNext, RefusedNext
  <2>2. Explained'
    BY ExplainedNext
  <2> QED
    BY <2>1, <2>2
<1>3. ReportInv /\ SummaryInv /\ Explained => ReportHonest
  BY DEF ReportInv, SummaryInv, RefusalsNamed, ReportHonest
<1> HIDE DEF Explained
<1> QED
  BY <1>1, <1>2, <1>3, BuildInvAlways, PTL DEF PlannerSpec
=============================================================================
