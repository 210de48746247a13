---------------------------- MODULE EffectRules ----------------------------
(***************************************************************************)
(* The effect vocabulary of a plan: what a tool declares about its side    *)
(* effects, what a node's declaration resolves to, and which two nodes may *)
(* run at the same time.  Every other component (layers, lock table,       *)
(* scheduler, cache) is built on these rules.                              *)
(*                                                                         *)
(* Resources are abstract names; a template such as file:{path} has        *)
(* already been resolved against the node's input.                         *)
(***************************************************************************)
CONSTANTS Resource,   \* resolved resource names
          Tool        \* tool names

\* The side-effect part of a declaration.  A missing declaration is the
\* vacuous one: for_node gives both the same resolved effects.
Effects == [pure: BOOLEAN, reads: SUBSET Resource, writes: SUBSET Resource,
            commutative: BOOLEAN]

\* Effects::is_contradictory; validate refuses such a plan.
IsContradictory(e) == e.pure /\ e.writes # {}

\* Effects::declares_side_effects: a vacuous declaration says nothing.
DeclaresSideEffects(e) == e.pure \/ e.reads # {} \/ e.writes # {}

\* ResolvedEffects, over any tools and resources.
IsResolvedEffects(e) ==
  /\ e.declared \in BOOLEAN /\ e.pure \in BOOLEAN /\ e.commutative \in BOOLEAN

\* ResolvedEffects::for_node, of a node calling tool t declared with e.
ForNode(t, e) ==
  [tool |-> t, declared |-> DeclaresSideEffects(e), pure |-> e.pure,
   reads |-> e.reads, writes |-> e.writes, commutative |-> e.commutative]

Disjoint(S, T) == S \cap T = {}

\* ResolvedEffects::can_run_with.
CanRunWith(a, b) ==
  /\ a.declared /\ b.declared
  /\ \/ a.pure /\ b.pure
     \/ /\ Disjoint(a.writes, b.reads)
        /\ Disjoint(b.writes, a.reads)
        /\ \/ Disjoint(a.writes, b.writes)
           \/ a.tool = b.tool /\ a.commutative /\ b.commutative
=============================================================================
