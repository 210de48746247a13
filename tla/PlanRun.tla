------------------------------ MODULE PlanRun ------------------------------
(***************************************************************************)
(* What executing a plan promises, without queues, locks or limits: the    *)
(* life of every node.  A node waits, may be started once, and ends with   *)
(* one verdict that never changes.  It starts only after everything it     *)
(* depends on has a verdict, with every output it references available,    *)
(* and beside nodes it may run with.                                       *)
(*                                                                         *)
(* Scheduler implements this specification.                                *)
(***************************************************************************)
EXTENDS EffectRules

CONSTANTS Node, ToolOf, Declared,
          Deps,       \* [Node -> SUBSET Node]: all dependencies
          DataDeps    \* [Node -> SUBSET Node]: the ones it references

VARIABLE status       \* [Node -> NodeStatus]

NodeStatus == {"pending", "active", "ok", "failed", "skipped"}
Verdicts == {"ok", "failed", "skipped"}

RunInit == status = [n \in Node |-> "pending"]

LegalChange(from, to) ==
  \/ from = to
  \/ from = "pending" /\ to \in {"active", "failed", "skipped"}
  \/ from = "active" /\ to \in {"ok", "failed"}

MayStart(n) ==
  /\ \A d \in Deps[n] : status[d] \in Verdicts
  /\ \A d \in DataDeps[n] : status[d] = "ok"
  /\ \A m \in Node : status[m] = "active" =>
       CanRunWith(ForNode(ToolOf[m], Declared[m]), ForNode(ToolOf[n], Declared[n]))

RunStep ==
  /\ status' \in [Node -> NodeStatus]
  /\ \A n \in Node :
       /\ LegalChange(status[n], status'[n])
       /\ status[n] # "active" /\ status'[n] = "active" => MayStart(n)

RunSpec == RunInit /\ [][RunStep]_status
=============================================================================
