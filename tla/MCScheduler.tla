---------------------------- MODULE MCScheduler ----------------------------
(***************************************************************************)
(* Instances of Scheduler for TLC: small plans and the run configurations  *)
(* to execute them under.                                                  *)
(***************************************************************************)
EXTENDS Scheduler, Sequences

Eff(reads, writes) ==
  [pure |-> FALSE, reads |-> reads, writes |-> writes, commutative |-> FALSE]
Pure == [Eff({}, {}) EXCEPT !.pure = TRUE]

MCResource == {"a", "b"}
MCTool == {"get", "put", "calc", "shell", "edit", "fetch"}

NoDeps(S) == [n \in S |-> {}]
MCBatch == {u \in Unit : Cardinality(Members[u]) > 1}
NoToolLimit == [t \in Tool |-> NoLimit]

\* Every way to prepare the nodes with at most MaxOdd of them not running.
CONSTANT MaxOdd
MCPreparations ==
  {f \in [Node -> {"run", "condition", "error"}] :
     Cardinality({n \in Node : f[n] # "run"}) <= MaxOdd}

ConfigsWith(limits, cancels, panics) ==
  [on_error: {"FailFast", "Continue"}, max_concurrency: limits,
   cancel: cancels, panics: panics, serial: {FALSE}]

\* Units in the order of their index.
MCPosition == [u \in Unit |-> u - 1]

----------------------------------------------------------------------------
(* Single: two reads of one tool, a write that uses the first of them and  *)
(* conflicts with the second, a value computed from both results, and a    *)
(* call with undeclared effects that is only ordered after the first read. *)

SingleNode == {"load", "save", "scan", "sum", "sh"}
SingleMembers == <<{"load"}, {"save"}, {"scan"}, {"sh"}, {"sum"}>>
SingleToolOf == [load |-> "get", save |-> "put", scan |-> "get",
                 sh |-> "shell", sum |-> "calc"]
SingleDeclared == [load |-> Eff({"a"}, {}), save |-> Eff({"b"}, {"a"}),
                   scan |-> Eff({"a"}, {}), sh |-> Eff({}, {}), sum |-> Pure]
SingleDataDeps == [NoDeps(SingleNode) EXCEPT !.save = {"load"}, !.sum = {"load", "save"}]
SingleDeps == [SingleDataDeps EXCEPT !.sh = {"load"}]
SingleCost == <<0, 1, 0, 0, 0>>
\* The layers are {load, scan}, {save}, {sh} and {sum}.
SinglePosition == <<0, 2, 1, 3, 4>>
SingleLimit == [NoToolLimit EXCEPT !["get"] = 1]
SingleConfigs ==
  ConfigsWith({NoLimit, 1, 2}, BOOLEAN, {TRUE})
    \cup {[c EXCEPT !.serial = TRUE] : c \in ConfigsWith({NoLimit}, BOOLEAN, {TRUE})}

----------------------------------------------------------------------------
(* Batch: two writes in one batch group, each using a value of its own, a  *)
(* read of what one of them writes, and a node that uses the group.  A     *)
(* tool limit of zero, which nothing refuses, starves `load`, and `edit`,  *)
(* ordered after it, reads and writes one file.                            *)

BatchNode == {"p", "q", "put_p", "put_q", "scan", "use", "load", "edit"}
BatchMembers == <<{"put_p", "put_q"}, {"p"}, {"q"}, {"scan"}, {"use"}, {"load"}, {"edit"}>>
BatchToolOf == [p |-> "calc", q |-> "calc", put_p |-> "put", put_q |-> "put",
                scan |-> "get", use |-> "edit", load |-> "fetch", edit |-> "edit"]
BatchDeclared == [p |-> Pure, q |-> Pure, put_p |-> Eff({}, {"a"}),
                  put_q |-> Eff({}, {"b"}), scan |-> Eff({"a"}, {}),
                  use |-> Eff({"a"}, {"b"}), load |-> Eff({"a"}, {}),
                  edit |-> Eff({"a"}, {"a"})]
BatchDataDeps == [NoDeps(BatchNode) EXCEPT !.put_p = {"p"}, !.put_q = {"q"},
                                           !.use = {"put_p"}]
BatchDeps == [BatchDataDeps EXCEPT !.edit = {"load"}]
BatchCost == <<1, 0, 0, 3, 0, 0, 0>>
BatchLimit == [NoToolLimit EXCEPT !["fetch"] = 0]
BatchConfigs ==
  ConfigsWith({NoLimit, 2}, BOOLEAN, {FALSE}) \cup ConfigsWith({0}, {FALSE}, {FALSE})

\* One node that does not run, or both members of the group, and the last
\* node running or switched off.
BatchPreparations ==
  {f \in [Node -> {"run", "condition", "error"}] :
     LET odd == {n \in Node \ {"edit"} : f[n] # "run"}
     IN  /\ Cardinality(odd) <= 1 \/ odd = {"put_p", "put_q"}
         /\ f["load"] = "run" /\ f["edit"] # "error"}

\* Without the starved tool and what is ordered after it.
PlainNode == BatchNode \ {"load", "edit"}
PlainMembers == SubSeq(BatchMembers, 1, 5)
PlainDeclared == [n \in PlainNode |-> BatchDeclared[n]]
PlainToolOf == [n \in PlainNode |-> BatchToolOf[n]]
PlainDataDeps == [n \in PlainNode |-> BatchDataDeps[n]]
PlainCost == SubSeq(BatchCost, 1, 5)
PlainConfigs == ConfigsWith({NoLimit, 2}, BOOLEAN, {FALSE})
PanicConfigs == ConfigsWith({NoLimit}, {FALSE}, {TRUE})

----------------------------------------------------------------------------
(* Starved: a tool limit of zero, which nothing refuses.  One node uses    *)
(* the starved one, one is ordered after it and edits a file in place.     *)

StarvedNode == {"load", "edit", "use", "sh"}
StarvedMembers == <<{"edit"}, {"load"}, {"sh"}, {"use"}>>
StarvedToolOf == [load |-> "get", edit |-> "edit", use |-> "calc", sh |-> "shell"]
StarvedDeclared == [load |-> Eff({"a"}, {}), edit |-> Eff({"a"}, {"a"}),
                    use |-> Pure, sh |-> Eff({}, {})]
StarvedDataDeps == [NoDeps(StarvedNode) EXCEPT !.use = {"load"}]
StarvedDeps == [StarvedDataDeps EXCEPT !.edit = {"load"}]
StarvedCost == <<0, 0, 0, 0>>
StarvedLimit == [NoToolLimit EXCEPT !["get"] = 0]
StarvedConfigs == ConfigsWith({NoLimit, 0}, BOOLEAN, {TRUE})
=============================================================================
