--------------------------- MODULE MCSharedCache ---------------------------
(***************************************************************************)
(* Instances of SharedCache for TLC: two writers and up to four reads of   *)
(* three resources, in one run or spread over two.  The tool join names    *)
(* one of the two resources it reads by a template.                        *)
(***************************************************************************)
EXTENDS SharedCache

Eff(reads, writes) ==
  [pure |-> FALSE, reads |-> reads, writes |-> writes, commutative |-> FALSE]

\* "path" is the template itself: what it resolves to while its placeholder is
\* a reference.
MCResource == {"a", "b", "c", "path"}
MCTool == {"get", "join", "put", "copy"}

\* get_1 and get_2 are one call, get_3 and get_4 another.  join and join_ref are
\* one call as well, of a and of the file that is named by a template; the path
\* of join_ref is a reference, and it may be a member of a batch group.
OneRunNode == {"get_3", "get_4", "join", "join_ref", "put", "copy"}
TwoRunNode == {"get_1", "get_2", "put", "copy"}
TemplateNode == {"join", "join_ref", "copy"}

MCToolOf == [n \in Node |-> CASE n \in {"join", "join_ref"} -> "join"
                              [] n \in {"put", "copy"} -> n [] OTHER -> "get"]
MCTouched == [n \in Node |->
  [reads |-> CASE n \in {"join", "join_ref"} -> {"a", "c"} [] n = "put" -> {}
               [] n \in {"get_3", "get_4"} -> {"b"} [] OTHER -> {"a"},
   writes |-> CASE n = "put" -> {"a"} [] n = "copy" -> {"b", "c"} [] OTHER -> {}]]
\* Resolved when the plan is validated.
MCDeclared == [n \in Node |-> IF n = "join_ref" THEN Eff({"a", "path"}, {})
                              ELSE Eff(Touched[n].reads, Touched[n].writes)]

\* The key holds the input of the call, with its references filled in.
MCKey == {"get a", "get b", "join"}
MCKeyOf == [n \in Node |-> CASE n \in {"join", "join_ref"} -> "join"
                             [] n \in {"put", "copy"} -> NoKey
                             [] n \in {"get_3", "get_4"} -> "get b" [] OTHER -> "get a"]

OneRun == [n \in Node |-> 1]
\* The second run only reads.
TwoRuns == [n \in Node |-> IF n = "get_1" THEN 2 ELSE 1]
=============================================================================
