---------------------------- MODULE MCLockTable ----------------------------
(***************************************************************************)
(* Instances of LockTable for TLC: one unit for every way two requests can *)
(* meet on three resources.                                                *)
(***************************************************************************)
EXTENDS LockTable, SequencesExt

Eff(reads, writes) ==
  [pure |-> FALSE, reads |-> reads, writes |-> writes, commutative |-> FALSE]
Comm(reads, writes) == [Eff(reads, writes) EXCEPT !.commutative = TRUE]
Pure(reads) == [Eff(reads, {}) EXCEPT !.pure = TRUE]

\* name -> <<tool, declaration>>
Catalogue ==
  [read1   |-> <<"get", Eff({"a"}, {})>>,
   read2   |-> <<"get", Eff({"a", "b"}, {})>>,
   pure1   |-> <<"calc", Pure({"a"})>>,
   pure2   |-> <<"calc", Pure({})>>,
   write1  |-> <<"put", Eff({}, {"a"})>>,
   write2  |-> <<"put", Eff({"b"}, {"a"})>>,
   incr1   |-> <<"incr", Comm({}, {"b"})>>,
   incr2   |-> <<"incr", Comm({}, {"a", "b"})>>,
   incr3   |-> <<"incr", Comm({"a"}, {"b"})>>,
   read3   |-> <<"get", Eff({"c"}, {})>>,
   write3  |-> <<"put", Eff({}, {"c"})>>,
   incr4   |-> <<"incr", Comm({}, {"b", "c"})>>,
   log1    |-> <<"log", Comm({}, {"b"})>>,
   vacuous |-> <<"shell", Eff({}, {})>>,
   get1    |-> <<"get", Eff({"a"}, {})>>,
   get2    |-> <<"get", Eff({"b"}, {})>>,
   bump1   |-> <<"bump", Comm({}, {"a"})>>,
   bump2   |-> <<"bump", Comm({}, {"a"})>>,
   bump3   |-> <<"bump", Comm({}, {"a"})>>,
   bump4   |-> <<"bump", Comm({}, {"b"})>>,
   edit1   |-> <<"edit", Eff({"a"}, {"a"})>>,
   edit2   |-> <<"edit", Eff({"a"}, {"a"})>>,
   edit3   |-> <<"edit", Eff({"b"}, {"b"})>>]

MCToolOf == [n \in DOMAIN Catalogue |-> Catalogue[n][1]]
MCDeclared == [n \in DOMAIN Catalogue |-> Catalogue[n][2]]
MCNode == DOMAIN Catalogue
MCTool == {"get", "calc", "put", "incr", "log", "shell", "bump", "edit"}
MCResource == {"a", "b", "c"}

\* A unit is named by its nodes.
MCMembers == [u \in Unit |-> u]
MCBatch == {u \in Unit : Cardinality(u) > 1}

Singles(names) == {{n} : n \in names}

\* Every kind of request, batch groups included.
AllUnits ==
  Singles({"read1", "read2", "pure1", "pure2", "write1", "write2", "incr1",
           "incr2", "incr3", "incr4", "log1", "vacuous", "edit1", "read3", "write3"})
  \cup {{"get1", "get2"}, {"bump1", "bump2"}}

\* A batch group of commutative writes next to a single one of the same tool.
CommutativeUnits == {{"bump1", "bump4"}, {"bump2"}, {"bump3"}}

\* docs/effects.md:69-70 declares reads and writes of one file.
EditUnits == Singles({"edit1", "edit2", "edit3"})

\* The request Engine::new gives a batch group: the loop over its members.
BatchLoop(S) ==
  FoldLeft(LAMBDA req, n : Merge(req, ForEffects(Effective(n))),
           DefaultRequest, SetToSeq(S))

\* The closed form of the batch request is what the merge loop of Engine::new
\* (engine.rs:139-143) computes, for every group of nodes.
ASSUME BatchRequestIsTheLoop ==
  \A S \in SUBSET {"read2", "pure2", "write2", "incr1", "incr2", "log1",
                   "vacuous"} : S # {} => BatchRequest(S) = BatchLoop(S)
=============================================================================
