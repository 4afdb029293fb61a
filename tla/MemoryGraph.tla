---------------------------- MODULE MemoryGraph ----------------------------
(***************************************************************************)
(* The memory graph of a repository (memory_graph/extractor.py,            *)
(* graph_db.py) and the part of it that the latent model sees of an edit   *)
(* (models/cpg_features.py): offline, when the dataset builder labels a    *)
(* mutant (data/mutate.py, dataset.py), and online, when a branch is       *)
(* scored or harvested.                                                    *)
(*                                                                         *)
(* A text is the sequence of its definitions in the order of their first   *)
(* lines, with for each the definition it stands in (0: none) and the      *)
(* names its own lines call.  The blocks a body is made of, signatures and *)
(* sizes are left out.                                                     *)
(***************************************************************************)
EXTENDS Integers, Sequences, FiniteSets, SequencesExt

CONSTANTS
  Path,   \* the Python files of the repository
  Text    \* [parses, imports: SUBSET Path, defs: Seq([kind, name, within, calls])]

(* What an instance has to assume. *)
MemoryGraphAssumption ==
  /\ IsFiniteSet(Path) /\ Path # {}
  /\ \A t \in Text : /\ t.parses \in BOOLEAN /\ t.imports \subseteq Path
                     /\ Len(t.defs) \in Nat /\ DOMAIN t.defs = 1 .. Len(t.defs)
                     /\ \A i \in DOMAIN t.defs : /\ t.defs[i].within \in 0 .. i - 1
                                                 /\ t.defs[i].kind \in {"function", "class"}

VARIABLES
  repo,    \* the text of each file on disk
  g,       \* MemoryGraph.g
  current  \* the graph was built from what is on disk

vars == <<repo, g, current>>

Empty == [node |-> {}, edge |-> {}]
-----------------------------------------------------------------------------
(* extract_file_nodes. *)
Def(f)         == repo[f].defs
Index(f)       == DOMAIN Def(f)
FunctionsOf(f) == {i \in Index(f) : Def(f)[i].kind = "function"}
Module(f)      == <<f, <<>>>>

(* The definition and those it stands in. *)
Around(f) ==
  LET around[i \in Index(f)] ==
        {i} \cup IF Def(f)[i].within = 0 THEN {} ELSE around[Def(f)[i].within]
  IN  around

QualName(f) ==
  LET qual[i \in Index(f)] ==
        IF Def(f)[i].within = 0 THEN <<Def(f)[i].name>>
        ELSE Append(qual[Def(f)[i].within], Def(f)[i].name)
  IN  qual

NodeId(f, i) == <<f, QualName(f)[i]>>

(* ast.walk over a function: the calls of what is nested in it are its own. *)
CallsIn(f, i) == UNION {Def(f)[j].calls : j \in {k \in Index(f) : i \in Around(f)[k]}}

Parsed == {f \in Path : repo[f].parses}

-----------------------------------------------------------------------------
(* build_graph, for the files in the order in which rglob finds them. *)
ScanOrders == {o \in [1 .. Cardinality(Path) -> Path] : ToSet(o) = Path}

Rank(order, f) == CHOOSE k \in DOMAIN order : order[k] = f
Named(name) == {d \in UNION {{f} \X FunctionsOf(f) : f \in Parsed} :
                  Def(d[1])[d[2]].name = name}

(* name_to_id: of the functions of that name, the first one scanned. *)
CalleeOf(order, f, name) ==
  {NodeId(d[1], d[2]) : d \in {e \in Named(name) :
     \A h \in Named(name) : IF h[1] = e[1] THEN e[2] <= h[2]
                           ELSE Rank(order, e[1]) < Rank(order, h[1])}}

Extract(order) ==
  [node |-> UNION {{Module(f)} \cup {NodeId(f, i) : i \in Index(f)} : f \in Parsed},
   edge |-> UNION {
     {<<Module(f), NodeId(f, i), "CONTAINS">> : i \in Index(f)}
     \cup {<<Module(f), Module(m), "IMPORTS">> : m \in repo[f].imports \cap Parsed}
     \cup UNION {{<<NodeId(f, i), callee, "CALLS">> :
                    callee \in UNION {CalleeOf(order, f, c) : c \in CallsIn(f, i)}} :
                 i \in FunctionsOf(f)} : f \in Parsed}]

Added(old, new) == [node |-> old.node \cup new.node, edge |-> old.edge \cup new.edge]

-----------------------------------------------------------------------------
Init == repo \in [Path -> Text] /\ g = Empty /\ current = FALSE

(* A patch is merged, or somebody edits the file. *)
Edit ==
  /\ \E f \in Path : \E t \in Text \ {repo[f]} : repo' = [repo EXCEPT ![f] = t]
  /\ current' = FALSE
  /\ UNCHANGED g

(* MemoryGraph(repo).build_graph(), once for every task. *)
Build ==
  /\ \E order \in ScanOrders : g' = Added(Empty, Extract(order))
  /\ current' = TRUE
  /\ UNCHANGED repo

StaleRemoved(edited) ==   \* mutant of Cleared
  LET left == {n \in g.node : n[1] \notin edited}
  IN  [node |-> left, edge |-> {e \in g.edge : e[1] \in left /\ e[2] \in left}]
(* update_graph_on_patch removes the nodes of the edited files, then all. *)
Cleared(edited) == Empty

UpdateOnPatch ==
  /\ g # Empty
  /\ \E edited \in SUBSET Path, order \in ScanOrders :
       g' = Added(Cleared(edited), Extract(order))
  /\ current' = TRUE
  /\ UNCHANGED repo

Next == Edit \/ Build \/ UpdateOnPatch
Spec == Init /\ [][Next]_vars

-----------------------------------------------------------------------------
(* subgraph_from_seeds, and get_subgraph of a file. *)
SuccessorsOnly(n) == {m \in g.node : \E e \in g.edge : e[1] = n /\ e[2] = m}  \* mutant of Adjacent
Adjacent(n) == {m \in g.node : \E e \in g.edge : {e[1], e[2]} = {n, m}}

Within(seeds, depth) ==
  LET grown[d \in 0 .. depth] ==   \* <<keep, frontier>> after d rounds
        IF d = 0 THEN LET known == seeds \cap g.node IN <<known, known>>
        ELSE LET nxt == UNION {Adjacent(n) : n \in grown[d - 1][2]}
             IN  <<grown[d - 1][1] \cup nxt, nxt>>
  IN  grown[depth][1]

OfFile(f) == {n \in g.node : n[1] = f}

(* build_cpg_features: centred on the named functions, else the whole file. *)
Centred(f, names) ==
  LET seeds == {<<f, <<n>>>> : n \in names} \cap g.node
  IN  IF seeds # {} THEN Within(seeds, 1) ELSE Within(OfFile(f), 1)

(* blast_radius, before it is scaled: nx.ancestors over the CALLS edges. *)
Callers(ns) == {e[1] : e \in {c \in g.edge : c[3] = "CALLS" /\ c[2] \in ns}}
Ancestors(n) ==
  LET up[d \in 0 .. Cardinality(g.node)] ==
        IF d = 0 THEN {n} ELSE up[d - 1] \cup Callers(up[d - 1])
  IN  up[Cardinality(g.node)] \ {n}

Norm == 8
BlastRadius(n) ==
  LET callers == Cardinality(Ancestors(n)) IN IF callers > Norm THEN Norm ELSE callers

(* A line belongs to the body of definition i or to its decorators; i = 0 for  *)
(* a line of the module.                                                       *)
Part == {"body", "decorator"}

(* mutate._scope_map: the bare name of the innermost function around a line of *)
(* definition i; ast.walk counts its decorators in.                            *)
NearestDefinition(f, i) ==   \* mutant of Scope
  IF i = 0 THEN {} ELSE {Def(f)[i].name}
Scope(f, i) ==
  IF i = 0 THEN {}
  ELSE LET fns == Around(f)[i] \cap FunctionsOf(f)
       IN  {Def(f)[j].name : j \in {k \in fns : \A h \in fns : h <= k}}

(* changed_function_names after an edit of a line: of the functions of one     *)
(* name the last that ast.walk meets counts, and the names are in the order in *)
(* which it meets the first.                                                   *)
Before(f, i, j) ==
  LET depth(k) == Len(QualName(f)[k])
  IN  depth(i) < depth(j) \/ (depth(i) = depth(j) /\ i < j)
Namesakes(f, i) == {j \in FunctionsOf(f) : Def(f)[j].name = Def(f)[i].name}
LastNamed(f, i) == CHOOSE j \in Namesakes(f, i) : \A k \in Namesakes(f, i) : ~Before(f, j, k)

(* ast.get_source_segment leaves a definition's own decorators out.            *)
Holding(f, i, part) ==
  IF i = 0 THEN {} ELSE Around(f)[i] \ {j \in {i} : part = "decorator"}

ChangedFunctions(f, i, part) ==
  {j \in FunctionsOf(f) : LastNamed(f, j) \in Holding(f, i, part)}
ChangedNames(f, i, part) == {Def(f)[j].name : j \in ChangedFunctions(f, i, part)}
FirstChanged(f, i, part) ==
  {Def(f)[j].name : j \in {k \in ChangedFunctions(f, i, part) :
     \A h \in ChangedFunctions(f, i, part) : ~Before(f, h, k)}}

RiskOf(f, names) == {BlastRadius(<<f, <<n>>>>) : n \in names}

-----------------------------------------------------------------------------
TypeOK ==
  /\ repo \in [Path -> Text] /\ current \in BOOLEAN
  /\ \A e \in g.edge : e[1] \in g.node /\ e[2] \in g.node

(* What the prompt and the features show of a file is everything within the   *)
(* asked distance of it, along edges in either direction, and nothing else.   *)
NeighbourhoodIsRight ==
  \A f \in Path, depth \in 0 .. 2 :
    Within(OfFile(f), depth) =
      {n \in g.node : \E k \in 0 .. depth : \E path \in [0 .. k -> g.node] :
         /\ path[0] \in OfFile(f) /\ path[k] = n
         /\ \A s \in 1 .. k : \E e \in g.edge : {e[1], e[2]} = {path[s - 1], path[s]}}

CalledAs(n, name) ==
  {m \in g.node : <<n, m, "CALLS">> \in g.edge /\ Last(m[2]) = name}

(* A graph that was just built or updated holds the repository as it is now:  *)
(* for every name that a function calls and that the repository defines, one  *)
(* call edge, and no node or edge of a text that is gone.                     *)
GraphIsFresh ==
  current =>
    /\ \E order \in ScanOrders : g = Extract(order)
    /\ \A f \in Parsed : \A i \in FunctionsOf(f) : \A name \in CallsIn(f, i) :
         Named(name) # {} => Cardinality(CalledAs(NodeId(f, i), name)) = 1

(* The order in which the file system lists the files shows only where a      *)
(* function name is defined in two of them: elsewhere the features of a copy  *)
(* of the repository are those of the repository.                             *)
ScanOrderMattersNot ==
  current /\ (\A name \in UNION {{Def(f)[i].name : i \in FunctionsOf(f)} : f \in Parsed} :
                Cardinality({d[1] : d \in Named(name)}) = 1)
    => \A order \in ScanOrders : g = Extract(order)

(* The graph is that of the repository, and what is cut out of it that around *)
(* the file.                                                                  *)
GraphIsRight == NeighbourhoodIsRight /\ GraphIsFresh /\ ScanOrderMattersNot

(* The line is in no decorator of a function, in no nested function and in no *)
(* function that shares its name.                                             *)
HeldByOne(f, i, part) ==
  i # 0 => /\ part = "body" \/ Def(f)[i].kind = "class"
           /\ \A j \in Around(f)[i] \cap FunctionsOf(f) :
                Around(f)[i] \cap FunctionsOf(f) = {j} /\ Namesakes(f, j) = {j}

(* "no train/serve skew" (cpg_features.py:5): the graph and the risk that the *)
(* dataset builder records for an edit of one definition are those that are   *)
(* computed for the same edit when it is scored and harvested, for code that  *)
(* is in no decorator of a function, which only the builder counts as part of *)
(* it, in no nested function and in no function that shares its name.         *)
TrainAndServeAgree ==
  \A f \in Parsed, part \in Part : \A i \in 0 .. Len(Def(f)) :
    current /\ HeldByOne(f, i, part) =>
      /\ Centred(f, Scope(f, i)) = Centred(f, ChangedNames(f, i, part))
      /\ RiskOf(f, Scope(f, i)) = RiskOf(f, FirstChanged(f, i, part))
=============================================================================
