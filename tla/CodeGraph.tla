----------------------------- MODULE CodeGraph ------------------------------
(***************************************************************************)
(* The code graph: what indexing writes (_legacy_indexer_service.py), what        *)
(* deletions take away (storage/neo4j/batch_repository.py) and what a traversal    *)
(* reads (storage/neo4j/edge_repository.py, adapters/storage, querying).          *)
(*                                                                          *)
(* Every query is a transaction of its own: a run of the indexer, a deletion and  *)
(* a traversal interleave between any two of theirs.                            *)
(***************************************************************************)
EXTENDS Integers, Sequences, SequencesExt

CONSTANTS
  Tree,         \* the repository as indexed: <<kind, node, parent>>, parents first
  Calls,        \* the calls between its symbols, as a sequence of pairs
  Imports,      \* the same of its files
  ChunksOf,     \* the chunks of each file, in the order of their lines
  Represents,   \* pairs of a symbol and a chunk it is defined in
  RecordLimit,  \* records a level of a traversal returns
  BatchLimit,   \* nodes one deleting query takes
  MaxDepth,     \* levels of a traversal
  MaxRuns,      \* bound of the model on runs of the indexer
  MaxErasures   \* bound of the model on deletions

Named     == {Tree[i][2] : i \in DOMAIN Tree}
FilesOf   == DOMAIN ChunksOf
AllChunks == UNION {ToSet(ChunksOf[f]) : f \in FilesOf}
AllNodes  == Named \cup AllChunks
KindOf(n) == IF n \in Named THEN Tree[CHOOSE i \in DOMAIN Tree : Tree[i][2] = n][1] ELSE "Chunk"

ASSUME CodeGraphAssumption ==
  /\ RecordLimit \in Nat \ {0} /\ BatchLimit \in Nat \ {0} /\ MaxDepth \in Nat \ {0} /\ MaxRuns \in Nat
  /\ MaxErasures \in Nat

\* An id is that of nodes of one kind.  Parents come before what they hold, a file holds
\* symbols and chunks, and a chunk is no node of the tree.
ASSUME RepositoryAssumption ==
  /\ Tree \in Seq({"Repo", "Directory", "File", "Symbol"} \X Named \X Named)
  /\ \A i, j \in DOMAIN Tree : Tree[i][2] = Tree[j][2] => Tree[i][1] = Tree[j][1]
  /\ \A i \in DOMAIN Tree : IF i = 1 THEN Tree[i][1] = "Repo"
                           ELSE Tree[i][1] # "Repo" /\ \E j \in 1..(i - 1) : Tree[j][2] = Tree[i][3]
  /\ \A i \in DOMAIN Tree : KindOf(Tree[i][3]) = "File" => Tree[i][1] = "Symbol"
  /\ Calls \in Seq(Named \X Named) /\ Imports \in Seq(Named \X Named)
  /\ \A f \in FilesOf : f \in Named /\ KindOf(f) = "File" /\ f # "repo" /\ ChunksOf[f] \in Seq(AllChunks)
  /\ AllChunks \cap Named = {} /\ Represents \subseteq Named \X AllChunks

VARIABLES
  graph,     \* the nodes and the edges <<from, type, to>> of the store
  indexing,  \* the runs of the indexer: how many, writes left, undisturbed so far, and
             \* whether the repository was indexed to its end
  erasing,   \* a deletion: of what, kinds left, the largest count, met by no run so far
  trace      \* a traversal, whether its start was gone when it was read, and the edges
             \* there throughout and at any time of it

graphVars == <<graph, indexing, erasing, trace>>

EdgeTypes == {"CONTAINS", "CALLS", "IMPORTS", "NEXT_CHUNK", "REPRESENTED_BY"}
Semantic  == {"CONTAINS", "CALLS", "IMPORTS"}
OfKind(kind) == {n \in graph.nodes : KindOf(n) = kind}

CodeGraphTypeOK ==
  /\ graph.nodes \subseteq AllNodes /\ graph.edges \subseteq graph.nodes \X EdgeTypes \X graph.nodes
  /\ indexing.runs \in 0..MaxRuns /\ indexing.clean \in BOOLEAN
  /\ erasing.count \in 0..MaxErasures /\ {erasing.clean, erasing.whole} \subseteq BOOLEAN /\ ToSet(erasing.kinds) \subseteq {"Chunk", "Symbol", "File", "Directory", "Repo"}
  /\ trace.at \in {"idle", "types", "start", "level", "done"} /\ trace.depth \in 0..MaxDepth
  /\ trace.found \subseteq AllNodes /\ trace.frontier \subseteq AllNodes /\ {trace.cut, trace.gone} \subseteq BOOLEAN

StartWith(g) ==
  /\ graph = g
  /\ indexing = [runs |-> 0, left |-> <<>>, clean |-> FALSE]
  /\ erasing = [count |-> 0, of |-> "none", kinds |-> <<>>, most |-> 0, clean |-> FALSE, whole |-> FALSE]
  /\ trace = [at |-> "idle", of |-> "none", legs |-> <<>>, types |-> {}, depth |-> 0, seen |-> {},
              frontier |-> {}, found |-> {}, edges |-> {}, cut |-> FALSE, gone |-> FALSE,
              steady |-> {}, ever |-> {}]

NoGraph == [nodes |-> {}, edges |-> {}]
CodeGraphInit == StartWith(NoGraph)

\* A change of the store, seen by the traversal under way.
Store(g) == /\ graph' = g
            /\ trace' = IF trace.at = "idle" THEN trace
                        ELSE [trace EXCEPT !.steady = @ \cap g.edges, !.ever = @ \cup g.edges]

-----------------------------------------------------------------------------
(***************************************************************************)
(* Indexing.  Nodes are merged; an edge one of whose ends is missing is silently  *)
(* not created, for CREATE_EDGE matches both.                                   *)
(***************************************************************************)

WithEdges(g, es) == [g EXCEPT !.edges = @ \cup {e \in es : {e[1], e[3]} \subseteq g.nodes}]

\* One write: a node, an edge, the chunks of a file with the edges that hold
\* them, the edges from chunk to chunk, and the links from symbols to chunks.
Written(g, w) ==
  CASE w[1] = "node"   -> [g EXCEPT !.nodes = @ \cup {w[2]}]
    [] w[1] = "edge"   -> WithEdges(g, {w[2]})
    [] w[1] = "chunks" -> WithEdges([g EXCEPT !.nodes = @ \cup ToSet(ChunksOf[w[2]])],
                                    {<<w[2], "CONTAINS", c>> : c \in ToSet(ChunksOf[w[2]])})
    [] w[1] = "next"   -> LET s == ChunksOf[w[2]]
                          IN  WithEdges(g, {<<s[i], "NEXT_CHUNK", s[i + 1]>> : i \in 1..(Len(s) - 1)})
    [] w[1] = "links"  -> WithEdges(g, {<<p[1], "REPRESENTED_BY", p[2]>> : p \in Represents})

NodeWrites(t) == IF t[1] = "Repo" THEN << <<"node", t[2]>> >>
                 ELSE << <<"node", t[2]>>, <<"edge", <<t[3], "CONTAINS", t[2]>> >> >>
Structure     == FlattenSeq([i \in DOMAIN Tree |-> NodeWrites(Tree[i])])
Related(pairs, type) == [i \in DOMAIN pairs |-> <<"edge", <<pairs[i][1], type, pairs[i][2]>> >>]
Relations     == Related(Calls, "CALLS") \o Related(Imports, "IMPORTS")
ChunkWrites   == FlattenSeq([i \in 1..Len(SetToSeq(FilesOf)) |->
                   << <<"chunks", SetToSeq(FilesOf)[i]>>, <<"next", SetToSeq(FilesOf)[i]>> >>])
                 \o << <<"links">> >>

\* Nodes with the edges that hold them, then the relationships, then the chunks.
Writes == Structure \o Relations \o ChunkWrites

StartIndexing ==
  /\ indexing.left = <<>> /\ indexing.runs < MaxRuns
  /\ indexing' = [runs |-> indexing.runs + 1, left |-> Writes, clean |-> erasing.kinds = <<>>]
  /\ erasing' = [erasing EXCEPT !.clean = FALSE]
  /\ UNCHANGED <<graph, trace>>

WriteNext ==
  /\ indexing.left # <<>>
  /\ Store(Written(graph, Head(indexing.left)))
  /\ indexing' = [indexing EXCEPT !.left = Tail(@)]
  /\ UNCHANGED erasing

\* The run is cancelled, pauses or dies.
StopIndexing ==
  /\ indexing.left # <<>>
  /\ indexing' = [indexing EXCEPT !.left = <<>>, !.clean = FALSE]
  /\ UNCHANGED <<graph, erasing, trace>>

-----------------------------------------------------------------------------
(***************************************************************************)
(* Deletion, of a repository or of a file: kind by kind, each counted first and  *)
(* then deleted by a query that takes at most BatchLimit of the kind, once.        *)
(***************************************************************************)

Without(g, ns) == [nodes |-> g.nodes \ ns,
                   edges |-> {e \in g.edges : {e[1], e[3]} \cap ns = {}}]

KindsFor(target) == IF target \in FilesOf THEN <<"Chunk", "Symbol", "File">>
                    ELSE <<"Chunk", "Symbol", "File", "Directory", "Repo">>

\* What a deletion finds of a kind: by the repository; or the chunks that name the
\* file, the symbols the file's node holds, and that node.
Found(target, kind) ==
  IF target \notin FilesOf THEN OfKind(kind)
  ELSE CASE kind = "Chunk"  -> graph.nodes \cap ToSet(ChunksOf[target])
         [] kind = "Symbol" -> {n \in OfKind("Symbol") : <<target, "CONTAINS", n>> \in graph.edges}
         [] kind = "File"   -> graph.nodes \cap {target}

StartErasing(target) ==
  /\ erasing.kinds = <<>> /\ erasing.count < MaxErasures
  /\ erasing' = [count |-> erasing.count + 1, of |-> target, kinds |-> KindsFor(target), most |-> 0, clean |-> indexing.left = <<>>,
                whole |-> indexing.clean /\ indexing.left = <<>>]
  /\ indexing' = [indexing EXCEPT !.clean = FALSE]
  /\ UNCHANGED <<graph, trace>>

EraseKind ==
  /\ erasing.kinds # <<>>
  /\ LET kind == Head(erasing.kinds)
         ns   == Found(erasing.of, kind)
     IN  /\ \E batch \in SUBSET ns :
              /\ Cardinality(batch) = Min({Cardinality(ns), BatchLimit})
              /\ Store(Without(graph, batch))
         /\ erasing' = [erasing EXCEPT !.kinds = Tail(@), !.most = Max({@, Cardinality(ns)})]
  /\ UNCHANGED indexing

-----------------------------------------------------------------------------
(***************************************************************************)
(* Traversal: the calls from or to a symbol, with the chains they make, or both    *)
(* directions over the types of edges there are.                                *)
(***************************************************************************)

\* Along the edges or against them.
OneWay == {<<"outgoing">>, <<"incoming">>}

\* Callers and callees: one traversal each way, the results merged.
Neighborhood == <<"outgoing", "incoming">>

FindSymbol(s, legs) ==
  /\ trace.at = "idle" /\ s \in OfKind("Symbol")
  /\ trace' = [trace EXCEPT !.at = IF legs = Neighborhood THEN "types" ELSE "start", !.of = s, !.legs = legs,
                            !.types = {"CALLS"}, !.steady = graph.edges, !.ever = graph.edges]
  /\ UNCHANGED <<graph, indexing, erasing>>

\* The types of edges in the repository; a failing look-up answers the usual ones.
AvailableTypes ==
  /\ trace.at = "types"
  /\ \E types \in {{e[2] : e \in graph.edges} \cap Semantic, Semantic} :
       trace' = [trace EXCEPT !.at = "start", !.types = types \cup {"CONTAINS"}]
  /\ UNCHANGED <<graph, indexing, erasing>>

ReadStart ==
  /\ trace.at = "start"
  /\ LET here == graph.nodes \cap {trace.of}
     IN  trace' = [trace EXCEPT !.at = "level", !.depth = 0, !.seen = here, !.found = @ \cup here,
                                !.frontier = {trace.of}, !.gone = here = {}]
  /\ UNCHANGED <<graph, indexing, erasing>>

\* Which end of an edge a traversal comes from, and which it goes to.
Ends(e) == IF Head(trace.legs) = "outgoing" THEN <<e[1], e[3]>> ELSE <<e[3], e[1]>>

\* What a level's query matches: edges from the frontier to nodes not seen.
Records == {e \in graph.edges :
              /\ e[2] \in trace.types
              /\ Ends(e)[1] \in trace.frontier /\ Ends(e)[2] \notin trace.seen}

\* Mutant: only the limit on records cuts a traversal short.
CutByLimit(records, reached) == Cardinality(records) >= RecordLimit

\* Whether a level leaves something out: records, or what lies beyond the last level.
CutBy(records, reached) == \/ Cardinality(records) >= RecordLimit
                           \/ reached # {} /\ trace.depth + 1 = MaxDepth

Level ==
  /\ trace.at = "level"
  /\ \E records \in SUBSET Records :
       /\ Cardinality(records) = Min({Cardinality(Records), RecordLimit})
       /\ LET reached == {Ends(e)[2] : e \in records} \ trace.seen
              over    == reached = {} \/ trace.depth + 1 = MaxDepth
          IN  trace' = [trace EXCEPT
                !.at = IF ~over THEN "level" ELSE IF Len(trace.legs) > 1 THEN "start" ELSE "done",
                !.legs = IF over /\ Len(@) > 1 THEN Tail(@) ELSE @,
                !.depth = @ + 1, !.seen = @ \cup reached, !.frontier = reached,
                !.found = @ \cup reached, !.edges = @ \cup records,
                !.cut = @ \/ CutBy(records, reached)]
  /\ UNCHANGED <<graph, indexing, erasing>>

\* The chains of calls a tool shows: depth first from the start, along the edges
\* returned, to a node that none of them leaves.
After(n) == {Ends(e)[2] : e \in {d \in trace.edges : Ends(d)[1] = n}}
Walks[k \in 0..Cardinality(AllNodes)] ==
  IF k = 0 THEN {<<trace.of>>}
  ELSE UNION {{Append(w, n) : n \in After(Last(w)) \ ToSet(w)} : w \in Walks[k - 1]}
Chains   == {w \in UNION {Walks[k] : k \in 0..Cardinality(trace.found)} : After(Last(w)) = {}}

StoreChanges ==
  \/ StartIndexing \/ WriteNext \/ StopIndexing
  \/ \E target \in FilesOf \cup {"repo"} : StartErasing(target)
  \/ EraseKind

CodeGraphNext ==
  \/ StoreChanges
  \/ \E n \in AllNodes, legs \in OneWay \cup {Neighborhood} : FindSymbol(n, legs)
  \/ AvailableTypes \/ ReadStart \/ Level

CodeGraphSpec == CodeGraphInit /\ [][CodeGraphNext]_graphVars

-----------------------------------------------------------------------------
(***************************************************************************)
(* What should hold.                                                          *)
(***************************************************************************)

\* Reference: what edges lead to from a node within k steps.
Reach(start, es, outgoing, k) ==
  LET hop(ns) == IF outgoing THEN {e[3] : e \in {d \in es : d[1] \in ns}}
                 ELSE {e[1] : e \in {d \in es : d[3] \in ns}}
      within[i \in 0..k] == IF i = 0 THEN {start} ELSE within[i - 1] \cup hop(within[i - 1])
  IN  within[k]

Sought(es, k) ==
  IF trace.types = {"CALLS"}
  THEN Reach(trace.of, {e \in es : e[2] = "CALLS"}, Head(trace.legs) = "outgoing", k)
  ELSE LET semantic == {e \in es : e[2] \in Semantic}
       IN  Reach(trace.of, semantic, TRUE, k) \cup Reach(trace.of, semantic, FALSE, k)

\* However the graph changes between its levels, a traversal reports no node that
\* was never within its depth, and one that is not marked truncated reports
\* everything the edges that were there throughout lead to, at any distance.
TraversalBetween ==
  trace.at = "done" =>
    /\ trace.found \subseteq Sought(trace.ever, MaxDepth)
    /\ ~trace.cut => Sought(trace.steady, Cardinality(AllNodes)) \subseteq trace.found \cup {trace.of}

\* Every symbol a trace of calls found is on one of the chains that are shown: a
\* recursive call or one to a symbol found earlier never hides a chain.  A start that
\* a deletion took before it was read, and a run put back, is not marked as seen: the
\* trace may find it again, and a cycle through it has no chain.
FoundOnChains ==
  trace.at = "done" /\ trace.types = {"CALLS"} /\ trace.edges # {} /\ ~trace.gone =>
    \A n \in trace.found : \E w \in Chains : n \in ToSet(w)

\* A run that no deletion met leaves every node of the repository and every edge
\* between them, whatever was there before: no edge is dropped for want of an end.
IndexIsWhole ==
  indexing.runs > 0 /\ indexing.left = <<>> /\ indexing.clean =>
    /\ AllNodes \subseteq graph.nodes
    /\ {<<Tree[i][3], "CONTAINS", Tree[i][2]>> : i \in 2..Len(Tree)} \subseteq graph.edges
    /\ {<<Calls[i][1], "CALLS", Calls[i][2]>> : i \in DOMAIN Calls} \subseteq graph.edges
    /\ {<<Imports[i][1], "IMPORTS", Imports[i][2]>> : i \in DOMAIN Imports} \subseteq graph.edges
    /\ \A f \in FilesOf : {<<f, "CONTAINS", c>> : c \in ToSet(ChunksOf[f])} \subseteq graph.edges
    /\ {<<p[1], "REPRESENTED_BY", p[2]>> : p \in Represents} \subseteq graph.edges

\* A deletion that met no run of the indexer, and found no more of a kind than a
\* query takes, leaves nothing of what it deleted; of a file, if its nodes were
\* whole, neither symbols nor chunks.
ErasureClears ==
  erasing.of # "none" /\ erasing.kinds = <<>> /\ erasing.clean /\ erasing.most <= BatchLimit =>
    IF erasing.of = "repo" THEN graph.nodes = {}
    ELSE /\ graph.nodes \cap ({erasing.of} \cup ToSet(ChunksOf[erasing.of])) = {}
         /\ erasing.whole => \A i \in DOMAIN Tree : Tree[i][3] = erasing.of => Tree[i][2] \notin graph.nodes

\* What a run of the indexer leaves in the graph, what a deletion leaves of it, and what a
\* traversal reports of it, whatever else happens between two of their steps.
CodeGraphInv == CodeGraphTypeOK /\ IndexIsWhole /\ ErasureClears /\ TraversalBetween /\ FoundOnChains

=============================================================================
