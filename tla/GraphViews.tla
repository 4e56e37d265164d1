----------------------------- MODULE GraphViews -----------------------------
(***************************************************************************)
(* The views of a repository (visualization/querier.py): each kind of view  *)
(* asks the code graph one query or several, each a transaction of its own,   *)
(* draws what they answer and keeps it within a limit.  Runs of the indexer    *)
(* and deletions change the graph between two queries.                          *)
(*                                                                          *)
(* The queries have no order: a list cut at a limit is any part of that size.    *)
(* The router reads a view twice, once for the page and once for the lists of      *)
(* nodes and edges; each of the two is a view here.  Kinds of symbols and entry     *)
(* points, which nobody passes, and the rendering are left out.                      *)
(***************************************************************************)
EXTENDS CodeGraph

CONSTANTS
  FolderOf, Top,   \* the folder a file, or a folder, lies in; Top for none
  Requests,        \* the views asked for: the kind, the scope (the nodes below a path, or
                   \* all when none is named), the limit, and for a call chain the symbols a name
                   \* stands for and the leg
  EdgeLimit,       \* edges of a type the comprehensive view asks for
  MaxChanges,      \* bound: writes of the store between the first query of a view and the last
  MinConnections   \* calls that make a symbol a hotspot

VARIABLE view  \* the view: how far, of what, what it shows, and the graph there
               \* throughout and at any time of it

viewVars == <<graphVars, view>>

\* Python's s[:n] of the members of S in an unknown order; a bound below zero counts
\* from the end.
AnySlice(S, n) == {T \in SUBSET S : Cardinality(T) = IF n < 0 THEN Max({0, Cardinality(S) + n})
                                                  ELSE Min({n, Cardinality(S)})}

NodesOf(edges) == UNION {{e[1], e[3]} : e \in edges}

\* Mutant: a cut of the nodes leaves their edges.
AllOf(edges, nodes) == edges

Among(edges, nodes) == {e \in edges : {e[1], e[3]} \subseteq nodes}
OfType(type) == {e \in graph.edges : e[2] = type}

\* The folders in the path of a file.
FoldersTo[n \in DOMAIN FolderOf \cup {Top}] ==
  IF n = Top \/ FolderOf[n] = Top THEN {} ELSE {FolderOf[n]} \cup FoldersTo[FolderOf[n]]
FoldersOf(files) == UNION {FoldersTo[f] : f \in files}
Folders == FoldersOf(DOMAIN FolderOf)

\* The edges the views draw from paths: from a folder to what lies in it.
Folding(nodes) == {<<FolderOf[n], "CONTAINS", n>> : n \in {m \in nodes \cap DOMAIN FolderOf : FolderOf[m] \in nodes}}

NoView == [at |-> "idle", kind |-> "none", scope |-> {}, limit |-> 0, start |-> {}, leg |-> "none",
           nodes |-> {}, edges |-> {}, failed |-> FALSE, changes |-> 0, steady |-> NoGraph, ever |-> NoGraph]

\* Folders have ids of their own, a path ends, and every file has one.
ASSUME ViewsAssumption ==
  /\ IsFiniteSet(DOMAIN FolderOf) /\ \A n \in DOMAIN FolderOf : FoldersTo[n] \subseteq DOMAIN FolderOf
  /\ \A n \in Folders : KindOf(n) \notin {"Repo", "File", "Symbol"}
  /\ \A n \in Named : KindOf(n) = "File" => n \in DOMAIN FolderOf
  /\ \A r \in Requests : r.limit \in Nat
  /\ EdgeLimit \in Nat /\ MaxChanges \in Nat /\ MinConnections \in Nat

\* A repository that is indexed, and was found ready: its graph may change before a
\* view reads it.
Indexed[n \in 0..Len(Writes)] == IF n = 0 THEN NoGraph ELSE Written(Indexed[n - 1], Writes[n])
GraphViewsInit == StartWith(Indexed[Len(Writes)]) /\ view = NoView

-----------------------------------------------------------------------------
(***************************************************************************)
(* Asking for a view.                                                        *)
(***************************************************************************)

Generate(r) ==
  /\ view.at = "idle"
  /\ view' = [view EXCEPT !.at = IF r.scope = AllNodes THEN "read" ELSE "path", !.kind = r.kind, !.scope = r.scope,
                          !.limit = r.limit, !.start = r.start, !.leg = r.leg]
  /\ UNCHANGED graphVars

\* Without a file below the path, or when the query fails, there is no view.
PathExists ==
  /\ view.at = "path"
  /\ \E at \in {"refused"} \cup {"read" : f \in OfKind("File") \cap view.scope} : view' = [view EXCEPT !.at = at]
  /\ UNCHANGED graphVars

Reading(kind, at) == view.kind = kind /\ view.at = at

\* The first answer starts what is there throughout and at any time of the view.
Draw(at, nodes, edges) ==
  /\ view' = [view EXCEPT !.at = at, !.nodes = nodes, !.edges = edges,
                          !.steady = IF view.at = "read" THEN graph ELSE @,
                          !.ever = IF view.at = "read" THEN graph ELSE @]
  /\ UNCHANGED graphVars

\* A query that raises ends the view, which then shows nothing.
QueryFails ==
  /\ view.at \notin {"idle", "path", "refused", "done"} /\ view.kind # "full"
  /\ view' = [NoView EXCEPT !.at = "done", !.failed = TRUE]
  /\ UNCHANGED graphVars

-----------------------------------------------------------------------------
(***************************************************************************)
(* The views of one query, as the sets of what they may show.                *)
(***************************************************************************)

\* Mutant: folders come on top of the limit.
UncutArchitectures(limit) ==
  {FoldersOf(picked) \cup picked : picked \in AnySlice(OfKind("File") \cap view.scope, limit \div 2)}

\* Files with the folders they lie in: files make way when that is too much.
Architectures(limit) ==
  UNION {LET folders == FoldersOf(picked)
             excess  == Cardinality(folders \cup picked) - limit
         IN  IF excess <= 0 THEN {folders \cup picked}
             ELSE IF excess < Cardinality(picked) THEN {folders \cup kept : kept \in AnySlice(picked, -excess)}
             ELSE AnySlice(folders, limit)
         : picked \in AnySlice(OfKind("File") \cap view.scope, limit \div 2)}

ViewArchitecture ==
  /\ Reading("architecture", "read")
  /\ \E nodes \in Architectures(view.limit) : Draw("done", nodes, Folding(nodes))

\* A path is asked of the edges that came, three times as many as are shown.
InScope(edges) == {e \in edges : {e[1], e[3]} \cap view.scope # {}}
CallGraphs(limit) == UNION {AnySlice(InScope(came), limit) : came \in AnySlice(OfType("CALLS"), 3 * limit)}

ViewCalls ==
  /\ Reading("calls", "read")
  /\ \E edges \in CallGraphs(view.limit) : Draw("done", NodesOf(edges), edges)

\* What the query matches: the calls on a way from, or to, one of the symbols.
ChainCalls(calls, starts, leg) ==
  UNION {IF leg = "outgoing" THEN {e \in calls : e[1] \in Reach(start, calls, TRUE, MaxDepth - 1)}
         ELSE {e \in calls : e[3] \in Reach(start, calls, FALSE, MaxDepth - 1)} : start \in starts}

ViewCallChain ==
  /\ Reading("call_chain", "read")
  /\ \E edges \in AnySlice(ChainCalls(OfType("CALLS"), view.start, view.leg), view.limit) :
       Draw("done", NodesOf(edges), edges)

\* The loop ends with the edge that brings the nodes to the limit.
Dependencies(limit) ==
  UNION {{edges \in SUBSET InScope(came) :
            /\ edges = InScope(came) \/ Cardinality(NodesOf(edges)) >= limit
            /\ edges # {} => \E last \in edges : Cardinality(NodesOf(edges \ {last})) < limit}
         : came \in AnySlice({e \in OfType("IMPORTS") : e[1] # e[3]}, 3 * limit)}

ViewDependencies ==
  /\ Reading("dependencies", "read")
  /\ \E edges \in Dependencies(view.limit) : Draw("done", NodesOf(edges), edges)

-----------------------------------------------------------------------------
(***************************************************************************)
(* The views of several queries.                                              *)
(***************************************************************************)

\* The symbols with the most calls, then the calls between them.
Degree(edges, n) == Cardinality({e \in edges : e[1] = n}) + Cardinality({e \in edges : e[3] = n})
Connected(g) == LET calls == {e \in g.edges : e[2] = "CALLS"}
                IN  {n \in g.nodes : KindOf(n) = "Symbol" /\ Degree(calls, n) >= MinConnections}

ViewHotspots ==
  /\ Reading("hotspots", "read")
  /\ \E top \in AnySlice(Connected(graph), view.limit) :
       /\ \A n \in top, m \in Connected(graph) \ top :
            Degree(OfType("CALLS"), n) >= Degree(OfType("CALLS"), m)
       /\ Draw(IF top \cap view.scope = {} THEN "done" ELSE "between", top \cap view.scope, {})

HotspotEdges ==
  /\ Reading("hotspots", "between")
  /\ Draw("done", view.nodes, Among(OfType("CALLS"), view.nodes))

\* Three views in one, each with a third of the limit.  One that fails is empty.
FullArchitecture ==
  /\ Reading("full", "read")
  /\ \E nodes \in Architectures(view.limit \div 3) \cup {{}} : Draw("calls", nodes, Folding(nodes))

FullCalls ==
  /\ Reading("full", "calls")
  /\ \E edges \in CallGraphs(view.limit \div 3) \cup {{}} : Draw("imports", view.nodes, view.edges \cup edges)

\* The nodes a list of edges names first.
FirstNodes(edges) == {NodesOf(es) \cup ends : es \in SUBSET edges, ends \in {{}} \cup {{e[1]} : e \in edges}}

\* The nodes in the order of the three views, cut at the limit.
FullCut(shown, calls, imports) ==
  LET first  == shown \cup NodesOf(calls)
      all    == first \cup NodesOf(imports)
      fit(S) == {nodes \in S : Cardinality(nodes) = view.limit}
  IN  IF Cardinality(all) <= view.limit THEN {all}
      ELSE IF Cardinality(first) >= view.limit THEN fit({shown \cup more : more \in FirstNodes(calls)})
      ELSE fit({first \cup more : more \in FirstNodes(imports)})

FullDependencies ==
  /\ Reading("full", "imports")
  /\ \E imports \in Dependencies(view.limit - 2 * (view.limit \div 3)) \cup {{}} :
       \E nodes \in FullCut(view.nodes, {e \in view.edges : e[2] = "CALLS"}, imports) :
         Draw("done", nodes, Among(view.edges \cup imports, nodes))

\* Everything: the repository, the files with their folders, the symbols, what
\* holds them, and the edges between symbols, type by type.
ReadRepo ==
  /\ Reading("comprehensive", "read")
  /\ Draw("files", OfKind("Repo"), {})

ReadFiles ==
  /\ Reading("comprehensive", "files")
  /\ LET files == OfKind("File") \cap view.scope
     IN  Draw("symbols", view.nodes \cup files \cup FoldersOf(files), {})

ReadSymbols ==
  /\ Reading("comprehensive", "symbols")
  /\ LET roots == {n \in view.nodes \ Folders : KindOf(n) = "Repo"}
         tops  == {n \in view.nodes : n \in Folders /\ FoldersTo[n] = {}}
     IN  Draw("contents", view.nodes \cup (OfKind("Symbol") \cap view.scope),
              Folding(view.nodes) \cup {<<r, "CONTAINS", d>> : r \in roots, d \in tops})

ReadContents ==
  /\ Reading("comprehensive", "contents")
  /\ LET held == {e \in OfType("CONTAINS") : KindOf(e[1]) = "File" /\ KindOf(e[3]) = "Symbol"}
     IN  Draw("CALLS", view.nodes, view.edges \cup Among(held, view.nodes))

\* The types in the order they are asked for.
NextType == [type \in Semantic |-> CASE type = "CALLS" -> "IMPORTS" [] type = "IMPORTS" -> "CONTAINS"
                                     [] OTHER -> "cut"]

ReadRelations(type) ==
  /\ Reading("comprehensive", type)
  /\ LET between == {e \in OfType(type) : {KindOf(e[1]), KindOf(e[3])} = {"Symbol"}}
     IN  \E came \in AnySlice(between, EdgeLimit) :
           Draw(NextType[type], view.nodes, view.edges \cup Among(came, view.nodes))

\* Files and symbols share what the repository and the folders leave of the limit.
KeepWithinLimit ==
  /\ Reading("comprehensive", "cut")
  /\ LET frame   == {n \in view.nodes : n \in Folders \/ KindOf(n) = "Repo"}
         files   == {n \in view.nodes \ Folders : KindOf(n) = "File"}
         symbols == {n \in view.nodes : KindOf(n) = "Symbol"}
         rest    == view.limit - Cardinality(frame)
         share   == Min({Cardinality(files), rest \div 2})
     IN  \E fs \in AnySlice(files, share), ss \in AnySlice(symbols, rest - share) :
           LET nodes == IF Cardinality(view.nodes) <= view.limit THEN view.nodes ELSE frame \cup fs \cup ss
           IN  Draw("done", nodes, Among(view.edges, nodes))

-----------------------------------------------------------------------------
ViewNext ==
  \/ \E r \in Requests : Generate(r)
  \/ PathExists \/ QueryFails
  \/ ViewArchitecture \/ ViewCalls \/ ViewCallChain \/ ViewDependencies
  \/ ViewHotspots \/ HotspotEdges
  \/ FullArchitecture \/ FullCalls \/ FullDependencies
  \/ ReadRepo \/ ReadFiles \/ ReadSymbols \/ ReadContents
  \/ \E type \in Semantic : ReadRelations(type)
  \/ KeepWithinLimit

\* A change of the store, seen by the view under way; the model ends with the view.
GraphViewsNext ==
  \/ ViewNext
  \/ /\ StoreChanges /\ view.at \notin {"refused", "done"}
     /\ view.changes < MaxChanges
     /\ view' = IF view.at \in {"idle", "path", "read"} THEN view
                ELSE [view EXCEPT !.changes = @ + 1,
                                  !.steady = [nodes |-> @.nodes \cap graph'.nodes, edges |-> @.edges \cap graph'.edges],
                                  !.ever = [nodes |-> @.nodes \cup graph'.nodes, edges |-> @.edges \cup graph'.edges]]

GraphViewsSpec == GraphViewsInit /\ [][GraphViewsNext]_viewVars

-----------------------------------------------------------------------------
Shown == view.at = "done" /\ ~view.failed
ShownOf(kind) == {n \in view.nodes \ Folders : KindOf(n) = kind}

\* What a view shows was in the graph at some time of it, the folders as the paths
\* of files that were; every edge joins two nodes shown; and what is under the
\* path, or an edge of the view joins to it (a chain has no path, and the cut of the
\* full view may keep one end of such an edge).
ShownWasThere ==
  Shown =>
    /\ view.nodes \subseteq view.ever.nodes \cup FoldersOf({n \in view.ever.nodes : KindOf(n) = "File"})
    /\ NodesOf(view.edges) \subseteq view.nodes
    /\ view.edges \subseteq view.ever.edges \cup Folding(view.nodes)
         \cup {<<r, "CONTAINS", d>> : r \in ShownOf("Repo"), d \in (view.nodes \cap Folders)}
    /\ view.kind # "call_chain" /\ (view.kind = "full" => Cardinality(view.nodes) < view.limit)
         => ShownOf("File") \cup ShownOf("Symbol") \subseteq view.scope \cup NodesOf(InScope(view.edges))

\* A file is shown below its folders, however few nodes may be shown.
FoldersShown ==
  Shown /\ view.kind \in {"architecture", "comprehensive"} => FoldersOf(ShownOf("File")) \subseteq view.nodes

\* No view shows more than its limit, but for one more node of dependencies, and for
\* a comprehensive view whose folders alone pass it.
WithinLimit ==
  Shown =>
    CASE view.kind \in {"calls", "call_chain"} -> Cardinality(view.edges) <= view.limit
      [] view.kind = "dependencies" -> Cardinality(view.nodes) <= view.limit + 1
      [] view.kind = "comprehensive" ->
           \/ Cardinality(view.nodes) <= view.limit
           \/ Cardinality(ShownOf("Repo") \cup (view.nodes \cap Folders)) > view.limit
      [] OTHER -> Cardinality(view.nodes) <= view.limit

\* What a view of the whole repository must show of a graph if nothing cut it.
Due(g) ==
  LET calls == {e \in g.edges : e[2] = "CALLS"}
      kinds(K) == {n \in g.nodes \cap view.scope : KindOf(n) \in K}
  IN  CASE view.kind = "architecture" -> [nodes |-> kinds({"File"}), edges |-> {}]
        [] view.kind = "calls" -> [nodes |-> {}, edges |-> calls]
        [] view.kind = "call_chain" -> [nodes |-> {}, edges |-> ChainCalls(calls, view.start, view.leg)]
        [] view.kind = "dependencies" -> [nodes |-> {}, edges |-> {e \in g.edges : e[2] = "IMPORTS" /\ e[1] # e[3]}]
        [] view.kind = "hotspots" -> [nodes |-> Connected(g), edges |-> Among(calls, view.nodes)]
        [] view.kind = "comprehensive" ->
             [nodes |-> kinds({"Repo", "File", "Symbol"}),
              edges |-> {e \in Among(calls, view.nodes) : {KindOf(e[1]), KindOf(e[3])} = {"Symbol"}}]
        [] OTHER -> [nodes |-> {}, edges |-> {}]

\* The signs that a limit left something out: of the edges that came, of the nodes
\* shown, of the files that folders or symbols leave room for.  The calls that the
\* comprehensive view asks for may be those of symbols that came too late to be shown.
Cut ==
  \/ view.kind \in {"calls", "call_chain"} /\ Cardinality(view.edges) = view.limit
  \/ view.kind = "dependencies" /\ Cardinality(view.edges) = 3 * view.limit
  \/ view.kind \notin {"calls", "call_chain"} /\ Cardinality(view.nodes) >= view.limit
  \/ view.kind = "architecture" /\ Cardinality(ShownOf("File")) = view.limit \div 2
  \/ /\ view.kind = "comprehensive"
     /\ \/ Cardinality({e \in view.ever.edges : e[2] = "CALLS"}) >= EdgeLimit
        \/ Cardinality(ShownOf("File")) = (view.limit - Cardinality(ShownOf("Repo") \cup (view.nodes \cap Folders))) \div 2

\* A view of the whole repository that stays below its limits shows all that was there
\* throughout, whatever came and went between its queries.
SteadyShown ==
  Shown /\ ~Cut /\ view.scope = AllNodes =>
    Due(view.steady).nodes \subseteq view.nodes /\ Due(view.steady).edges \subseteq view.edges

\* What indexing and deletions leave in the graph, and what the views show of it.
GraphViewsInv == CodeGraphInv /\ ShownWasThere /\ FoldersShown /\ WithinLimit /\ SteadyShown

=============================================================================
