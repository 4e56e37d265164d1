------------------------- MODULE MCKnowledgeBase -------------------------
(***************************************************************************)
(* The small instances of the parts of the knowledge base, checked together: *)
(* a behaviour is one of one part, the others rest in an initial state.        *)
(***************************************************************************)
EXTENDS GraphViews, Retrieval, Chunker, EmbeddingBatches, Symbols

VARIABLE part   \* the part that moves

partVars == <<part, viewVars, retrievalVars, chunkVars, batchVars, symbolVars>>

------------------------------------------------------------------------------
\* Two files, one of them with chunks; calls that make a cycle.
MCTree == << <<"Repo","R","R">>, <<"File","F","R">>, <<"Symbol","a","F">>, <<"Symbol","b","F">>,
             <<"File","G","R">>, <<"Symbol","c","G">> >>
MCCalls == << <<"a","c">>, <<"c","b">>, <<"c", "a">> >>
MCImports == << <<"F","G">> >>
MCChunksOf == [f \in {"F"} |-> <<"k","l">>]
MCRepresents == {<<"a","k">>}

\* For the views: folders in folders, and a path below which there is a file.
MCFolderOf == "F" :> "X" @@ "X" :> "top" @@ "G" :> "E" @@ "E" :> "D" @@ "D" :> "top"
MCBelow == {"G", "c"}

Asked(kind, scope, limit) == [kind |-> kind, scope |-> scope, limit |-> limit, start |-> {}, leg |-> "none"]
MCRequests ==
  {Asked("architecture", scope, limit) : scope \in {AllNodes, MCBelow}, limit \in {2, 4, 12}} \cup
  {Asked(kind, scope, limit) : kind \in {"calls", "dependencies", "hotspots"}, scope \in {AllNodes, MCBelow},
                             limit \in {1, 12}} \cup
  {[Asked("call_chain", AllNodes, limit) EXCEPT !.start = start, !.leg = leg] :
     start \in {{}, {"b"}, {"a", "b"}}, leg \in {"outgoing", "incoming"}, limit \in {1, 12}} \cup
  {Asked("full", AllNodes, 6), Asked("full", MCBelow, 12)} \cup
  {Asked("comprehensive", AllNodes, 3), Asked("comprehensive", AllNodes, 12), Asked("comprehensive", MCBelow, 12)}

\* Three chunks: the bonus of the current file reverses two, the budget leaves one out.
MCFileOf == [c \in 1..3 |-> IF c = 3 THEN "g" ELSE "f"]
MCTokensOf == [c \in 1..3 |-> <<2, 1, 3>>[c]]
MCSimilarity == [c \in 1..3 |-> <<3, 8, 6>>[c]]
MCBonus == [file |-> 2, directory |-> 1]

\* Outlines of files of up to four lines: plain, split, nested.
Sym(k, p, a, b) == [kind |-> k, inner |-> p, first |-> a, last |-> b]
MCOutlines ==
  { <<Sym("class", FALSE, 1, 2)>>, <<Sym("function", FALSE, 1, 3)>>,
    <<Sym("method", TRUE, 1, 2), Sym("method", TRUE, 3, 4)>>,
    <<Sym("function", FALSE, 2, 4), Sym("function", TRUE, 3, 3), Sym("method", TRUE, 4, 4)>> }

\* Lists with blank and repeated texts.
MCLists == UNION {[1..n -> {"a", "b", ""}] : n \in 1..3}

------------------------------------------------------------------------------
(***************************************************************************)
(* Repositories of two or three files.  The syntax trees of their files are    *)
(* in preorder, and a node lies where its language lets it.                      *)
(***************************************************************************)

N(type, name, up) == [type |-> type, name |-> name, up |-> up]

WellFormed(t) ==
  \A i \in DOMAIN t :
    /\ t[i].up < i /\ (i > 1 => t[i].up \in Above(t, i - 1) \cup {0})
    /\ t[i].up # 0 => t[t[i].up].type \in {"function", "class", "method", "arrow", "interface"}
    /\ t[i].type \in {"base", "qualified_base", "implements", "decorator", "method"} => t[i].up # 0
    /\ t[i].type \in {"base", "qualified_base"} => t[t[i].up].type \in {"class", "interface"}
    /\ t[i].type \in {"implements", "method"} => t[t[i].up].type = "class"
    /\ t[i].type = "decorator" => t[t[i].up].type \in {"class", "function"}

TreesOf(types, n) == {t \in [1..n -> [type : types, name : {"a", "b"}, up : 0..2]] : WellFormed(t)}

PythonTrees ==
  TreesOf({"function", "class", "call", "base"}, 3) \cup
  { <<N("function", "a", 0), N("decorator", "b", 1), N("member_call", "b", 1)>>,
    <<N("class", Unnamed, 0), N("function", "b", 1), N("function", "a", 0), N("call", "b", 3)>>,
    <<N("class", Unnamed, 0), N("function", "b", 1)>>,
    <<N("class", "a", 0), N("qualified_base", "b", 1)>> }

ScriptTrees ==
  TreesOf({"arrow", "class", "method", "function", "call", "interface", "implements"}, 2) \cup
  { <<N("arrow", "a", 0), N("arrow", "b", 1), N("function", "c", 0), N("call", "b", 3)>>,
    <<N("class", Unnamed, 0), N("method", "a", 1)>>,
    <<N("alias", "a", 0), N("enum", "b", 0)>> }

OtherTrees == { <<>>, <<N("function", "b", 0)>>, <<N("function", "b", 0), N("function", "a", 0)>>,
                <<N("class", "b", 0)>> }

Import(level, path, name, plain) == {[level |-> level, path |-> path, name |-> name, plain |-> plain]}
PythonImports == { Import(1, <<"y">>, "y", TRUE), Import(2, <<"y">>, "a", FALSE), Import(0, <<"p">>, "x", TRUE),
                   Import(1, <<>>, "x", FALSE), Import(3, <<"y">>, "a", FALSE) }
ScriptImports == { Import(2, <<"y">>, "a", TRUE), Import(0, <<"y">>, "a", TRUE), Import(2, <<"p">>, "a", TRUE),
                   Import(1, <<>>, "a", TRUE) }

With(tree, imports) == [tree |-> tree, imports |-> imports]
Of(tree) == With(tree, {})

MCRepositories ==
  {File(<<"p", "x">>, "py") :> Of(t) @@ File(<<"y">>, "py") :> Of(s) : t \in PythonTrees, s \in OtherTrees} \cup
  {File(<<"p", "x">>, "ts") :> Of(t) @@ File(<<"y">>, "js") :> Of(s) : t \in ScriptTrees, s \in OtherTrees} \cup
  {File(<<"p", "x">>, "py") :> With(<<>>, i) @@ File(<<"y">>, "py") :> Of(<<>>)
     @@ File(<<"p", "__init__">>, "py") :> Of(<<>>) : i \in PythonImports} \cup
  {File(<<"p", "x">>, "ts") :> With(<<>>, i) @@ File(<<"y">>, "js") :> Of(<<>>)
     @@ File(<<"p", "index">>, "tsx") :> Of(<<>>) : i \in ScriptImports}

------------------------------------------------------------------------------
Init ==
  /\ part \in {"graph", "views", "search", "chunker", "embeddings", "symbols"}
  /\ GeneratorInit
  /\ IF part = "views" THEN GraphViewsInit ELSE CodeGraphInit /\ view = NoView
  /\ IF part = "search" THEN RetrievalInit
     ELSE RetrievalInit /\ vectors = Vectors
  /\ IF part = "chunker" THEN ChunkerInit
     ELSE /\ file = [type |-> "text", lines |-> <<[size |-> 1, opens |-> FALSE]>>, symbols |-> <<>>]
          /\ chunks = <<>> /\ fitted = <<>> /\ chunking = "read"
  /\ IF part = "symbols" THEN SymbolsInit
     ELSE /\ repository = File(<<"y">>, "py") :> Of(<<>>)
          /\ pending = {} /\ results = <<>> /\ resolved = 0 /\ links = {} /\ refused = {} /\ pass = "collecting"

Next ==
  /\ UNCHANGED part
  /\ \/ part = "graph"      /\ CodeGraphNext /\ UNCHANGED <<view, retrievalVars, chunkVars, batchVars, symbolVars>>
     \/ part = "views"      /\ GraphViewsNext /\ UNCHANGED <<retrievalVars, chunkVars, batchVars, symbolVars>>
     \/ part = "search"     /\ RetrievalNext /\ UNCHANGED <<viewVars, chunkVars, batchVars, symbolVars>>
     \/ part = "chunker"    /\ ChunkerNext   /\ UNCHANGED <<viewVars, retrievalVars, batchVars, symbolVars>>
     \/ part = "embeddings" /\ GeneratorNext /\ UNCHANGED <<viewVars, retrievalVars, chunkVars, symbolVars>>
     \/ part = "symbols"    /\ SymbolsNext   /\ UNCHANGED <<viewVars, retrievalVars, chunkVars, batchVars>>

Spec == Init /\ [][Next]_partVars
=============================================================================
