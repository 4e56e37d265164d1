------------------------------- MODULE Symbols -------------------------------
(***************************************************************************)
(* The symbols of a repository and the edges between them: the extractors of      *)
(* parsing/symbol_extractor.py, the registry and the module resolver, and the two    *)
(* passes of the indexer that use them.  Pass 1 reads the files on several threads   *)
(* and keeps what each one defines and refers to; pass 2 finds what is referred to.  *)
(*                                                                          *)
(* The parse tree of a file is a sequence of nodes in source order, each with the     *)
(* index of the node it lies in; a node's index stands for its line.  The details of  *)
(* a symbol (signature, docstring, decorators' texts, complexity) are left out.       *)
(***************************************************************************)
EXTENDS Naturals, Sequences, FiniteSets, SequencesExt

CONSTANTS
  Repositories,   \* the repositories: functions from the files' paths to their contents
  Unnamed         \* the name of a definition whose name the extractor does not find

ASSUME SymbolsAssumption == Repositories # {}

VARIABLES
  repository,   \* the repository that is indexed
  pending,      \* the files no worker has finished
  results,      \* all_results, in the order in which the files of this run were collected
  resolved,     \* how many of them pass 2 has resolved
  links,        \* the relationships in the graph
  refused,      \* those that the graph store refused
  pass          \* collecting, paused, resolving, done

symbolVars == <<repository, pending, results, resolved, links, refused, pass>>

Extensions   == <<"ts", "tsx", "js", "jsx">>   \* in the order in which they are tried
LanguageOf(f) == IF f.ext = "py" THEN "python" ELSE IF f.ext \in {"ts", "tsx"} THEN "typescript" ELSE "javascript"
TreeOf(f)       == repository[f].tree

Definitions == {"function", "arrow", "class", "method", "interface", "alias", "enum"}
None        == [file |-> "none"]

Symbol(f, name, kind, line) == [file |-> f, name |-> name, kind |-> kind, line |-> line]
FileNode(f) == Symbol(f, "__file__", "module", 0)

-----------------------------------------------------------------------------
(***************************************************************************)
(* What the extractors find in a file.                                             *)
(***************************************************************************)

\* The nodes a node lies in, itself included.
Above(t, i) == LET above[j \in 0..Len(t)] == IF j = 0 THEN {} ELSE {j} \cup above[t[j].up] IN above[i]

Under(t, i, types) == {j \in DOMAIN t : i \in Above(t, j) /\ t[j].type \in types}

\* The walk does not enter a definition without a name, nor a method of JavaScript.
Walked(t, i) ==
  \A j \in Above(t, i) \ {i} :
     t[j].type # "method" /\ (t[j].type \in {"function", "class"} => t[j].name # Unnamed)

SymbolKind(f, i) ==
  LET t == TreeOf(f)
      owned == \E j \in Above(t, i) \ {i} : t[j].type \in {"function", "class"}
  IN CASE t[i].type = "function" /\ LanguageOf(f) = "python" /\ owned -> "method"
       [] t[i].type = "arrow" -> "function"
       [] OTHER -> t[i].type

\* A declaration of arrow functions gives those nested in it too, at its own line.
Own(f, i) ==
  LET t == TreeOf(f)
      nodes == IF t[i].type = "arrow" THEN SetToSortSeq(Under(t, i, {"arrow"}), <)
               ELSE IF t[i].type \in {"function", "class", "method"} THEN <<i>> ELSE <<>>
      named == SelectSeq(nodes, LAMBDA j : t[j].name # Unnamed)
  IN [k \in DOMAIN named |-> Symbol(f, t[named[k]].name, SymbolKind(f, named[k]), i)]

\* Interfaces, type aliases and enums are looked for in a pass of their own each.
Typed(f, type) ==
  LET is == SelectSeq([i \in DOMAIN TreeOf(f) |-> i], LAMBDA i : TreeOf(f)[i].type = type /\ TreeOf(f)[i].name # Unnamed)
  IN [k \in DOMAIN is |-> Symbol(f, TreeOf(f)[is[k]].name, type, is[k])]

SymbolsOf(f) ==
  FlattenSeq([i \in DOMAIN TreeOf(f) |-> IF Walked(TreeOf(f), i) THEN Own(f, i) ELSE <<>>])
    \o IF LanguageOf(f) = "typescript" THEN Typed(f, "interface") \o Typed(f, "alias") \o Typed(f, "enum") ELSE <<>>

\* The map of a file's names to its symbols keeps the last symbol of a name.
Local(symbols, name) ==
  LET is == {k \in DOMAIN symbols : symbols[k].name = name}
  IN IF is = {} THEN None ELSE symbols[CHOOSE k \in is : \A j \in is : j <= k]

Relation(type, from, to, name) == [type |-> type, from |-> from, to |-> to, name |-> name]

\* A call lies in every function around it.
CallsIn(f, symbols, types) ==
  LET t == TreeOf(f)
  IN UNION {{Relation("CALLS", Local(symbols, t[i].name), Local(symbols, t[j].name), t[j].name)
               : j \in Under(t, i, types)} : i \in {i \in DOMAIN t : t[i].type = "function" /\ t[i].name # Unnamed}}

\* In JavaScript only plain functions and plain calls count.
PythonCalls(f, symbols)     == CallsIn(f, symbols, {"call", "member_call"})
JavaScriptCalls(f, symbols) == CallsIn(f, symbols, {"call"})

Extends(f, symbols, heir, base) ==
  LET t == TreeOf(f)
      Name(b) == IF base = "qualified_base" THEN Append(b.name, "qualified") ELSE b.name
  IN {Relation("EXTENDS", Local(symbols, t[t[i].up].name), Local(symbols, t[i].name), Name(t[i]))
        : i \in {i \in DOMAIN t : t[i].type = base /\ t[t[i].up].type = heir /\ t[t[i].up].name # Unnamed}}

\* A qualified base is looked for by its last part in the file, and by its whole text outside.
PythonInheritance(f, symbols)     == Extends(f, symbols, "class", "base") \cup Extends(f, symbols, "class", "qualified_base")
JavaScriptInheritance(f, symbols) == Extends(f, symbols, "class", "base")
InterfaceExtends(f, symbols)      == Extends(f, symbols, "interface", "base")

Implements(f, symbols) ==
  LET t == TreeOf(f)
  IN {Relation("IMPLEMENTS", Local(symbols, t[t[i].up].name), Local(symbols, t[i].name), t[i].name)
        : i \in {i \in DOMAIN t : t[i].type = "implements" /\ t[t[i].up].name # Unnamed}}

\* A decorator from another file has no symbol to start from.
Decorators(f, symbols) ==
  LET t == TreeOf(f)
  IN {Relation("DECORATES", Local(symbols, t[i].name), Local(symbols, t[t[i].up].name), t[t[i].up].name)
        : i \in {i \in DOMAIN t : t[i].type = "decorator" /\ t[t[i].up].name # Unnamed}}

PythonRelations(f, symbols)     == PythonCalls(f, symbols) \cup PythonInheritance(f, symbols) \cup Decorators(f, symbols)
JavaScriptRelations(f, symbols) == JavaScriptCalls(f, symbols) \cup JavaScriptInheritance(f, symbols)
TypeScriptRelations(f, symbols) ==
  JavaScriptRelations(f, symbols) \cup Implements(f, symbols) \cup InterfaceExtends(f, symbols)

RelationsOf(f) ==
  CASE LanguageOf(f) = "python"     -> PythonRelations(f, SymbolsOf(f))
    [] LanguageOf(f) = "javascript" -> JavaScriptRelations(f, SymbolsOf(f))
    [] LanguageOf(f) = "typescript" -> TypeScriptRelations(f, SymbolsOf(f))

-----------------------------------------------------------------------------
(***************************************************************************)
(* Where an import leads.  An import has its level (the leading dots, or one more       *)
(* than the ".." of JavaScript; 0 is absolute), the module's path and the name taken     *)
(* from it; "plain" means that the name is not renamed.                                  *)
(***************************************************************************)

\* The first dotted name of a relative import is the name it takes, not the module.
ModulePath(f, import) ==
  IF LanguageOf(f) = "python" /\ import.level > 0 /\ import.plain THEN [level |-> 0, path |-> <<import.name>>]
  ELSE [level |-> import.level, path |-> import.path]

\* One directory up for each level after the first; the root has no parent.
Climb(dir, levels) == SubSeq(dir, 1, IF levels - 1 > Len(dir) THEN 0 ELSE Len(dir) - (levels - 1))

TargetPath(f, module) ==
  IF module.level = 0 THEN module.path ELSE Climb(Front(f.path), module.level) \o module.path

File(path, ext) == [path |-> path, ext |-> ext]

\* The files a module can be, in the order in which they are tried.
PythonCandidates(path) == <<File(path, "py"), File(Append(path, "__init__"), "py")>>

JavaScriptCandidates(path) ==
  [k \in 1..Len(Extensions) |-> File(path, Extensions[k])]
    \o [k \in 1..Len(Extensions) |-> File(Append(path, "index"), Extensions[k])]

Candidates(f, module) ==
  IF TargetPath(f, module) = <<>> THEN <<>>
  ELSE IF LanguageOf(f) = "python" THEN PythonCandidates(TargetPath(f, module))
  ELSE IF module.level = 0 THEN <<>> ELSE JavaScriptCandidates(TargetPath(f, module))

\* A module that is no file of this run is external.
ModuleFile(f, module, files) ==
  LET found == SelectSeq(Candidates(f, module), LAMBDA c : c \in files)
  IN IF found = <<>> THEN None ELSE Head(found)

-----------------------------------------------------------------------------
(***************************************************************************)
(* The two passes.                                                                *)
(***************************************************************************)

SymbolsTypeOK ==
  /\ pending \subseteq DOMAIN repository
  /\ results \in Seq(DOMAIN repository) /\ IsInjective(results) /\ ToSet(results) \cap pending = {}
  /\ resolved \in 0..Len(results)
  /\ \A r \in links \cup refused : {r.from.file, r.to.file} \subseteq ToSet(results)
  /\ pass \in {"collecting", "paused", "resolving", "done"}

SymbolsInit ==
  /\ repository \in Repositories /\ pending = DOMAIN repository
  /\ results = <<>> /\ resolved = 0 /\ links = {} /\ refused = {}
  /\ pass = "collecting"

\* The workers finish in any order.
CollectSymbols(f) ==
  /\ pass = "collecting" /\ f \in pending
  /\ pending' = pending \ {f} /\ results' = Append(results, f)
  /\ UNCHANGED <<repository, resolved, links, refused, pass>>

\* A file that fails, or whose result comes after a pause was seen, is not collected.
MissFile(f) ==
  /\ pass = "collecting" /\ f \in pending
  /\ pending' = pending \ {f}
  /\ UNCHANGED <<repository, results, resolved, links, refused, pass>>

PauseRun == pass = "collecting" /\ pass' = "paused" /\ UNCHANGED <<repository, pending, results, resolved, links, refused>>

\* A resumed run starts with the results of no earlier one.
ResumeRun ==
  /\ pass = "paused" /\ pass' = "collecting" /\ results' = <<>>
  /\ UNCHANGED <<repository, pending, resolved, links, refused>>

StartResolving ==
  /\ pass = "collecting" /\ pending = {}
  /\ pass' = "resolving"
  /\ UNCHANGED <<repository, pending, results, resolved, links, refused>>

\* Mutant: a file is registered when its own relationships are resolved.
RegisteredSoFar == FlattenSeq([k \in 1..(resolved + 1) |-> SymbolsOf(results[k])])

\* The registry is filled from all results before the first relationship is resolved.
Registered == FlattenSeq([k \in DOMAIN results |-> SymbolsOf(results[k])])

\* A name that several symbols have is not resolved.
ResolveSymbol(name) ==
  LET named == SelectSeq(Registered, LAMBDA s : s.name = name) IN IF Len(named) = 1 THEN named[1] ELSE None

Target(r) == IF r.to # None THEN r.to ELSE ResolveSymbol(r.name)

Edge(type, from, to) == [type |-> type, from |-> from, to |-> to]

EdgesOf(f) ==
  {Edge(r.type, r.from, Target(r)) : r \in {r \in RelationsOf(f) : r.from # None /\ Target(r) # None}}
    \cup {Edge("IMPORTS", FileNode(f), FileNode(g))
            : g \in {ModuleFile(f, ModulePath(f, i), ToSet(results)) : i \in repository[f].imports} \ {None}}

\* The store may refuse an edge; the others are still created.
ResolveFile ==
  /\ pass = "resolving" /\ resolved < Len(results)
  /\ resolved' = resolved + 1
  /\ LET found == EdgesOf(results[resolved + 1])
     IN \E no \in {{}} \cup {{e} : e \in found} :
          links' = links \cup (found \ no) /\ refused' = refused \cup no
  /\ UNCHANGED <<repository, pending, results, pass>>

EndResolving ==
  /\ pass = "resolving" /\ resolved = Len(results)
  /\ pass' = "done"
  /\ UNCHANGED <<repository, pending, results, resolved, links, refused>>

SymbolsNext ==
  \/ \E f \in pending : CollectSymbols(f) \/ MissFile(f)
  \/ PauseRun \/ ResumeRun \/ StartResolving \/ ResolveFile \/ EndResolving

-----------------------------------------------------------------------------
(***************************************************************************)
(* Properties.                                                                  *)
(***************************************************************************)

\* The definitions of a name in the files of this run, as <<file, node>>.
Defined(name) ==
  {<<f, i>> \in ToSet(results) \X (1..10) :
     i \in DOMAIN TreeOf(f) /\ TreeOf(f)[i].type \in Definitions /\ TreeOf(f)[i].name = name}

At(d) == Symbol(d[1], TreeOf(d[1])[d[2]].name, SymbolKind(d[1], d[2]), d[2])

\* What the walk reaches and gives once: an arrow function inside another is given twice.
Plain(d) == Walked(TreeOf(d[1]), d[2]) /\ Under(TreeOf(d[1]), d[2], {"arrow"}) \cup (Above(TreeOf(d[1]), d[2]) \ {d[2]}) \subseteq
               {i \in DOMAIN TreeOf(d[1]) : TreeOf(d[1])[i].type # "arrow" \/ i = d[2]}

\* In whatever order the workers finish, a call from the only function of its name in its file
\* to the only definition of its name in the run has its edge once its file is resolved.
CallsAreFound ==
  \A f \in {results[k] : k \in 1..resolved} : \A i, j \in DOMAIN TreeOf(f) :
     LET t == TreeOf(f)
         callers == {d \in Defined(t[i].name) : d[1] = f}
     IN (/\ t[i].type = "function" /\ t[i].name # Unnamed /\ callers = {<<f, i>>} /\ Walked(t, i)
         /\ t[j].type = "call" /\ i \in Above(t, j)
         /\ Cardinality(Defined(t[j].name)) = 1 /\ \A d \in Defined(t[j].name) : Plain(d))
        => \A d \in Defined(t[j].name) : Edge("CALLS", At(<<f, i>>), At(d)) \in links \cup refused

\* The definitions of a name that the extractors see: those in a definition that the walk
\* does not enter are not among them, unless a pass of their own looks for them.
Seen(name) ==
  {d \in Defined(name) :
     \/ TreeOf(d[1])[d[2]].type \in {"interface", "alias", "enum"}
     \/ \E i \in Above(TreeOf(d[1]), d[2]) :
          Walked(TreeOf(d[1]), i) /\ (i = d[2] \/ {TreeOf(d[1])[i].type, TreeOf(d[1])[d[2]].type} = {"arrow"})}

\* An edge that leaves its file ends at the only definition of its name that the run knows.
EdgesAreCertain ==
  \A e \in links : (e.type # "IMPORTS" /\ e.from.file # e.to.file) =>
     Cardinality(Seen(e.to.name)) = 1

\* Where an import of the language leads: up from the importing file's directory, or from the root.
Meant(f, import) ==
  LET depth == Len(f.path) - import.level
      dir == IF import.level = 0 THEN <<>> ELSE [k \in 1..depth |-> f.path[k]]
  IN {dir \o import.path, dir \o import.path \o <<"__init__">>, dir \o import.path \o <<"index">>}

\* An import edge leads to the file its import means; a plain relative import of Python aside,
\* and imports from above the root.
ImportsReachTheirFile ==
  \A e \in links : e.type = "IMPORTS" =>
     \E i \in repository[e.from.file].imports :
        \/ i.level > Len(e.from.file.path)
        \/ LanguageOf(e.from.file) = "python" /\ i.level > 0 /\ i.plain
        \/ e.to.file.path \in Meant(e.from.file, i)

\* The edges of a run: none missing that can be told, none that cannot, in any order of the files.
SymbolsInv == SymbolsTypeOK /\ CallsAreFound /\ EdgesAreCertain /\ ImportsReachTheirFile

=============================================================================
