------------------------ MODULE PlanWorkflow_proofs -------------------------
(***************************************************************************)
(* Proofs about PlanWorkflow, for any tasks and any number of navigations     *)
(* and rounds.                                                                *)
(*                                                                          *)
(* IInv is the inductive invariant.  Its parts say where the graph can be     *)
(* (Where), how a subgraph's copy of the state relates to the parent's        *)
(* (CopyOfParent), and what the properties need at every node in between      *)
(* (Order, Left, Signed, CompletedTells, HaltHolds, RedoBounded).  A step     *)
(* inside a subgraph keeps it because of what it may write (Inside, Writes),  *)
(* a step of the parent because of how a phase is entered or left (Entered,   *)
(* StepRouted).  The theorems, the refinement of PlanLifecycle among them,    *)
(* follow from it.                                                           *)
(***************************************************************************)
EXTENDS PlanWorkflow, TLAPS

\* The nodes of the subgraphs.
ContextNodes     == {"validate_context", "collect_context", "review", "deep_analysis", "feedback_review"}
ResearchNodes    == {"formulate_queries", "dispatch_research", "aggregate", "gap_check", "confidence_gate",
                     "research_approval"}
PlanningNodes    == {"roadmap", "feasibility", "decompose", "validate_dag", "assign", "align", "planning_approval"}
OrchestrateNodes == {"orchestrate_loop"}
AssemblyNodes    == {"completeness", "composition_review", "template", "generate", "consistency", "assemble",
                     "validate", "assembly_approval"}

\* n is a node of p's subgraph.
NodeOf(p, n) == \/ p = "context" /\ n \in ContextNodes
                \/ p = "research" /\ n \in ResearchNodes
                \/ p = "planning" /\ n \in PlanningNodes
                \/ p = "orchestrate" /\ n \in OrchestrateNodes
                \/ p = "assembly" /\ n \in AssemblyNodes

\* Nodes with an edge to another node of the subgraph.
Inner == (ContextNodes \ {"feedback_review"}) \cup (ResearchNodes \ {"research_approval"})
           \cup (PlanningNodes \ {"planning_approval"}) \cup (AssemblyNodes \ {"assembly_approval"})

BudgetNodes == Inner \ {"validate_context", "collect_context", "validate_dag", "completeness",
                        "composition_review", "template"}

-----------------------------------------------------------------------------
\* An edge behind an inner node leads to a node of the same subgraph.
LEMMA EdgesStay ==
  ASSUME NEW p \in Phases, NEW n \in Inner, NodeOf(p, n), NEW d
  PROVE  NodeOf(p, After(n, d))
<1> USE DEF NodeOf, After, Edges, ContextNodes, ResearchNodes, PlanningNodes, OrchestrateNodes, AssemblyNodes
<1>1. CASE n \in ContextNodes
  BY <1>1 DEF Inner
<1>2. CASE n \in ResearchNodes
  BY <1>2 DEF Inner
<1>3. CASE n \in PlanningNodes
  BY <1>3 DEF Inner
<1>4. CASE n \in AssemblyNodes
  BY <1>4 DEF Inner
<1> QED
  BY <1>1, <1>2, <1>3, <1>4 DEF Inner

\* Only inner nodes ask for the budget.
LEMMA BudgetNodesCheck == \A n : Checks(n) => n \in BudgetNodes
  BY DEF Checks, BudgetNodes, Inner, ContextNodes, ResearchNodes, PlanningNodes, AssemblyNodes

\* The phases before each phase.
LEMMA PhasesInOrder ==
  /\ Before("context") = {} /\ Before("research") = {"context"} /\ Before("planning") = {"context", "research"}
  /\ Before("orchestrate") = {"context", "research", "planning"}
  /\ Before("assembly") = {"context", "research", "planning", "orchestrate"}
<1> USE DEF Before, Phases, Position
<1>1. Before("context") = {}
  OBVIOUS
<1>2. Before("research") = {"context"}
  OBVIOUS
<1>3. Before("planning") = {"context", "research"}
  OBVIOUS
<1>4. Before("orchestrate") = {"context", "research", "planning"}
  OBVIOUS
<1>5. Before("assembly") = {"context", "research", "planning", "orchestrate"}
  OBVIOUS
<1> QED
  BY <1>1, <1>2, <1>3, <1>4, <1>5

\* A phase is entered at a node of its own.
LEMMA EntryIsNode == \A p \in Phases : NodeOf(p, Entry[p]) /\ Entry[p] \in Steps
  BY DEF Phases, Entry, NodeOf, ContextNodes, ResearchNodes, PlanningNodes, OrchestrateNodes, AssemblyNodes, Steps, Edges, Approvals

\* The nodes of the subgraphs are none of the parent's.
LEMMA StepKinds ==
  ASSUME NEW p, NEW n, NodeOf(p, n)
  PROVE  /\ n \in Steps /\ n \notin ParentNodes \cup Ends \cup {"done"}
         /\ n \in Inner \cup Approvals \cup {"feedback_review", "orchestrate_loop"}
  BY DEF NodeOf, Inner, Steps, Edges, Approvals, ParentNodes, Ends, ContextNodes, ResearchNodes, PlanningNodes, OrchestrateNodes, AssemblyNodes

\* What the reducer of the status makes of two of them.
LEMMA StatusKinds == \A old \in Statuses, new \in Statuses :
  /\ Reduced(old, new) \in Statuses /\ Reduced(old, "running") = "running"
  /\ Reduced(old, new) \in {old, new}
  /\ new \in Halts /\ old # "completed" => Reduced(old, new) \in Halts
  /\ new = "rejected" /\ old # "completed" => Reduced(old, new) = "rejected"
  /\ new = "completed" => Reduced(old, new) = "completed"
  BY DEF Statuses, Halts, Reduced, Severity
-----------------------------------------------------------------------------
(* The inductive invariant.                                                   *)

\* The node that runs next belongs to the phase, and the question to the node.
Where ==
  /\ \/ NodeOf(phase, step)
     \/ step \in {"done", "halt_on_incomplete", "halted", "ended"}
     \/ step = "prune_after_research" /\ phase = "research"
     \/ step = "prune_after_orchestrate" /\ phase \in {"orchestrate", "assembly"}
     \/ step = "finalize" /\ phase = "assembly"
  /\ prompt = "approval" => step \in Approvals
  /\ prompt = "feedback" => step = "feedback_review"
  /\ prompt = "form" => step = "collect_context"
  /\ prompt = "budget" => step \in BudgetNodes

\* The parent's nodes see its own state; a subgraph completes no phase but its own, and
\* loses no result.
CopyOfParent ==
  /\ step \in ParentNodes \cup Ends => data = checkpoint
  /\ checkpoint.completed \subseteq data.completed
  /\ data.completed \subseteq checkpoint.completed \cup {phase}
  /\ checkpoint.results \subseteq data.results

\* The order of the phases in the parent's own state.
Order == Before(phase) \subseteq checkpoint.completed \cup skipped

\* Behind a phase that is over, it is complete and nothing halts.
Left ==
  step \in {"prune_after_research", "prune_after_orchestrate", "finalize"}
    => phase \in checkpoint.completed /\ data.status \notin Halts

\* Whoever gets to the end of a phase with a question has been let through.
Asking == {"context", "research", "planning", "assembly"}
Signed ==
  ~recovered =>
    /\ Before(phase) \ {"orchestrate"} \subseteq signedOff \cup skipped
    /\ step \in {"done", "halted", "prune_after_research", "prune_after_orchestrate", "finalize"}
         /\ phase # "orchestrate" /\ data.status # "rejected" => phase \in signedOff

\* The end is reached with every phase signed off, or declared by the dispatcher.
CompletedTells ==
  data.status = "completed" \/ checkpoint.status = "completed" =>
    /\ "assembly" \in checkpoint.completed
    /\ recovered \/ (step = "ended" /\ Phases \ {"orchestrate"} \subseteq signedOff \cup skipped)

\* A halt is still the status of the phase it was raised in.
HaltHolds == haltedIn # "none" /\ ~recovered => phase = haltedIn /\ data.status \in Halts

\* Flags that wait for the prune behind orchestrate are those of an earlier navigation.
Redo(d) ==
  /\ d.reOrchestrated <= MAX_RE_ORCHESTRATIONS + navigations
  /\ phase # "assembly" /\ d.flagged # {} => d.reOrchestrated < MAX_RE_ORCHESTRATIONS + navigations
RedoBounded ==
  /\ Redo(data) /\ Redo(checkpoint)
  /\ step = "prune_after_orchestrate" /\ data.flagged # {} => data.reOrchestrated < MAX_RE_ORCHESTRATIONS + navigations

IInv == /\ TypeOK /\ Where /\ CopyOfParent /\ Order /\ Left /\ Signed /\ CompletedTells /\ HaltHolds /\ RedoBounded

-----------------------------------------------------------------------------
\* It holds initially.
LEMMA IInvInit == Init => IInv
<1> SUFFICES ASSUME Init PROVE IInv
  OBVIOUS
<1>1. Empty \in State
  BY DEF Empty, State, Statuses
<1>2. "context" \in Phases /\ NodeOf("context", Entry["context"]) /\ Entry["context"] \in Steps
  BY EntryIsNode DEF Phases
<1>3. TypeOK /\ Where
  BY <1>1, <1>2 DEF Init, TypeOK, Where
<1>4. CopyOfParent
  BY DEF Init, CopyOfParent, Empty
<1>5. Order /\ Signed
  BY <1>2, PhasesInOrder, StepKinds DEF Init, Order, Signed, Ends, ParentNodes
<1>6. Left /\ CompletedTells /\ HaltHolds
  BY <1>2, StepKinds DEF Init, Left, CompletedTells, HaltHolds, Empty, ParentNodes
<1>7. RedoBounded
  BY DEF Init, RedoBounded, Redo, Empty, MAX_RE_ORCHESTRATIONS
<1> QED
  BY <1>3, <1>4, <1>5, <1>6, <1>7 DEF IInv

-----------------------------------------------------------------------------
(* What happens inside a subgraph.                                            *)

\* What a node, or an answer that lets it return, may write.
Writes(d) ==
  /\ d \in State
  /\ d.completed \in {data.completed, data.completed \cup {phase}}
  /\ data.results \subseteq d.results
  /\ d.reOrchestrated = data.reOrchestrated
  /\ d.flagged = data.flagged \/ phase = "assembly"
  /\ d.status = "completed" => data.status = "completed"

Inside ==
  /\ NodeOf(phase, step) /\ UNCHANGED <<phase, checkpoint, navigations, recovered, skipped>>
  /\ NodeOf(phase, step') \/ step' = "done"
  /\ Writes(data')

\* A step inside a subgraph keeps the invariant.
LEMMA StepInside ==
  ASSUME IInv, Inside,
         exhausted' \in BOOLEAN, rounds' \in Nat,
         signedOff \subseteq signedOff', signedOff' \subseteq signedOff \cup {phase},
         prompt' \in {"none", "budget", "form", "feedback", "approval"}, Where',
         step' = "done" /\ ~recovered /\ phase # "orchestrate" /\ data'.status # "rejected" => phase \in signedOff',
         haltedIn' \in Phases \cup {"none"}, HaltHolds'
  PROVE  IInv'
<1>1. phase \in Phases /\ navigations \in Nat /\ TypeOK
  BY DEF IInv, TypeOK
<1>2. step \notin ParentNodes \cup Ends \cup {"done"} /\ step' \notin ParentNodes \cup Ends /\ step' \in Steps
  BY StepKinds DEF Inside, Steps, Ends, ParentNodes
<1>3. TypeOK'
  BY <1>1, <1>2 DEF TypeOK, Inside, Writes
<1>4. CopyOfParent'
  BY <1>2 DEF IInv, CopyOfParent, Inside, Writes
<1>5. Order'
  BY DEF IInv, Order, Inside
<1>6. Left'
  BY <1>2 DEF Left, ParentNodes
<1>7. Signed'
  BY <1>2 DEF IInv, Signed, Inside, ParentNodes, Ends
<1>8. CompletedTells'
  BY <1>2 DEF IInv, CompletedTells, Inside, Writes, Ends
<1>9. RedoBounded'
  BY <1>1, <1>2 DEF IInv, RedoBounded, Redo, Inside, Writes, ParentNodes
<1> QED
  BY <1>3, <1>4, <1>5, <1>6, <1>7, <1>8, <1>9 DEF IInv

\* A node that returns a state and goes on inside its subgraph.
LEMMA StepWork ==
  ASSUME IInv, NEW n \in Inner, NEW D, Work(n, D), \A d \in D : Writes(d) /\ d.status = data.status
  PROVE  IInv'
<1>1. /\ step = n /\ prompt = "none" /\ prompt' = "none" /\ step' = After(n, data') /\ data' \in D
      /\ UNCHANGED <<phase, checkpoint, exhausted, navigations, rounds, recovered, skipped, signedOff, haltedIn>>
  BY DEF Work, At, subgraphVars, userVars
<1>2. NodeOf(phase, n)
  BY <1>1 DEF IInv, Where, Inner, ContextNodes, ResearchNodes, PlanningNodes, AssemblyNodes
<1>3. NodeOf(phase, step')
  BY <1>1, <1>2, EdgesStay DEF IInv, TypeOK
<1>4. Where'
  BY <1>1, <1>3 DEF Where
<1>5. Inside
  BY <1>1, <1>2, <1>3 DEF Inside
<1>6. step' # "done"
  BY <1>3, StepKinds
<1>7. HaltHolds'
  BY <1>1 DEF IInv, HaltHolds
<1> QED
  BY <1>1, <1>4, <1>5, <1>6, <1>7, StepInside DEF IInv, TypeOK

\* Nothing is the least a node may write.
LEMMA Unwritten == IInv => Writes(data)
  BY DEF IInv, TypeOK, Writes

\* A node that writes nothing keeps the invariant.
LEMMA StepPasses == ASSUME IInv, NEW n \in Inner, Passes(n) PROVE IInv'
  BY Unwritten, StepWork DEF Passes

\* A node that asks.
LEMMA StepAsk ==
  ASSUME IInv, NEW n, NEW question \in {"budget", "form", "feedback", "approval"}, Ask(n, question),
         question = "approval" => n \in Approvals,
         question = "feedback" => n = "feedback_review",
         question = "form" => n = "collect_context",
         question = "budget" => n \in BudgetNodes
  PROVE  IInv'
<1>1. /\ step = n /\ prompt = "none" /\ prompt' = question
      /\ UNCHANGED <<phase, checkpoint, step, data, exhausted, navigations, rounds, recovered, skipped, signedOff, haltedIn>>
  BY DEF Ask, At, subgraphVars, userVars
<1>2. Where'
  BY <1>1 DEF IInv, Where
<1> QED
  BY <1>1, <1>2 DEF IInv, TypeOK, CopyOfParent, Order, Left, Signed, CompletedTells, HaltHolds, RedoBounded, Redo

\* The nodes that write data of their own.
LEMMA StepWriters ==
  ASSUME IInv, DispatchResearch \/ GapCheck \/ ConfidenceGate \/ CompositionReview \/ Consistency \/ Assemble
  PROVE  IInv'
<1>1. data \in State /\ phase \in Phases
  BY DEF IInv, TypeOK
<1>9. {"dispatch_research", "gap_check", "confidence_gate", "composition_review", "consistency", "assemble"} \subseteq Inner
  BY DEF Inner, ContextNodes, ResearchNodes, PlanningNodes, AssemblyNodes
<1>2. CASE Work("dispatch_research", {[data EXCEPT !.structured = found] : found \in BOOLEAN})
  <2>1. \A d \in {[data EXCEPT !.structured = found] : found \in BOOLEAN} : Writes(d) /\ d.status = data.status
    BY <1>1 DEF Writes, State
  <2> DEFINE D == {[data EXCEPT !.structured = found] : found \in BOOLEAN}
  <2>2. Work("dispatch_research", D) /\ \A d \in D : Writes(d) /\ d.status = data.status
    BY <1>2, <2>1
  <2> HIDE DEF D
  <2> QED
    BY <1>9, <2>2, StepWork
<1>3. CASE /\ At("dispatch_research") /\ exhausted /\ step' = "aggregate"
           /\ UNCHANGED <<subgraphVars, prompt, data, exhausted, userVars, signedOff, haltedIn>>
  <2>1. NodeOf(phase, step) /\ phase = "research" /\ NodeOf(phase, step')
    BY <1>3 DEF IInv, Where, At, NodeOf, ContextNodes, ResearchNodes, PlanningNodes, OrchestrateNodes, AssemblyNodes
  <2>2. Inside
    BY <1>3, <2>1, Unwritten DEF Inside, subgraphVars, userVars
  <2>3. Where' /\ HaltHolds' /\ step' # "done"
    BY <1>3, <2>1 DEF Where, IInv, HaltHolds, subgraphVars, userVars, At
  <2> QED
    BY <1>3, <2>2, <2>3, StepInside DEF IInv, TypeOK, subgraphVars, userVars
<1>4. CASE GapCheck
  <2>1. \A d \in {[data EXCEPT !.gaps = found, !.iterations = data.iterations + 1] : found \in BOOLEAN} :
          Writes(d) /\ d.status = data.status
    <3>1. data.iterations + 1 \in Nat
      BY <1>1 DEF State
    <3>2. ASSUME NEW found \in BOOLEAN
          PROVE  LET d == [data EXCEPT !.gaps = found, !.iterations = data.iterations + 1]
                 IN Writes(d) /\ d.status = data.status
      BY <1>1, <3>1 DEF Writes, State
    <3> QED
      BY <3>2
  <2> DEFINE D == {[data EXCEPT !.gaps = found, !.iterations = data.iterations + 1] : found \in BOOLEAN}
  <2>9. Work("gap_check", D) /\ \A d \in D : Writes(d) /\ d.status = data.status
    BY <1>4, <2>1 DEF GapCheck
  <2> HIDE DEF D
  <2> QED
    BY <1>9, <2>9, StepWork
<1>5. CASE ConfidenceGate
  <2>1. \A d \in {[data EXCEPT !.iterations = data.iterations + 1]} : Writes(d) /\ d.status = data.status
    BY <1>1 DEF Writes, State
  <2> DEFINE D == {[data EXCEPT !.iterations = data.iterations + 1]}
  <2>9. Work("confidence_gate", D) /\ \A d \in D : Writes(d) /\ d.status = data.status
    BY <1>5, <2>1 DEF ConfidenceGate
  <2> HIDE DEF D
  <2> QED
    BY <1>9, <2>9, StepWork
<1>6. CASE CompositionReview
  <2>1. phase = "assembly"
    BY <1>6 DEF CompositionReview, Work, At, IInv, Where, NodeOf, ContextNodes, ResearchNodes, PlanningNodes, OrchestrateNodes, AssemblyNodes
  <2>2. \A d \in (IF data.manifest THEN {[data EXCEPT !.flagged = f] : f \in SUBSET Tasks} ELSE {data}) :
          Writes(d) /\ d.status = data.status
    <3>1. ASSUME NEW f \in SUBSET Tasks PROVE Writes([data EXCEPT !.flagged = f]) /\ [data EXCEPT !.flagged = f].status = data.status
      BY <1>1, <2>1 DEF Writes, State
    <3>2. CASE data.manifest
      BY <3>1, <3>2
    <3>3. CASE ~data.manifest
      BY <3>3, Unwritten
    <3> QED
      BY <3>2, <3>3
  <2> DEFINE D == IF data.manifest THEN {[data EXCEPT !.flagged = f] : f \in SUBSET Tasks} ELSE {data}
  <2>9. Work("composition_review", D) /\ \A d \in D : Writes(d) /\ d.status = data.status
    BY <1>6, <2>2 DEF CompositionReview
  <2> HIDE DEF D
  <2> QED
    BY <1>9, <2>9, StepWork
<1>7. CASE Consistency
  <2>1. \A d \in (IF data.manifest THEN {data}
                  ELSE {[data EXCEPT !.issues = found, !.consistency = data.consistency + 1] : found \in BOOLEAN}) :
          Writes(d) /\ d.status = data.status
    <3>1. data.consistency + 1 \in Nat
      BY <1>1 DEF State
    <3>2. ASSUME NEW found \in BOOLEAN
          PROVE  LET d == [data EXCEPT !.issues = found, !.consistency = data.consistency + 1]
                 IN Writes(d) /\ d.status = data.status
      BY <1>1, <3>1 DEF Writes, State
    <3>3. CASE data.manifest
      BY <3>3, Unwritten
    <3>4. CASE ~data.manifest
      BY <3>2, <3>4
    <3> QED
      BY <3>3, <3>4
  <2> DEFINE D == IF data.manifest THEN {data}
                  ELSE {[data EXCEPT !.issues = found, !.consistency = data.consistency + 1] : found \in BOOLEAN}
  <2>9. Work("consistency", D) /\ \A d \in D : Writes(d) /\ d.status = data.status
    BY <1>7, <2>1 DEF Consistency
  <2> HIDE DEF D
  <2> QED
    BY <1>9, <2>9, StepWork
<1>8. CASE Assemble
  <2>1. \A d \in {[data EXCEPT !.document = data.document \/ ~data.manifest]} : Writes(d) /\ d.status = data.status
    <3> DEFINE b == data.document \/ ~data.manifest
    <3>1. b \in BOOLEAN
      OBVIOUS
    <3> HIDE DEF b
    <3>2. Writes([data EXCEPT !.document = b]) /\ [data EXCEPT !.document = b].status = data.status
      BY <1>1, <3>1 DEF Writes, State
    <3> QED
      BY <3>2 DEF b
  <2> DEFINE D == {[data EXCEPT !.document = data.document \/ ~data.manifest]}
  <2>9. Work("assemble", D) /\ \A d \in D : Writes(d) /\ d.status = data.status
    BY <1>8, <2>1 DEF Assemble
  <2> HIDE DEF D
  <2> QED
    BY <1>9, <2>9, StepWork
<1> QED
  BY <1>2, <1>3, <1>4, <1>5, <1>6, <1>7, <1>8 DEF DispatchResearch

\* The orchestrate subgraph returns.
LEMMA StepOrchestrate == ASSUME IInv, Orchestrate PROVE IInv'
<1>1. data \in State /\ phase \in Phases
  BY DEF IInv, TypeOK
<1> DEFINE d(done, m, st, r) ==
      [data EXCEPT !.results = r, !.manifest = m, !.status = Reduced(data.status, st),
                   !.completed = IF done THEN data.completed \cup {"orchestrate"} ELSE data.completed,
                   !.allComplete = done, !.furthest = IF data.furthest < 4 THEN 4 ELSE data.furthest]
<1>2. PICK done \in BOOLEAN, m \in {data.manifest, TRUE}, st \in {data.status, "paused", "budget_exhausted"} :
        \E r \in {q \in SUBSET Tasks : data.results \subseteq q /\ (done => q = Tasks)} :
          Work("orchestrate_loop", {d(done, m, st, r)})
  BY Zenon DEF Orchestrate
<1> HIDE DEF d
<1>3. PICK r \in {q \in SUBSET Tasks : data.results \subseteq q /\ (done => q = Tasks)} :
        Work("orchestrate_loop", {d(done, m, st, r)})
  BY <1>2
<1> USE DEF d
<1>4. /\ data' = d(done, m, st, r)
      /\ step = "orchestrate_loop" /\ prompt = "none" /\ prompt' = "none"
      /\ step' = After("orchestrate_loop", data')
      /\ UNCHANGED <<phase, checkpoint, exhausted, navigations, rounds, recovered, skipped, signedOff, haltedIn>>
  <2> HIDE DEF d
  <2> QED
    BY <1>3 DEF Work, At, subgraphVars, userVars
<1>5. step' = "done"
  BY <1>4 DEF After, Edges
<1>6. phase = "orchestrate" /\ NodeOf(phase, step)
  BY <1>4 DEF IInv, Where, NodeOf, ContextNodes, ResearchNodes, PlanningNodes, OrchestrateNodes, AssemblyNodes
<1>7. st \in Statuses /\ data.status \in Statuses /\ m \in BOOLEAN
  BY <1>1, <1>4 DEF State, Statuses, Halts
<1>8. Reduced(data.status, st) \in Statuses /\ Reduced(data.status, st) \in {data.status, st}
  BY <1>7, StatusKinds
<1>9. Writes(data') /\ data'.status = Reduced(data.status, st)
  <2> DEFINE c == IF done THEN data.completed \cup {"orchestrate"} ELSE data.completed
             g == IF data.furthest < 4 THEN 4 ELSE data.furthest
             x == Reduced(data.status, st)
  <2>1. /\ c \in SUBSET Phases /\ c \in {data.completed, data.completed \cup {phase}}
        /\ g \in 0..5 /\ x \in Statuses /\ (x = "completed" => data.status = "completed")
    BY <1>1, <1>6, <1>8 DEF State, Phases
  <2>2. data' = [data EXCEPT !.results = r, !.manifest = m, !.status = x, !.completed = c, !.allComplete = done, !.furthest = g]
    BY <1>4
  <2> HIDE DEF c, g, x
  <2> DEFINE e == [data EXCEPT !.results = r, !.manifest = m, !.allComplete = done]
  <2>3. /\ e \in State /\ e.completed = data.completed /\ e.results = r
        /\ e.reOrchestrated = data.reOrchestrated /\ e.flagged = data.flagged
    BY <1>1, <1>7 DEF State
  <2>4. data' = [e EXCEPT !.status = x, !.completed = c, !.furthest = g]
    BY <1>1, <2>2 DEF State
  <2> HIDE DEF e
  <2>5. /\ data' \in State /\ data'.completed = c /\ data'.status = x /\ data'.results = r
        /\ data'.reOrchestrated = data.reOrchestrated /\ data'.flagged = data.flagged
    BY <2>1, <2>3, <2>4 DEF State
  <2>6. Writes(data') /\ data'.status = x
    BY <1>3, <2>1, <2>5 DEF Writes
  <2> QED
    BY <2>6 DEF x
<1>10. Inside /\ Where'
  BY <1>4, <1>5, <1>6, <1>9 DEF Inside, Where
<1>11. HaltHolds'
  <2>1. data.status \in Halts => Reduced(data.status, st) \in Halts
    BY <1>7, StatusKinds DEF Halts
  <2> QED
    BY <1>4, <1>9, <2>1 DEF IInv, HaltHolds
<1> QED
  BY <1>4, <1>5, <1>6, <1>10, <1>11, StepInside DEF IInv, TypeOK

\* A status in place of a node's own output.
LEMMA StatusWritten ==
  ASSUME IInv, NEW st \in Halts \cup {"running"}
  PROVE  /\ Writes(WithStatus(data, st)) /\ WithStatus(data, st).status = Reduced(data.status, st)
         /\ Reduced(data.status, st) \in Statuses
         /\ st # "running" /\ data.status # "completed" => Reduced(data.status, st) \in Halts
<1>1. data \in State /\ data.status \in Statuses /\ st \in Statuses /\ st # "completed"
  BY DEF IInv, TypeOK, State, Statuses, Halts
<1>2. Reduced(data.status, st) \in Statuses /\ Reduced(data.status, st) \in {data.status, st}
  BY <1>1, StatusKinds
<1>3. st # "running" /\ data.status # "completed" => Reduced(data.status, st) \in Halts
  BY <1>1, StatusKinds
<1> QED
  BY <1>1, <1>2, <1>3 DEF WithStatus, Writes, State

\* Inside a subgraph only a plan that was declared complete is complete.
LEMMA RunningInside == IInv /\ NodeOf(phase, step) /\ data.status = "completed" => recovered
  BY StepKinds DEF IInv, CompletedTells, Ends

StoringNodes == {"deep_analysis", "dispatch_research", "aggregate", "roadmap", "decompose", "assemble", "generate"}

\* So does a node whose artifact cannot be stored.
LEMMA StepStorageError == ASSUME IInv, StorageError PROVE IInv'
<1>1. /\ step \in StoringNodes /\ prompt = "none" /\ prompt' = "none" /\ step' = After(step, data)
      /\ data' = WithStatus(data, "paused") /\ haltedIn' = (IF data'.status \in Halts THEN phase ELSE haltedIn)
      /\ UNCHANGED <<phase, checkpoint, exhausted, navigations, rounds, recovered, skipped, signedOff>>
  BY DEF StorageError, At, Stores, StoringNodes, NoteHalt, subgraphVars, userVars
<1>2. step \in Inner /\ NodeOf(phase, step)
  BY <1>1 DEF StoringNodes, IInv, Where, Inner, ContextNodes, ResearchNodes, PlanningNodes, AssemblyNodes
<1>3. NodeOf(phase, step') /\ step' # "done"
  BY <1>1, <1>2, EdgesStay, StepKinds DEF IInv, TypeOK
<1>4. /\ Writes(data') /\ data'.status = Reduced(data.status, "paused")
      /\ data.status # "completed" => data'.status \in Halts
  BY <1>1, StatusWritten DEF Halts
<1>5. Inside /\ Where'
  BY <1>1, <1>2, <1>3, <1>4 DEF Inside, Where
<1>6. HaltHolds'
  BY <1>1, <1>2, <1>4, RunningInside DEF IInv, HaltHolds
<1> QED
  BY <1>1, <1>3, <1>5, <1>6, StepInside DEF IInv, TypeOK

\* So does a node that is out of budget and asks.
LEMMA StepBudgetInterrupt == ASSUME IInv, BudgetInterrupt PROVE IInv'
<1>1. step \in BudgetNodes /\ prompt = "none" /\ prompt' = "budget"
  BY BudgetNodesCheck DEF BudgetInterrupt, At
<1>2. UNCHANGED <<phase, checkpoint, step, data, exhausted, navigations, rounds, recovered, skipped, signedOff, haltedIn>>
  BY DEF BudgetInterrupt, subgraphVars, userVars
<1>3. Where'
  BY <1>1, <1>2 DEF IInv, Where
<1> QED
  BY <1>1, <1>2, <1>3 DEF IInv, TypeOK, CopyOfParent, Order, Left, Signed, CompletedTells, HaltHolds, RedoBounded, Redo

-----------------------------------------------------------------------------
(* The answers of the user.                                                   *)

\* What every answer does.
LEMMA AnswerFacts ==
  ASSUME IInv, NEW question \in {"budget", "form", "feedback", "approval"}, NEW d, NEW next, Answer(question, d, next)
  PROVE  /\ prompt = question /\ prompt' = "none" /\ data' = d /\ step' = next
         /\ UNCHANGED <<phase, checkpoint, navigations, recovered, skipped>>
         /\ NodeOf(phase, step)
<1>1. /\ prompt = question /\ prompt' = "none" /\ data' = d /\ step' = next
      /\ UNCHANGED <<phase, checkpoint, navigations, recovered, skipped>>
  BY DEF Answer, subgraphVars
<1>2. step \in Approvals \cup {"feedback_review", "collect_context"} \cup BudgetNodes
  BY <1>1 DEF IInv, Where
<1>3. NodeOf(phase, step)
  BY <1>2 DEF IInv, Where, Approvals, BudgetNodes, Inner, ContextNodes, ResearchNodes, PlanningNodes, AssemblyNodes
<1> QED
  BY <1>1, <1>3

\* The form is answered.
LEMMA StepFinishForm == ASSUME IInv, FinishForm PROVE IInv'
<1>1. PICK d \in {data, WithStatus(data, "paused")} : Answer("form", d, "review")
  BY DEF FinishForm
<1>2. UNCHANGED <<exhausted, rounds, signedOff>> /\ haltedIn' = (IF data'.status \in Halts THEN phase ELSE haltedIn)
  BY DEF FinishForm, NoteHalt
<1>3. /\ prompt' = "none" /\ data' = d /\ step' = "review" /\ NodeOf(phase, step)
      /\ UNCHANGED <<phase, checkpoint, navigations, recovered, skipped>> /\ step = "collect_context"
  BY <1>1, AnswerFacts DEF IInv, Where
<1>4. NodeOf(phase, step')
  BY <1>3 DEF NodeOf, ContextNodes, ResearchNodes, PlanningNodes, OrchestrateNodes, AssemblyNodes
<1>5. Writes(data') /\ (data'.status \in Halts \/ data'.status = data.status \/ recovered)
  BY <1>3, Unwritten, StatusWritten, RunningInside DEF Halts
<1>6. Inside /\ Where'
  BY <1>3, <1>4, <1>5 DEF Inside, Where
<1>7. HaltHolds'
  BY <1>2, <1>3, <1>5 DEF IInv, HaltHolds
<1> QED
  BY <1>2, <1>3, <1>6, <1>7, StepInside DEF IInv, TypeOK

\* What closing and deciding write.
LEMMA DecisionsWritten ==
  ASSUME IInv, phase \in Asking, NEW d, Writes(d), NEW approves \in BOOLEAN
  PROVE  /\ phase # "context" => Writes(Decided(d, approves)) /\ Decided(d, approves).status = d.status
         /\ Writes(Closed(d)) /\ Closed(d).status = d.status /\ phase \in Closed(d).completed
<1>1. /\ d \in State /\ phase \in Phases /\ d.completed \in {data.completed, data.completed \cup {phase}}
      /\ d.reOrchestrated = data.reOrchestrated /\ (d.flagged = data.flagged \/ phase = "assembly")
      /\ data.results \subseteq d.results /\ (d.status = "completed" => data.status = "completed")
  BY DEF IInv, TypeOK, Writes
<1>2. ASSUME phase # "context" PROVE Writes(Decided(d, approves)) /\ Decided(d, approves).status = d.status
  <2> DEFINE a == IF approves THEN d.approved \cup {phase} ELSE d.approved \ {phase}
             g == IF d.furthest < Position[phase] THEN Position[phase] ELSE d.furthest
  <2>1. a \in SUBSET {"research", "planning", "assembly"}
    BY <1>1, <1>2 DEF State, Asking
  <2>2. Position[phase] \in 0..5
    BY <1>1 DEF Phases, Position
  <2>3. g \in 0..5
    BY <1>1, <2>2 DEF State
  <2>4. Decided(d, approves) = [d EXCEPT !.approved = a, !.furthest = g]
    BY DEF Decided
  <2> HIDE DEF a, g
  <2>5. [d EXCEPT !.approved = a, !.furthest = g] \in State
    BY <1>1, <2>1, <2>3 DEF State
  <2>6. d \in State => /\ d.completed = [d EXCEPT !.approved = a, !.furthest = g].completed
                       /\ d.results = [d EXCEPT !.approved = a, !.furthest = g].results
                       /\ d.reOrchestrated = [d EXCEPT !.approved = a, !.furthest = g].reOrchestrated
                       /\ d.flagged = [d EXCEPT !.approved = a, !.furthest = g].flagged
                       /\ d.status = [d EXCEPT !.approved = a, !.furthest = g].status
    BY DEF State
  <2> QED
    BY <1>1, <2>4, <2>5, <2>6 DEF Writes
<1>3. Writes(Closed(d)) /\ Closed(d).status = d.status /\ phase \in Closed(d).completed
  <2> DEFINE c == d.completed \cup {phase}
             u == d.unchanged \/ phase = "research"
  <2>1. c \in SUBSET Phases /\ c = data.completed \cup {phase}
    BY <1>1 DEF State
  <2>2. u \in BOOLEAN
    OBVIOUS
  <2>3. Closed(d) = [d EXCEPT !.completed = c, !.unchanged = u]
    BY DEF Closed
  <2>4. phase \in c
    OBVIOUS
  <2> HIDE DEF c, u
  <2>5. [d EXCEPT !.completed = c, !.unchanged = u] \in State
    BY <1>1, <2>1, <2>2 DEF State
  <2>6. d \in State => /\ c = [d EXCEPT !.completed = c, !.unchanged = u].completed
                       /\ d.results = [d EXCEPT !.completed = c, !.unchanged = u].results
                       /\ d.reOrchestrated = [d EXCEPT !.completed = c, !.unchanged = u].reOrchestrated
                       /\ d.flagged = [d EXCEPT !.completed = c, !.unchanged = u].flagged
                       /\ d.status = [d EXCEPT !.completed = c, !.unchanged = u].status
    BY DEF State
  <2> QED
    BY <1>1, <2>1, <2>3, <2>4, <2>5, <2>6 DEF Writes
<1> QED
  BY <1>2, <1>3

\* Where a question of a phase can be.
LEMMA ApprovalPhase ==
  IInv => /\ prompt = "approval" => phase \in {"research", "planning", "assembly"}
          /\ prompt = "feedback" => phase = "context"
  BY DEF IInv, Where, Approvals, NodeOf, ContextNodes, ResearchNodes, PlanningNodes, OrchestrateNodes, AssemblyNodes,
         ParentNodes, Ends

\* The user closes the phase.
LEMMA StepApprove == ASSUME IInv, Approve PROVE IInv'
<1>1. PICK question \in {"feedback", "approval"} :
        Answer(question, IF question = "feedback" THEN Closed(data) ELSE Closed(Decided(data, TRUE)), "done")
  BY DEF Approve
<1>2. signedOff' = signedOff \cup {phase} /\ UNCHANGED <<exhausted, rounds, haltedIn>>
  BY DEF Approve
<1>3. /\ prompt = question /\ prompt' = "none" /\ step' = "done" /\ NodeOf(phase, step)
      /\ data' = (IF question = "feedback" THEN Closed(data) ELSE Closed(Decided(data, TRUE)))
      /\ UNCHANGED <<phase, checkpoint, navigations, recovered, skipped>>
  BY <1>1, AnswerFacts
<1>4. phase \in Asking /\ (question = "approval" => phase # "context")
  BY <1>3, ApprovalPhase DEF Asking
<1>5. Writes(data') /\ data'.status = data.status
  BY <1>3, <1>4, Unwritten, DecisionsWritten
<1>6. Inside /\ Where'
  BY <1>3, <1>5 DEF Inside, Where
<1>7. HaltHolds'
  BY <1>2, <1>3, <1>5 DEF IInv, HaltHolds
<1>8. signedOff' \subseteq signedOff \cup {phase} /\ signedOff \subseteq signedOff' /\ phase \in signedOff'
  BY <1>2
<1> QED
  BY <1>2, <1>3, <1>6, <1>7, <1>8, StepInside DEF IInv, TypeOK

\* The phase of a node that was out of budget goes on behind it.
LEMMA BudgetAnswered ==
  ASSUME IInv, prompt = "budget"
  PROVE  NodeOf(phase, step) /\ NodeOf(phase, After(step, data))
<1>1. step \in Inner /\ NodeOf(phase, step)
  BY DEF IInv, Where, BudgetNodes, Inner, ContextNodes, ResearchNodes, PlanningNodes, AssemblyNodes
<1> QED
  BY <1>1, EdgesStay, StepKinds DEF IInv, TypeOK

\* The user accepts what there is.
LEMMA StepAccept == ASSUME IInv, AcceptResults PROVE IInv'
<1> DEFINE d == IF phase = "assembly" THEN Closed(Decided(WithStatus(data, "running"), TRUE))
                ELSE WithStatus(data, "budget_exhausted")
<1>1. Answer("budget", d, After(step, data))
  BY DEF AcceptResults
<1>2. UNCHANGED <<exhausted, rounds, signedOff>> /\ haltedIn' = (IF phase = "assembly" THEN "none" ELSE phase)
  BY DEF AcceptResults
<1>3. /\ prompt = "budget" /\ prompt' = "none" /\ step' = After(step, data) /\ NodeOf(phase, step) /\ data' = d
      /\ UNCHANGED <<phase, checkpoint, navigations, recovered, skipped>>
  <2> HIDE DEF d
  <2> QED
    BY <1>1, AnswerFacts
<1>4. NodeOf(phase, step') /\ step' # "done"
  BY <1>3, BudgetAnswered, StepKinds
<1>5. CASE phase = "assembly"
  <2>1. Writes(data') /\ haltedIn' = "none"
    BY <1>2, <1>3, <1>5, StatusWritten, DecisionsWritten DEF Asking
  <2>2. Inside /\ Where' /\ HaltHolds'
    BY <1>3, <1>4, <2>1 DEF Inside, Where, HaltHolds
  <2> QED
    BY <1>2, <1>3, <1>4, <2>1, <2>2, StepInside DEF IInv, TypeOK
<1>6. CASE phase # "assembly"
  <2>1. Writes(data') /\ (data'.status \in Halts \/ recovered) /\ haltedIn' = phase
    BY <1>2, <1>3, <1>6, StatusWritten, RunningInside DEF Halts
  <2>2. Inside /\ Where' /\ HaltHolds'
    BY <1>3, <1>4, <2>1 DEF Inside, Where, HaltHolds
  <2> QED
    BY <1>2, <1>3, <1>4, <2>1, <2>2, StepInside DEF IInv, TypeOK
<1> QED
  BY <1>5, <1>6

\* The other answers to a budget question.
LEMMA StepBudgetAnswers == ASSUME IInv, IncreaseBudget \/ CancelWorkflow PROVE IInv'
<1>1. CASE IncreaseBudget
  <2>1. /\ prompt = "budget" /\ prompt' = "none" /\ step' = After(step, data) /\ NodeOf(phase, step)
        /\ data' = WithStatus(data, "running") /\ UNCHANGED <<phase, checkpoint, navigations, recovered, skipped>>
    BY <1>1, AnswerFacts DEF IncreaseBudget
  <2>2. exhausted' = FALSE /\ haltedIn' = "none" /\ UNCHANGED <<rounds, signedOff>>
    BY <1>1 DEF IncreaseBudget
  <2>3. NodeOf(phase, step') /\ step' # "done" /\ Writes(data')
    BY <2>1, BudgetAnswered, StepKinds, StatusWritten
  <2>4. Inside /\ Where' /\ HaltHolds'
    BY <2>1, <2>2, <2>3 DEF Inside, Where, HaltHolds
  <2> QED
    BY <2>1, <2>2, <2>3, <2>4, StepInside DEF IInv, TypeOK
<1>2. CASE CancelWorkflow
  <2>1. /\ prompt = "budget" /\ prompt' = "none" /\ step' = After(step, data) /\ NodeOf(phase, step)
        /\ data' = data /\ UNCHANGED <<phase, checkpoint, navigations, recovered, skipped>>
    BY <1>2, AnswerFacts DEF CancelWorkflow
  <2>2. UNCHANGED <<exhausted, rounds, signedOff, haltedIn>>
    BY <1>2 DEF CancelWorkflow
  <2>3. NodeOf(phase, step') /\ step' # "done" /\ Writes(data')
    BY <2>1, BudgetAnswered, StepKinds, Unwritten
  <2>4. Inside /\ Where' /\ HaltHolds'
    BY <2>1, <2>2, <2>3 DEF Inside, Where, IInv, HaltHolds
  <2> QED
    BY <2>1, <2>2, <2>3, <2>4, StepInside DEF IInv, TypeOK
<1> QED
  BY <1>1, <1>2

\* What a decision against the phase writes.
LEMMA RefusalWritten ==
  ASSUME IInv, phase \in Asking \ {"context"}, NEW d, Writes(d)
  PROVE  LET e == [Decided(d, FALSE) EXCEPT !.unchanged = Decided(d, FALSE).unchanged /\ phase # "research"]
         IN Writes(e) /\ e.status = d.status
<1> DEFINE f == Decided(d, FALSE)
           u == f.unchanged /\ phase # "research"
<1>1. Writes(f) /\ f.status = d.status
  BY DecisionsWritten
<1>2. u \in BOOLEAN
  OBVIOUS
<1> HIDE DEF f, u
<1>3. Writes([f EXCEPT !.unchanged = u]) /\ [f EXCEPT !.unchanged = u].status = f.status
  BY <1>1, <1>2 DEF Writes, State
<1> QED
  BY <1>1, <1>3 DEF f, u

\* The user asks for more, or rejects.
LEMMA StepRefuse == ASSUME IInv, RequestMore \/ Reject PROVE IInv'
<1>1. CASE RequestMore
  <2> DEFINE d == [Decided(data, FALSE) EXCEPT !.unchanged = Decided(data, FALSE).unchanged /\ phase # "research"]
  <2>1. Answer("approval", d, Again[phase])
    BY <1>1 DEF RequestMore
  <2>2. rounds' = rounds + 1 /\ UNCHANGED <<exhausted, signedOff, haltedIn>>
    BY <1>1 DEF RequestMore
  <2>3. /\ prompt = "approval" /\ prompt' = "none" /\ step' = Again[phase] /\ NodeOf(phase, step)
        /\ data' = d /\ UNCHANGED <<phase, checkpoint, navigations, recovered, skipped>>
    <3> HIDE DEF d
    <3> QED
      BY <2>1, AnswerFacts
  <2>4. phase \in {"research", "planning", "assembly"}
    BY <2>3, ApprovalPhase
  <2>5. Writes(data') /\ data'.status = data.status
    BY <2>3, <2>4, Unwritten, RefusalWritten DEF Asking
  <2>6. NodeOf(phase, step') /\ step' # "done"
    BY <2>3, <2>4 DEF Again, NodeOf, ResearchNodes, PlanningNodes, AssemblyNodes
  <2>7. Inside /\ Where' /\ HaltHolds'
    BY <2>2, <2>3, <2>5, <2>6 DEF Inside, Where, IInv, HaltHolds
  <2>8. rounds' \in Nat
    BY <2>2 DEF IInv, TypeOK
  <2> HIDE DEF d
  <2> QED
    BY <2>2, <2>3, <2>6, <2>7, <2>8, StepInside DEF IInv, TypeOK
<1>2. CASE Reject
  <2> DEFINE b == WithStatus(data, "rejected")
             d == [Decided(b, FALSE) EXCEPT !.unchanged = Decided(b, FALSE).unchanged /\ phase # "research"]
  <2>1. Answer("approval", d, "done")
    BY <1>2 DEF Reject
  <2>2. UNCHANGED <<exhausted, rounds, signedOff>> /\ haltedIn' = (IF data'.status \in Halts THEN phase ELSE haltedIn)
    BY <1>2 DEF Reject, NoteHalt
  <2>3. /\ prompt = "approval" /\ prompt' = "none" /\ step' = "done" /\ NodeOf(phase, step)
        /\ data' = d /\ UNCHANGED <<phase, checkpoint, navigations, recovered, skipped>>
    <3> HIDE DEF d
    <3> QED
      BY <2>1, AnswerFacts
  <2>4. phase \in Asking \ {"context"}
    BY <2>3, ApprovalPhase DEF Asking
  <2>5. Writes(b) /\ b.status = Reduced(data.status, "rejected") /\ data.status \in Statuses
    BY StatusWritten DEF Halts, IInv, TypeOK, State
  <2>6. Writes(data') /\ data'.status = Reduced(data.status, "rejected")
    BY <2>3, <2>4, <2>5, RefusalWritten
  <2>7. data.status # "completed" => data'.status = "rejected"
    BY <2>5, <2>6, StatusKinds DEF Statuses, Halts
  <2>8. data.status = "completed" => recovered
    BY <2>3, RunningInside
  <2>9. Inside /\ Where' /\ HaltHolds'
    BY <2>2, <2>3, <2>6, <2>7, <2>8 DEF Inside, Where, IInv, HaltHolds, Halts
  <2> QED
    BY <2>2, <2>3, <2>7, <2>8, <2>9, StepInside DEF IInv, TypeOK
<1> QED
  BY <1>1, <1>2

-----------------------------------------------------------------------------
(* The nodes of the parent graph.                                             *)

\* A phase is entered with the parent's state.
LEMMA Entered ==
  ASSUME IInv, NEW p \in Phases, Enter(p), data' \in State, checkpoint' = data', prompt' = "none",
         exhausted' \in BOOLEAN, rounds' \in Nat, navigations' \in Nat, recovered' \in BOOLEAN,
         skipped' \subseteq Phases, haltedIn' \in Phases \cup {"none"},
         Before(p) \subseteq data'.completed \cup skipped',
         ~recovered' => Before(p) \ {"orchestrate"} \subseteq signedOff \cup skipped',
         data'.status = "completed" => recovered' /\ "assembly" \in data'.completed,
         haltedIn' # "none" => recovered',
         data'.reOrchestrated <= MAX_RE_ORCHESTRATIONS + navigations',
         p # "assembly" /\ data'.flagged # {} => data'.reOrchestrated < MAX_RE_ORCHESTRATIONS + navigations'
  PROVE  IInv'
<1>1. phase' = p /\ step' = Entry[p] /\ signedOff' = signedOff \ {p}
  BY DEF Enter
<1>2. NodeOf(p, Entry[p]) /\ Entry[p] \in Steps /\ Entry[p] \notin ParentNodes \cup Ends \cup {"done"}
  BY EntryIsNode, StepKinds
<1>3. signedOff' \subseteq Phases /\ p \notin Before(p)
  BY <1>1 DEF IInv, TypeOK, Before, Phases, Position
<1>4. TypeOK' /\ Where'
  BY <1>1, <1>2, <1>3 DEF TypeOK, Where
<1>5. CopyOfParent' /\ Order' /\ Left'
  BY <1>1, <1>2 DEF CopyOfParent, Order, Left, ParentNodes
<1>6. Signed'
  BY <1>1, <1>2, <1>3 DEF Signed, ParentNodes, Ends
<1>7. CompletedTells' /\ HaltHolds'
  BY DEF CompletedTells, HaltHolds
<1>8. RedoBounded'
  BY <1>1, <1>2 DEF RedoBounded, Redo, ParentNodes
<1> QED
  BY <1>4, <1>5, <1>6, <1>7, <1>8 DEF IInv

\* The order of the phases, pair by pair.
LEMMA PhaseAfter ==
  /\ Follows("context", "research") /\ Follows("research", "planning")
  /\ Follows("planning", "orchestrate") /\ Follows("orchestrate", "assembly")
  BY DEF Follows, Position

\* Before the next phase are those before this one, and this one.
LEMMA BeforeNext ==
  ASSUME NEW p \in Phases, NEW q \in Phases, Follows(p, q)
  PROVE  Before(q) = Before(p) \cup {p}
  BY DEF Before, Follows, Phases, Position

\* Where the parent goes from a phase.
LEMMA RouteKinds ==
  ASSUME NEW p \in Phases, NEW d
  PROVE  \/ Route(p, d) = "halted" /\ d.status \in Halts
         \/ Route(p, d) = "halt_on_incomplete"
         \/ /\ d.status \notin Halts /\ p \in d.completed
            /\ \/ Route(p, d) \in Phases /\ Follows(p, Route(p, d))
               \/ Route(p, d) = "prune_after_research" /\ p = "research"
               \/ Route(p, d) = "prune_after_orchestrate" /\ p = "orchestrate"
               \/ /\ Route(p, d) = "prune_after_orchestrate" /\ p = "assembly"
                  /\ d.flagged # {} /\ d.reOrchestrated < MAX_RE_ORCHESTRATIONS
               \/ Route(p, d) = "finalize" /\ p = "assembly"
  BY PhaseAfter DEF Route, ShouldHalt, IsComplete, TasksToRedo, Successor, Phases

\* The parent has the state a phase returned, or the one it halted with, and routes.
LEMMA StepRouted ==
  ASSUME IInv, GoTo(Route(phase, data')), data' \in State, checkpoint' = data', prompt' = "none",
         exhausted' \in BOOLEAN, UNCHANGED <<navigations, rounds, recovered, skipped>>,
         haltedIn' \in {haltedIn, "none"},
         checkpoint.completed \subseteq data'.completed,
         ~recovered /\ phase # "orchestrate" /\ data'.status # "rejected" => phase \in signedOff,
         data'.status = "completed" => recovered /\ "assembly" \in data'.completed,
         haltedIn' # "none" /\ ~recovered => phase = haltedIn' /\ data'.status \in Halts,
         Redo(data')
  PROVE  IInv'
<1> DEFINE t == Route(phase, data')
<1>1. phase \in Phases /\ navigations \in Nat /\ TypeOK /\ signedOff \subseteq Phases
  BY DEF IInv, TypeOK
<1>2. \/ t = "halted" /\ data'.status \in Halts
      \/ t = "halt_on_incomplete"
      \/ /\ data'.status \notin Halts /\ phase \in data'.completed
         /\ \/ t \in Phases /\ Follows(phase, t)
            \/ t = "prune_after_research" /\ phase = "research"
            \/ t = "prune_after_orchestrate" /\ phase = "orchestrate"
            \/ /\ t = "prune_after_orchestrate" /\ phase = "assembly"
               /\ data'.flagged # {} /\ data'.reOrchestrated < MAX_RE_ORCHESTRATIONS
            \/ t = "finalize" /\ phase = "assembly"
  BY <1>1, RouteKinds
<1>3. /\ t \in Phases => Enter(t)
      /\ t \notin Phases => step' = t /\ UNCHANGED <<phase, signedOff>>
  BY DEF GoTo
<1> HIDE DEF t
<1>4. CASE t \in Phases
  <2>1. data'.status \notin Halts /\ phase \in data'.completed /\ Follows(phase, t)
    BY <1>2, <1>4 DEF Phases
  <2>2. Before(t) = Before(phase) \cup {phase}
    BY <1>1, <1>4, <2>1, BeforeNext
  <2>3. Before(t) \subseteq data'.completed \cup skipped'
    BY <2>1, <2>2 DEF IInv, Order
  <2>4. ~recovered' => Before(t) \ {"orchestrate"} \subseteq signedOff \cup skipped'
    BY <2>1, <2>2 DEF IInv, Signed, Halts
  <2>5. phase # "assembly"
    BY <1>4, <2>1 DEF Follows, Position, Phases
  <2>6. /\ data'.reOrchestrated <= MAX_RE_ORCHESTRATIONS + navigations'
        /\ t # "assembly" /\ data'.flagged # {} => data'.reOrchestrated < MAX_RE_ORCHESTRATIONS + navigations'
    BY <2>5 DEF Redo
  <2>7. haltedIn' # "none" => recovered'
    BY <2>1
  <2>8. /\ rounds' \in Nat /\ navigations' \in Nat /\ recovered' \in BOOLEAN /\ skipped' \subseteq Phases
        /\ haltedIn' \in Phases \cup {"none"}
    BY <1>1 DEF TypeOK
  <2> QED
    BY <1>3, <1>4, <2>3, <2>4, <2>6, <2>7, <2>8, Entered
<1>5. CASE t \notin Phases
  <2>1. step' = t /\ phase' = phase /\ signedOff' = signedOff
    BY <1>3, <1>5
  <2>2. t \in {"halted", "halt_on_incomplete", "prune_after_research", "prune_after_orchestrate", "finalize"}
    BY <1>2, <1>5
  <2>3. t \in Steps
    BY <2>2 DEF Steps, Ends, ParentNodes
  <2>4. TypeOK'
    BY <1>1, <2>1, <2>3 DEF TypeOK
  <2>5. Where'
    BY <1>2, <1>5, <2>1 DEF Where
  <2>6. CopyOfParent' /\ Order'
    BY <2>1 DEF IInv, CopyOfParent, Order
  <2>7. Left'
    BY <1>2, <2>1 DEF Left
  <2>8. Signed'
    BY <2>1 DEF IInv, Signed
  <2>9. CompletedTells' /\ HaltHolds'
    BY <2>1 DEF CompletedTells, HaltHolds
  <2>10. RedoBounded'
    <3>1. data'.reOrchestrated \in Nat
      BY DEF State
    <3>2. Redo(data)'
      BY <2>1 DEF Redo
    <3>3. t = "prune_after_orchestrate" /\ data'.flagged # {}
            => data'.reOrchestrated < MAX_RE_ORCHESTRATIONS + navigations
      BY <1>1, <1>2, <1>5, <3>1 DEF Redo, MAX_RE_ORCHESTRATIONS
    <3> QED
      BY <2>1, <3>2, <3>3 DEF RedoBounded, Redo
  <2> QED
    BY <2>4, <2>5, <2>6, <2>7, <2>8, <2>9, <2>10 DEF IInv
<1> QED
  BY <1>4, <1>5

\* A phase returns to its parent.
LEMMA StepLeavePhase == ASSUME IInv, LeavePhase PROVE IInv'
<1> DEFINE x == Reduced(checkpoint.status, data.status)
<1>1. /\ step = "done" /\ prompt = "none" /\ data' = [data EXCEPT !.status = x] /\ checkpoint' = data'
      /\ GoTo(Route(phase, data')) /\ UNCHANGED <<prompt, exhausted, navigations, rounds, recovered, skipped, haltedIn>>
  BY DEF LeavePhase, At, Merged, userVars
<1>2. data \in State /\ checkpoint \in State /\ data.status \in Statuses /\ checkpoint.status \in Statuses
  BY DEF IInv, TypeOK, State
<1>3. x \in Statuses /\ x \in {checkpoint.status, data.status}
  BY <1>2, StatusKinds
<1>4. /\ data.status \in Halts /\ checkpoint.status # "completed" => x \in Halts
      /\ data.status = "rejected" /\ checkpoint.status # "completed" => x = "rejected"
  BY <1>2, StatusKinds
<1> HIDE DEF x
<1>5. /\ data' \in State /\ data'.status = x /\ data'.completed = data.completed
      /\ data'.reOrchestrated = data.reOrchestrated /\ data'.flagged = data.flagged
  BY <1>1, <1>2, <1>3 DEF State
<1>6. data.status = "completed" \/ checkpoint.status = "completed" => recovered /\ "assembly" \in checkpoint.completed
  BY <1>1 DEF IInv, CompletedTells
<1>7. checkpoint.completed \subseteq data'.completed
  BY <1>5 DEF IInv, CopyOfParent
<1>8. Redo(data')
  BY <1>5 DEF IInv, RedoBounded, Redo
<1>9. ~recovered /\ phase # "orchestrate" /\ data'.status # "rejected" => phase \in signedOff
  BY <1>1, <1>4, <1>5, <1>6 DEF IInv, Signed
<1>10. haltedIn' # "none" /\ ~recovered => phase = haltedIn' /\ data'.status \in Halts
  BY <1>1, <1>4, <1>5, <1>6 DEF IInv, HaltHolds
<1>11. data'.status = "completed" => recovered /\ "assembly" \in data'.completed
  BY <1>3, <1>5, <1>6, <1>7
<1>12. exhausted' \in BOOLEAN /\ prompt' = "none"
  BY <1>1 DEF IInv, TypeOK
<1> QED
  BY <1>1, <1>5, <1>7, <1>8, <1>9, <1>10, <1>11, <1>12, StepRouted

\* The parent's own nodes enter with a status that is no halt.
LEMMA ParentRuns ==
  ASSUME IInv, step \in {"prune_after_research", "prune_after_orchestrate", "finalize"}
  PROVE  /\ data = checkpoint /\ data \in State /\ data.status \notin Halts /\ phase \in data.completed
         /\ haltedIn # "none" => recovered
         /\ data.status = "completed" => recovered /\ "assembly" \in data.completed
         /\ ~recovered /\ phase # "orchestrate" => phase \in signedOff
  BY DEF IInv, TypeOK, CopyOfParent, Left, HaltHolds, CompletedTells, Signed, ParentNodes, Halts

\* The research phase is over.
LEMMA StepPruneAfterResearch == ASSUME IInv, PruneAfterResearch PROVE IInv'
<1>1. /\ step = "prune_after_research" /\ prompt' = "none" /\ Enter("planning") /\ data' = data /\ checkpoint' = data'
      /\ UNCHANGED <<exhausted, navigations, rounds, recovered, skipped, haltedIn>>
  BY ParentRuns DEF PruneAfterResearch, At, userVars
<1>2. phase = "research"
  BY <1>1, StepKinds DEF IInv, Where, ParentNodes
<1>3. "planning" \in Phases /\ Before("planning") = Before(phase) \cup {phase}
  BY <1>2, PhasesInOrder DEF Phases
<1>4. Before("planning") \subseteq data'.completed \cup skipped'
  BY <1>1, <1>3, ParentRuns DEF IInv, Order
<1>5. ~recovered' => Before("planning") \ {"orchestrate"} \subseteq signedOff \cup skipped'
  BY <1>1, <1>2, <1>3, ParentRuns DEF IInv, Signed
<1>6. /\ data'.reOrchestrated <= MAX_RE_ORCHESTRATIONS + navigations'
      /\ data'.flagged # {} => data'.reOrchestrated < MAX_RE_ORCHESTRATIONS + navigations'
  BY <1>1, <1>2 DEF IInv, RedoBounded, Redo
<1>7. /\ rounds' \in Nat /\ navigations' \in Nat /\ recovered' \in BOOLEAN /\ skipped' \subseteq Phases
      /\ haltedIn' \in Phases \cup {"none"} /\ exhausted' \in BOOLEAN /\ data' \in State
  BY <1>1 DEF IInv, TypeOK
<1>8. /\ haltedIn' # "none" => recovered'
      /\ data'.status = "completed" => recovered' /\ "assembly" \in data'.completed
  BY <1>1, ParentRuns
<1> QED
  BY <1>1, <1>3, <1>4, <1>5, <1>6, <1>7, <1>8, Entered

\* The orchestrate phase is over, or the review sends tasks back.
LEMMA StepPruneAfterOrchestrate == ASSUME IInv, PruneAfterOrchestrate PROVE IInv'
<1> DEFINE kept == data.results \ data.flagged
           passes == data.reOrchestrated + 1
           pruned == [data EXCEPT !.results = kept, !.flagged = {}, !.reOrchestrated = passes, !.allComplete = FALSE]
<1>1. /\ step = "prune_after_orchestrate" /\ prompt' = "none" /\ Enter("assembly") /\ checkpoint' = data'
      /\ data' = (IF data.flagged = {} THEN data ELSE pruned)
      /\ UNCHANGED <<exhausted, navigations, rounds, recovered, skipped, haltedIn>>
  BY DEF PruneAfterOrchestrate, At, userVars
<1>2. phase \in {"orchestrate", "assembly"} /\ data \in State /\ navigations \in Nat
  BY <1>1, StepKinds DEF IInv, Where, ParentNodes, TypeOK
<1>3. kept \in SUBSET Tasks /\ passes \in Nat
  BY <1>2 DEF State
<1>4. data.flagged # {} => passes <= MAX_RE_ORCHESTRATIONS + navigations
  BY <1>1, <1>2 DEF IInv, RedoBounded, State, MAX_RE_ORCHESTRATIONS
<1> HIDE DEF kept, passes
<1>5. /\ pruned \in State /\ pruned.status = data.status /\ pruned.completed = data.completed
      /\ pruned.reOrchestrated = passes
  BY <1>2, <1>3 DEF State
<1> HIDE DEF pruned
<1>6. /\ data' \in State /\ data'.status = data.status /\ data'.completed = data.completed
      /\ data'.reOrchestrated <= MAX_RE_ORCHESTRATIONS + navigations'
  BY <1>1, <1>2, <1>4, <1>5 DEF IInv, RedoBounded, Redo
<1>7. "assembly" \in Phases /\ Before("assembly") \subseteq Before(phase) \cup {phase}
      /\ Before("assembly") \ {"orchestrate"} \subseteq Before(phase) \ {"orchestrate"}
  BY <1>2, PhasesInOrder DEF Phases
<1>8. Before("assembly") \subseteq data'.completed \cup skipped'
  BY <1>1, <1>6, <1>7, ParentRuns DEF IInv, Order
<1>9. ~recovered' => Before("assembly") \ {"orchestrate"} \subseteq signedOff \cup skipped'
  BY <1>1, <1>7 DEF IInv, Signed
<1>10. /\ rounds' \in Nat /\ navigations' \in Nat /\ recovered' \in BOOLEAN /\ skipped' \subseteq Phases
       /\ haltedIn' \in Phases \cup {"none"} /\ exhausted' \in BOOLEAN
  BY <1>1 DEF IInv, TypeOK
<1>11. /\ haltedIn' # "none" => recovered'
       /\ data'.status = "completed" => recovered' /\ "assembly" \in data'.completed
  BY <1>1, <1>6, ParentRuns
<1> QED
  BY <1>1, <1>6, <1>7, <1>8, <1>9, <1>10, <1>11, Entered

\* The assembly phase is over.
LEMMA StepFinalize == ASSUME IInv, Finalize PROVE IInv'
<1> DEFINE x == Reduced(data.status, IF data.document \/ data.manifest THEN "completed" ELSE "error")
           c == data.completed \cup {"assembly"}
<1>1. /\ step = "finalize" /\ prompt = "none" /\ step' = "ended" /\ checkpoint' = data'
      /\ data' = [[data EXCEPT !.status = x] EXCEPT !.completed = c]
      /\ haltedIn' = (IF data'.status \in Halts THEN phase ELSE haltedIn)
      /\ UNCHANGED <<phase, prompt, exhausted, navigations, rounds, recovered, skipped, signedOff>>
  BY DEF Finalize, At, WithStatus, NoteHalt, userVars
<1>2. /\ phase = "assembly" /\ data \in State /\ data = checkpoint /\ data.status \in Statuses /\ phase \in data.completed
      /\ navigations \in Nat
  BY <1>1, StepKinds, ParentRuns DEF IInv, Where, ParentNodes, TypeOK, State
<1>3. x \in Statuses
  BY <1>2, StatusKinds DEF Statuses, Halts
<1>4. c = data.completed /\ c \in SUBSET Phases
  BY <1>2 DEF State
<1> HIDE DEF x, c
<1>5. /\ data' \in State /\ data'.status = x /\ data'.completed = data.completed
      /\ data'.reOrchestrated = data.reOrchestrated /\ data'.flagged = data.flagged
  BY <1>1, <1>2, <1>3, <1>4 DEF State
<1>6. TypeOK'
  BY <1>1, <1>5 DEF IInv, TypeOK, Steps, Ends
<1>7. Where' /\ Left'
  BY <1>1 DEF IInv, Where, Left
<1>8. CopyOfParent' /\ Order'
  BY <1>1, <1>2, <1>5 DEF IInv, CopyOfParent, Order
<1>9. Signed'
  BY <1>1 DEF IInv, Signed
<1>10. ~recovered => Phases \ {"orchestrate"} \subseteq signedOff \cup skipped
  BY <1>1, <1>2, PhasesInOrder, ParentRuns DEF IInv, Signed, Phases
<1>11. CompletedTells'
  BY <1>1, <1>2, <1>5, <1>10 DEF CompletedTells
<1>12. HaltHolds'
  BY <1>1, ParentRuns DEF HaltHolds
<1>13. RedoBounded'
  BY <1>1, <1>5 DEF IInv, RedoBounded, Redo
<1> QED
  BY <1>6, <1>7, <1>8, <1>9, <1>11, <1>12, <1>13 DEF IInv

\* A phase has ended without being complete.
LEMMA StepHaltOnIncomplete == ASSUME IInv, HaltOnIncomplete PROVE IInv'
<1> DEFINE x == Reduced(data.status, "error")
<1>1. /\ step = "halt_on_incomplete" /\ prompt = "none" /\ step' = "ended" /\ checkpoint' = data'
      /\ data' = [data EXCEPT !.status = x]
      /\ haltedIn' = (IF data'.status \in Halts THEN phase ELSE haltedIn)
      /\ UNCHANGED <<phase, prompt, exhausted, navigations, rounds, recovered, skipped, signedOff>>
  BY DEF HaltOnIncomplete, At, WithStatus, NoteHalt, userVars
<1>2. data \in State /\ data = checkpoint /\ data.status \in Statuses
  BY <1>1 DEF IInv, TypeOK, CopyOfParent, ParentNodes, State
<1>3. x \in Statuses /\ x \in {data.status, "error"} /\ (data.status # "completed" => x \in Halts)
  BY <1>2, StatusKinds DEF Statuses, Halts
<1> HIDE DEF x
<1>4. /\ data' \in State /\ data'.status = x /\ data'.completed = data.completed
      /\ data'.reOrchestrated = data.reOrchestrated /\ data'.flagged = data.flagged
  BY <1>1, <1>2, <1>3 DEF State
<1>5. data.status = "completed" => recovered /\ "assembly" \in data.completed
  BY <1>1, <1>2 DEF IInv, CompletedTells
<1>6. TypeOK'
  BY <1>1, <1>4 DEF IInv, TypeOK, Steps, Ends
<1>7. Where' /\ Left'
  BY <1>1 DEF IInv, Where, Left
<1>8. CopyOfParent' /\ Order'
  BY <1>1, <1>2, <1>4 DEF IInv, CopyOfParent, Order
<1>9. Signed'
  BY <1>1 DEF IInv, Signed
<1>10. CompletedTells'
  BY <1>1, <1>3, <1>4, <1>5 DEF CompletedTells
<1>11. HaltHolds'
  BY <1>1, <1>3, <1>4, <1>5 DEF HaltHolds
<1>12. RedoBounded'
  BY <1>1, <1>4 DEF IInv, RedoBounded, Redo
<1> QED
  BY <1>6, <1>7, <1>8, <1>9, <1>10, <1>11, <1>12 DEF IInv

-----------------------------------------------------------------------------
(* The user lifts a halt, navigates, or is told that the plan is complete.    *)

\* The parent's state with its status set back.
LEMMA SetBack ==
  ASSUME IInv, step \in Ends
  PROVE  LET d == WithStatus(checkpoint, "running")
         IN /\ d \in State /\ d.status = "running" /\ d.completed = checkpoint.completed
            /\ d.reOrchestrated = checkpoint.reOrchestrated /\ d.flagged = checkpoint.flagged
            /\ prompt = "none"
<1>1. checkpoint \in State /\ checkpoint.status \in Statuses
  BY DEF IInv, TypeOK, State
<1>2. Reduced(checkpoint.status, "running") = "running" /\ "running" \in Statuses
  BY <1>1, StatusKinds DEF Statuses
<1>3. prompt = "none"
  BY DEF IInv, TypeOK, Where, Ends, Approvals, BudgetNodes, Inner, ContextNodes, ResearchNodes, PlanningNodes, AssemblyNodes
<1> QED
  BY <1>1, <1>2, <1>3 DEF WithStatus, State

\* The halt is lifted and the graph stays where it is.
LEMMA Lifted ==
  ASSUME IInv, step \in Ends, data' = WithStatus(checkpoint, "running"), checkpoint' = data',
         haltedIn' = "none", exhausted' \in BOOLEAN, step = "halted" => data.status # "rejected",
         UNCHANGED <<phase, step, prompt, navigations, rounds, recovered, skipped, signedOff>>
  PROVE  IInv'
<1>1. /\ data' \in State /\ data'.status = "running" /\ data'.completed = checkpoint.completed
      /\ data'.reOrchestrated = checkpoint.reOrchestrated /\ data'.flagged = checkpoint.flagged
  BY SetBack
<1>2. TypeOK' /\ Where'
  BY <1>1 DEF IInv, TypeOK, Where
<1>3. CopyOfParent' /\ Order'
  BY <1>1 DEF IInv, CopyOfParent, Order
<1>4. Left' /\ Signed'
  BY DEF IInv, Left, Signed, Ends
<1>5. CompletedTells' /\ HaltHolds'
  BY <1>1 DEF CompletedTells, HaltHolds
<1>6. RedoBounded'
  BY <1>1 DEF IInv, RedoBounded, Redo, Ends
<1> QED
  BY <1>2, <1>3, <1>4, <1>5, <1>6 DEF IInv

\* The user tries a halted workflow again.
LEMMA StepRetry == ASSUME IInv, Retry PROVE IInv'
<1>1. /\ step \in Ends /\ data.status # "rejected" /\ data' = WithStatus(checkpoint, "running") /\ checkpoint' = data'
      /\ IF step = "halted" THEN GoTo(Route(phase, data')) ELSE UNCHANGED <<phase, step, signedOff>>
      /\ haltedIn' = "none"
      /\ UNCHANGED <<prompt, exhausted, navigations, rounds, recovered, skipped>>
  BY DEF Retry, userVars
<1>2. exhausted' \in BOOLEAN
  BY <1>1 DEF IInv, TypeOK
<1>3. /\ data' \in State /\ data'.status = "running" /\ data'.completed = checkpoint.completed
      /\ data'.reOrchestrated = checkpoint.reOrchestrated /\ data'.flagged = checkpoint.flagged /\ prompt' = "none"
  BY <1>1, <1>2, SetBack
<1>4. CASE step = "halted"
  <2>1. Redo(data')
    BY <1>3 DEF IInv, RedoBounded, Redo
  <2>2. ~recovered /\ phase # "orchestrate" => phase \in signedOff
    BY <1>1, <1>4 DEF IInv, Signed
  <2> QED
    BY <1>1, <1>2, <1>3, <1>4, <2>1, <2>2, StepRouted
<1>5. CASE step # "halted"
  BY <1>1, <1>2, <1>5, Lifted
<1> QED
  BY <1>4, <1>5

\* The user resumes after accepted results.
LEMMA StepResumeExhausted == ASSUME IInv, ResumeExhausted PROVE IInv'
<1>1. /\ step = "halted" /\ data.status = "budget_exhausted" /\ data' = WithStatus(checkpoint, "running")
      /\ checkpoint' = data' /\ haltedIn' = "none" /\ exhausted' \in {exhausted, FALSE}
      /\ UNCHANGED <<phase, step, prompt, navigations, rounds, recovered, skipped, signedOff>>
  BY DEF ResumeExhausted, userVars
<1>2. exhausted' \in BOOLEAN /\ step \in Ends
  BY <1>1 DEF IInv, TypeOK, Ends
<1> QED
  BY <1>1, <1>2, Lifted

\* The dispatcher declares the plan complete.
LEMMA StepRecoverCompletion == ASSUME IInv, RecoverCompletion PROVE IInv'
<1> DEFINE x == Reduced(checkpoint.status, "completed")
<1>1. /\ prompt # "none" \/ step \in Ends
      /\ "assembly" \in checkpoint.completed
      /\ checkpoint' = [checkpoint EXCEPT !.status = x]
      /\ data' = (IF step \in Ends THEN checkpoint' ELSE data)
      /\ recovered' = TRUE
      /\ UNCHANGED <<phase, step, prompt, exhausted, navigations, rounds, skipped, signedOff, haltedIn>>
  BY DEF RecoverCompletion, Recoverable, WithStatus
<1>2. checkpoint \in State /\ checkpoint.status \in Statuses
  BY DEF IInv, TypeOK, State
<1>3. x = "completed"
  BY <1>2, StatusKinds DEF Statuses
<1> HIDE DEF x
<1>4. /\ checkpoint' \in State /\ checkpoint'.completed = checkpoint.completed /\ checkpoint'.status = "completed"
      /\ checkpoint'.results = checkpoint.results
      /\ checkpoint'.reOrchestrated = checkpoint.reOrchestrated /\ checkpoint'.flagged = checkpoint.flagged
  BY <1>1, <1>2, <1>3 DEF State, Statuses
<1>5. step \notin ParentNodes
  BY <1>1 DEF IInv, TypeOK, Where, Ends, ParentNodes, Approvals, BudgetNodes, Inner, ContextNodes, ResearchNodes,
              PlanningNodes, AssemblyNodes
<1>6. TypeOK'
  BY <1>1, <1>4 DEF IInv, TypeOK
<1>7. Where' /\ Left'
  BY <1>1, <1>5 DEF IInv, Where, Left, ParentNodes
<1>8. CopyOfParent' /\ Order'
  BY <1>1, <1>4, <1>5 DEF IInv, CopyOfParent, Order
<1>9. Signed' /\ CompletedTells' /\ HaltHolds'
  BY <1>1, <1>4 DEF Signed, CompletedTells, HaltHolds
<1>10. RedoBounded'
  BY <1>1, <1>4, <1>5 DEF IInv, RedoBounded, Redo, ParentNodes
<1> QED
  BY <1>6, <1>7, <1>8, <1>9, <1>10 DEF IInv

\* The user navigates to a phase.
LEMMA StepNavigate == ASSUME IInv, NEW p \in Phases, NavigateToPhase(p) PROVE IInv'
<1> DEFINE cleared == IF p = "research" /\ checkpoint.unchanged THEN {p} ELSE From(p)
           x == Reduced(checkpoint.status, "running")
           open == checkpoint.completed \ cleared
           flags == IF "assembly" \in cleared THEN {} ELSE checkpoint.flagged
           kept == [checkpoint EXCEPT !.status = x, !.completed = open, !.flagged = flags]
<1>1. /\ navigations' = navigations + 1 /\ data' = kept /\ checkpoint' = data' /\ Enter(p) /\ prompt' = "none"
      /\ skipped' = Before(p) \ (kept.completed \cap (signedOff \cup {"orchestrate"}))
      /\ haltedIn' = "none" /\ recovered' = FALSE /\ UNCHANGED <<exhausted, rounds>>
  BY DEF NavigateToPhase
<1>2. checkpoint \in State /\ checkpoint.status \in Statuses /\ navigations \in Nat
  BY DEF IInv, TypeOK, State
<1>3. x = "running" /\ "running" \in Statuses
  BY <1>2, StatusKinds DEF Statuses
<1>4. open \in SUBSET Phases
  BY <1>2 DEF State
<1>5. flags \in SUBSET Tasks /\ flags \subseteq checkpoint.flagged
  BY <1>2 DEF State
<1> HIDE DEF x, open, flags
<1>6. /\ kept \in State /\ kept.status = "running" /\ kept.completed = open
      /\ kept.reOrchestrated = checkpoint.reOrchestrated
  BY <1>2, <1>3, <1>4, <1>5 DEF State
<1> HIDE DEF kept
<1>7. skipped' \subseteq Phases /\ Before(p) \subseteq data'.completed \cup skipped'
      /\ Before(p) \ {"orchestrate"} \subseteq signedOff \cup skipped'
  BY <1>1 DEF Before
<1>8. /\ data'.reOrchestrated <= MAX_RE_ORCHESTRATIONS + navigations'
      /\ data'.reOrchestrated < MAX_RE_ORCHESTRATIONS + navigations'
  <2>1. checkpoint.reOrchestrated <= MAX_RE_ORCHESTRATIONS + navigations /\ checkpoint.reOrchestrated \in Nat
    BY <1>2 DEF IInv, RedoBounded, Redo, State
  <2> QED
    BY <1>1, <1>2, <1>6, <2>1 DEF MAX_RE_ORCHESTRATIONS
<1>9. navigations' \in Nat
  BY <1>1, <1>2
<1>10. exhausted' \in BOOLEAN /\ rounds' \in Nat
  BY <1>1 DEF IInv, TypeOK
<1>11. recovered' = FALSE /\ haltedIn' = "none" /\ recovered' \in BOOLEAN /\ haltedIn' \in Phases \cup {"none"}
  BY <1>1
<1>12. data' \in State /\ data'.status = "running" /\ checkpoint' = data' /\ Enter(p) /\ prompt' = "none"
  BY <1>1, <1>6
<1> QED
  BY <1>7, <1>8, <1>9, <1>10, <1>11, <1>12, Entered

\* A step that changes nothing keeps the invariant.
LEMMA StepUnchanged == ASSUME IInv, UNCHANGED vars PROVE IInv'
  BY DEF vars, IInv, TypeOK, Where, CopyOfParent, Order, Left, Signed, CompletedTells, HaltHolds, RedoBounded, Redo

\* So does the end of the budget.
LEMMA StepExhaust == ASSUME IInv, Exhaust PROVE IInv'
<1>1. exhausted' \in BOOLEAN
      /\ UNCHANGED <<phase, checkpoint, step, prompt, data, navigations, rounds, recovered, skipped, signedOff, haltedIn>>
  BY DEF Exhaust, subgraphVars, userVars
<1> QED
  BY <1>1 DEF IInv, TypeOK, Where, CopyOfParent, Order, Left, Signed, CompletedTells, HaltHolds, RedoBounded, Redo

-----------------------------------------------------------------------------
(* The theorems.                                                              *)

\* Every step keeps the invariant.
LEMMA IInvNext == ASSUME IInv, [Next]_vars PROVE IInv'
<1> USE DEF Inner, ContextNodes, ResearchNodes, PlanningNodes, AssemblyNodes
<1>1. CASE ContextNode
  BY <1>1, StepPasses, StepAsk
  DEF ContextNode, ValidateContext, CollectContext, Review, DeepAnalysis, FeedbackReview
<1>2. CASE ResearchNode
  BY <1>2, StepPasses, StepAsk, StepWriters
  DEF ResearchNode, FormulateQueries, Aggregate, ResearchApproval, Approvals
<1>3. CASE PlanningNode
  BY <1>3, StepPasses, StepAsk
  DEF PlanningNode, Roadmap, Feasibility, Decompose, ValidateDag, Assign, Align, PlanningApproval, Approvals
<1>4. CASE AssemblyNode
  BY <1>4, StepPasses, StepAsk, StepWriters
  DEF AssemblyNode, Completeness, Template, Generate, Validate, AssemblyApproval, Approvals
<1>5. CASE ParentNode
  BY <1>5, StepLeavePhase, StepPruneAfterResearch, StepPruneAfterOrchestrate, StepFinalize, StepHaltOnIncomplete
  DEF ParentNode
<1>6. CASE Orchestrate \/ StorageError \/ BudgetInterrupt
  BY <1>6, StepOrchestrate, StepStorageError, StepBudgetInterrupt
<1>7. CASE Approve \/ FinishForm \/ AcceptResults \/ RequestMore \/ Reject \/ IncreaseBudget \/ CancelWorkflow
  BY <1>7, StepApprove, StepFinishForm, StepAccept, StepRefuse, StepBudgetAnswers
<1>8. CASE Retry \/ ResumeExhausted \/ RecoverCompletion
  BY <1>8, StepRetry, StepResumeExhausted, StepRecoverCompletion
<1>9. CASE Navigate \/ StepForward \/ RestartIncomplete
  BY <1>9, StepNavigate DEF Navigate, StepForward, RestartIncomplete
<1>10. CASE Exhaust \/ Ended \/ UNCHANGED vars
  BY <1>10, StepExhaust, StepUnchanged DEF Ended
<1> QED
  BY <1>1, <1>2, <1>3, <1>4, <1>5, <1>6, <1>7, <1>8, <1>9, <1>10 DEF Next, NodeStep, UserStep

\* The invariant holds of every plan.
THEOREM PlanInvariant == Spec => []IInv
<1>1. Init => IInv
  BY IInvInit
<1>2. IInv /\ [Next]_vars => IInv'
  BY IInvNext
<1> QED
  BY <1>1, <1>2, PTL DEF Spec

\* Approvals in the order of the phases, halts that end their phase and a bounded number of
\* re-orchestrations, for any tasks and any number of navigations and rounds.
THEOREM PlanSound == Spec => []PlanInv
<1>1. IInv => ApprovedInOrder
  <2> SUFFICES ASSUME IInv, ~recovered
               PROVE  (IF data.status = "completed" THEN Phases ELSE Before(phase)) \ {"orchestrate"}
                        \subseteq signedOff \cup skipped
    BY DEF ApprovedInOrder
  <2>1. CASE data.status = "completed"
    BY <2>1 DEF IInv, CompletedTells
  <2>2. CASE data.status # "completed"
    BY <2>2 DEF IInv, Signed
  <2> QED
    BY <2>1, <2>2
<1>2. IInv => HaltEndsPhase /\ ReOrchestrationBounded /\ TypeOK
  BY DEF IInv, HaltHolds, HaltEndsPhase, RedoBounded, Redo, ReOrchestrationBounded
<1>3. IInv => PlanInv
  BY <1>1, <1>2 DEF PlanInv
<1> QED
  BY <1>3, PlanInvariant, PTL

\* No phase runs before the phases it builds on.
THEOREM PhasesRunInOrder == Spec => []PhaseOrder
<1>1. IInv => PhaseOrder
  BY DEF IInv, Order, CopyOfParent, PhaseOrder
<1> QED
  BY <1>1, PlanInvariant, PTL

-----------------------------------------------------------------------------
(* The plan workflow implements the life cycle of the phases.                 *)

Outcome == IF step \notin Ends THEN "running" ELSE IF data.status = "completed" THEN "finished" ELSE "halted"

\* A step inside a subgraph is none of the life cycle's.
Quiet == step \notin Ends /\ step' \notin Ends /\ UNCHANGED <<phase, checkpoint, navigations>>

\* The life cycle does not see it.
LEMMA QuietStutters == Quiet => UNCHANGED <<phase, checkpoint.completed, Outcome, navigations>>
  BY DEF Quiet, Outcome

\* No edge inside a subgraph leads to an end.
LEMMA EdgesGoOn == \A n \in Inner \cup {"orchestrate_loop"} : \A d : n \notin Ends /\ After(n, d) \notin Ends
  BY DEF After, Edges, Ends, Inner, ContextNodes, ResearchNodes, PlanningNodes, AssemblyNodes

\* A node that works is quiet.
LEMMA QuietWork == ASSUME NEW n \in Inner \cup {"orchestrate_loop"}, NEW D, Work(n, D) PROVE Quiet
  BY EdgesGoOn DEF Work, At, Quiet, subgraphVars, userVars

\* So is one that writes nothing.
LEMMA QuietPasses == ASSUME NEW n \in Inner, Passes(n) PROVE Quiet
  BY QuietWork DEF Passes

\* So is one that asks.
LEMMA QuietAsk == ASSUME NEW n, n \notin Ends, NEW question, Ask(n, question) PROVE Quiet
  BY DEF Ask, At, Quiet, subgraphVars, userVars

\* The nodes of the subgraphs.
LEMMA QuietNodes ==
  ASSUME IInv, \/ ContextNode \/ ResearchNode \/ PlanningNode \/ AssemblyNode \/ Orchestrate
               \/ StorageError \/ BudgetInterrupt
  PROVE  Quiet
<1> USE DEF Inner, ContextNodes, ResearchNodes, PlanningNodes, AssemblyNodes, Ends
<1>1. CASE ContextNode
  BY <1>1, QuietPasses, QuietAsk
  DEF ContextNode, ValidateContext, CollectContext, Review, DeepAnalysis, FeedbackReview
<1>2. CASE ResearchNode
  BY <1>2, QuietPasses, QuietAsk, QuietWork
  DEF ResearchNode, FormulateQueries, DispatchResearch, Aggregate, GapCheck, ConfidenceGate, ResearchApproval,
      At, Quiet, subgraphVars, userVars
<1>3. CASE PlanningNode
  BY <1>3, QuietPasses, QuietAsk
  DEF PlanningNode, Roadmap, Feasibility, Decompose, ValidateDag, Assign, Align, PlanningApproval
<1>4. CASE AssemblyNode
  BY <1>4, QuietPasses, QuietAsk, QuietWork
  DEF AssemblyNode, Completeness, CompositionReview, Template, Generate, Consistency, Assemble, Validate, AssemblyApproval
<1>5. CASE Orchestrate
  BY <1>5, QuietWork DEF Orchestrate
<1>6. CASE StorageError
  <2>1. step \in StoringNodes /\ step' = After(step, data) /\ UNCHANGED <<phase, checkpoint, navigations>>
    BY <1>6 DEF StorageError, At, Stores, StoringNodes, subgraphVars, userVars
  <2>2. step \in Inner
    BY <2>1 DEF StoringNodes
  <2> QED
    BY <2>1, <2>2, EdgesGoOn DEF Quiet
<1>7. CASE BudgetInterrupt
  <2>1. step \in BudgetNodes /\ UNCHANGED <<step, phase, checkpoint, navigations>>
    BY <1>7, BudgetNodesCheck DEF BudgetInterrupt, At, subgraphVars, userVars
  <2> QED
    BY <2>1 DEF Quiet, BudgetNodes
<1> QED
  BY <1>1, <1>2, <1>3, <1>4, <1>5, <1>6, <1>7

\* The answers.
LEMMA QuietAnswer ==
  ASSUME IInv, NEW question \in {"budget", "form", "feedback", "approval"}, NEW d, NEW next,
         Answer(question, d, next), next \notin Ends
  PROVE  Quiet
<1>1. NodeOf(phase, step) /\ step' = next /\ UNCHANGED <<phase, checkpoint, navigations>>
  BY AnswerFacts
<1> QED
  BY <1>1, StepKinds DEF Quiet

\* All answers are quiet.
LEMMA QuietAnswers ==
  ASSUME IInv, Approve \/ FinishForm \/ AcceptResults \/ RequestMore \/ Reject \/ IncreaseBudget \/ CancelWorkflow
  PROVE  Quiet
<1>1. prompt = "budget" => After(step, data) \notin Ends
  BY EdgesGoOn DEF IInv, Where, BudgetNodes
<1>2. CASE Approve
  <2>1. PICK question \in {"feedback", "approval"} :
          Answer(question, IF question = "feedback" THEN Closed(data) ELSE Closed(Decided(data, TRUE)), "done")
    BY <1>2 DEF Approve
  <2>2. "done" \notin Ends
    BY DEF Ends
  <2> QED
    BY <2>1, <2>2, QuietAnswer
<1>3. CASE FinishForm
  BY <1>3, QuietAnswer DEF FinishForm, Ends
<1>4. CASE AcceptResults
  BY <1>1, <1>4, QuietAnswer DEF AcceptResults, Answer
<1>5. CASE RequestMore
  <2>1. phase \in {"research", "planning", "assembly"}
    BY <1>5, ApprovalPhase DEF RequestMore, Answer
  <2>2. Again[phase] \notin Ends
    BY <2>1 DEF Again, Ends
  <2> QED
    BY <1>5, <2>2, QuietAnswer DEF RequestMore
<1>6. CASE Reject
  BY <1>6, QuietAnswer DEF Reject, Ends
<1>7. CASE IncreaseBudget
  BY <1>1, <1>7, QuietAnswer DEF IncreaseBudget, Answer
<1>8. CASE CancelWorkflow
  BY <1>1, <1>8, QuietAnswer DEF CancelWorkflow, Answer
<1> QED
  BY <1>2, <1>3, <1>4, <1>5, <1>6, <1>7, <1>8

\* What the life cycle sees of the steps that are not quiet.
LifecycleStep == [Lifecycle!LifecycleNext]_(Lifecycle!lifecycleVars)

\* The phases of the life cycle are those of the plan workflow.
LEMMA SamePhases ==
  /\ Lifecycle!Phases = Phases
  /\ \A p, q : Lifecycle!Follows(p, q) <=> Follows(p, q)
  /\ \A p : Lifecycle!From(p) = From(p)
  BY DEF Lifecycle!Phases, Phases, Lifecycle!Follows, Follows, Lifecycle!From, From, Lifecycle!Position, Position

\* A step the life cycle does not see is allowed by it.
LEMMA StutterIsStep == ASSUME UNCHANGED <<phase, checkpoint.completed, Outcome, navigations>> PROVE LifecycleStep
  BY DEF LifecycleStep, Lifecycle!lifecycleVars, Outcome

\* The next phase is entered: the graph runs.
LEMMA EnterRuns == ASSUME NEW p \in Phases, Enter(p) PROVE phase' = p /\ step' \notin Ends /\ Outcome' = "running"
<1>1. phase' = p /\ step' = Entry[p] /\ Entry[p] \notin Ends
  BY EntryIsNode, StepKinds DEF Enter
<1> QED
  BY <1>1 DEF Outcome

\* Leaving a phase completes it, halts the workflow, or is not seen.
LEMMA LeavePhaseMaps == ASSUME IInv, LeavePhase PROVE LifecycleStep
<1> DEFINE t == Route(phase, data')
<1>1. /\ step = "done" /\ data' = Merged /\ checkpoint' = data' /\ GoTo(t) /\ navigations' = navigations
      /\ Merged.completed = data.completed /\ phase \in Phases
  BY DEF LeavePhase, At, Merged, userVars, IInv, TypeOK, State
<1>2. checkpoint'.completed \in {checkpoint.completed, checkpoint.completed \cup {phase}} /\ Outcome = "running"
  BY <1>1 DEF IInv, CopyOfParent, Outcome, Ends
<1>3. \/ t = "halted" /\ data'.status \in Halts
      \/ t = "halt_on_incomplete"
      \/ /\ phase \in data'.completed
         /\ \/ t \in Phases /\ Follows(phase, t)
            \/ t \in {"prune_after_research", "prune_after_orchestrate", "finalize"}
  BY <1>1, RouteKinds
<1>4. /\ t \in Phases => Enter(t)
      /\ t \notin Phases => step' = t /\ phase' = phase
  BY <1>1 DEF GoTo
<1> HIDE DEF t
<1>5. CASE t \in Phases
  <2>1. phase' = t /\ Outcome' = "running" /\ Follows(phase, t) /\ phase \in checkpoint'.completed
    BY <1>1, <1>3, <1>4, <1>5, EnterRuns DEF Phases
  <2>2. Lifecycle!Complete
    BY <1>1, <1>2, <1>5, <2>1, SamePhases DEF Lifecycle!Complete, Lifecycle!NextPhase, Outcome
  <2> QED
    BY <2>2 DEF LifecycleStep, Lifecycle!LifecycleNext
<1>6. CASE t = "halted"
  <2>1. phase' = phase /\ Outcome' = "halted"
    BY <1>3, <1>4, <1>6 DEF Phases, Outcome, Ends, Halts
  <2>2. Lifecycle!Halt
    BY <1>1, <1>2, <2>1 DEF Lifecycle!Halt, Outcome
  <2> QED
    BY <2>2 DEF LifecycleStep, Lifecycle!LifecycleNext
<1>7. CASE t \notin Phases \cup {"halted"}
  <2>1. phase' = phase /\ Outcome' = "running"
    BY <1>3, <1>4, <1>7 DEF Outcome, Ends
  <2>2. CASE checkpoint'.completed = checkpoint.completed
    BY <1>1, <1>2, <2>1, <2>2, StutterIsStep
  <2>3. CASE checkpoint'.completed = checkpoint.completed \cup {phase}
    <3>1. Lifecycle!Complete
      BY <1>1, <1>2, <2>1, <2>3 DEF Lifecycle!Complete, Outcome
    <3> QED
      BY <3>1 DEF LifecycleStep, Lifecycle!LifecycleNext
  <2> QED
    BY <1>2, <2>2, <2>3
<1> QED
  BY <1>5, <1>6, <1>7

\* The prune nodes advance to the next phase.
LEMMA PrunesMap == ASSUME IInv, PruneAfterResearch \/ PruneAfterOrchestrate PROVE LifecycleStep
<1>1. CASE PruneAfterResearch
  <2>1. /\ step = "prune_after_research" /\ Enter("planning") /\ UNCHANGED <<checkpoint, navigations>>
    BY <1>1 DEF PruneAfterResearch, At, userVars
  <2>2. phase = "research" /\ phase \in checkpoint.completed /\ Outcome = "running" /\ "planning" \in Phases
    BY <2>1, StepKinds DEF IInv, Where, Left, ParentNodes, Outcome, Ends, Phases
  <2>3. phase' = "planning" /\ Outcome' = "running"
    BY <2>1, <2>2, EnterRuns
  <2>4. Lifecycle!Advance
    BY <2>1, <2>2, <2>3, PhaseAfter, SamePhases DEF Lifecycle!Advance, Lifecycle!NextPhase, Outcome
  <2> QED
    BY <2>4 DEF LifecycleStep, Lifecycle!LifecycleNext
<1>2. CASE PruneAfterOrchestrate
  <2>1. /\ step = "prune_after_orchestrate" /\ Enter("assembly") /\ navigations' = navigations
        /\ data'.completed = data.completed /\ checkpoint' = data'
    <3>1. /\ step = "prune_after_orchestrate" /\ Enter("assembly") /\ navigations' = navigations /\ checkpoint' = data'
          /\ data \in State
          /\ data' = (IF data.flagged = {} THEN data
                      ELSE [data EXCEPT !.results = data.results \ data.flagged, !.flagged = {},
                                        !.reOrchestrated = data.reOrchestrated + 1, !.allComplete = FALSE])
      BY <1>2 DEF PruneAfterOrchestrate, At, userVars, IInv, TypeOK
    <3> QED
      BY <3>1 DEF State
  <2>2. phase \in {"orchestrate", "assembly"} /\ phase \in checkpoint.completed /\ Outcome = "running"
        /\ "assembly" \in Phases /\ data = checkpoint
    BY <2>1, StepKinds DEF IInv, Where, Left, CopyOfParent, ParentNodes, Outcome, Ends, Phases
  <2>3. phase' = "assembly" /\ Outcome' = "running" /\ checkpoint'.completed = checkpoint.completed
    BY <2>1, <2>2, EnterRuns
  <2>4. CASE phase = "assembly"
    BY <2>1, <2>2, <2>3, <2>4, StutterIsStep
  <2>5. CASE phase = "orchestrate"
    <3>1. Lifecycle!Advance
      BY <2>1, <2>2, <2>3, <2>5, PhaseAfter, SamePhases DEF Lifecycle!Advance, Lifecycle!NextPhase, Outcome
    <3> QED
      BY <3>1 DEF LifecycleStep, Lifecycle!LifecycleNext
  <2> QED
    BY <2>2, <2>4, <2>5
<1> QED
  BY <1>1, <1>2

\* The workflow comes to its end in the phase it is in.
LEMMA EndMaps ==
  ASSUME Outcome = "running", step' = "ended", UNCHANGED <<phase, checkpoint.completed, navigations>>,
         data'.status = "completed" => "assembly" \in checkpoint.completed
  PROVE  LifecycleStep
<1>1. Outcome' = (IF data'.status = "completed" THEN "finished" ELSE "halted")
  BY DEF Outcome, Ends
<1>2. CASE data'.status = "completed"
  <2>1. Lifecycle!Finish
    BY <1>1, <1>2 DEF Lifecycle!Finish, Outcome
  <2> QED
    BY <2>1 DEF LifecycleStep, Lifecycle!LifecycleNext
<1>3. CASE data'.status # "completed"
  <2>1. Lifecycle!Halt
    BY <1>1, <1>3 DEF Lifecycle!Halt, Outcome
  <2> QED
    BY <2>1 DEF LifecycleStep, Lifecycle!LifecycleNext
<1> QED
  BY <1>2, <1>3

\* The last node of the graph finishes or halts.
LEMMA FinalizeMaps == ASSUME IInv, Finalize PROVE LifecycleStep
<1> DEFINE x == Reduced(data.status, IF data.document \/ data.manifest THEN "completed" ELSE "error")
           c == data.completed \cup {"assembly"}
<1>1. /\ step = "finalize" /\ step' = "ended" /\ checkpoint' = data'
      /\ data' = [[data EXCEPT !.status = x] EXCEPT !.completed = c]
      /\ UNCHANGED <<phase, navigations>>
  BY DEF Finalize, At, WithStatus, NoteHalt, userVars
<1>2. phase = "assembly" /\ data \in State /\ data = checkpoint /\ phase \in data.completed
  BY <1>1, StepKinds, ParentRuns DEF IInv, Where, ParentNodes, TypeOK
<1> HIDE DEF x
<1>3. checkpoint'.completed = checkpoint.completed /\ "assembly" \in checkpoint.completed
  BY <1>1, <1>2 DEF State
<1>4. Outcome = "running"
  BY <1>1 DEF Outcome, Ends
<1> QED
  BY <1>1, <1>3, <1>4, EndMaps

\* So does the node behind an incomplete phase.
LEMMA HaltOnIncompleteMaps == ASSUME IInv, HaltOnIncomplete PROVE LifecycleStep
<1> DEFINE x == Reduced(data.status, "error")
<1>1. /\ step = "halt_on_incomplete" /\ step' = "ended" /\ checkpoint' = data' /\ data' = [data EXCEPT !.status = x]
      /\ UNCHANGED <<phase, navigations>>
  BY DEF HaltOnIncomplete, At, WithStatus, NoteHalt, userVars
<1>2. data \in State /\ data = checkpoint /\ data.status \in Statuses /\ Outcome = "running"
  BY <1>1 DEF IInv, TypeOK, CopyOfParent, ParentNodes, State, Outcome, Ends
<1>3. x = "completed" => data.status = "completed"
  <2>1. "error" \in Statuses /\ "error" # "completed"
    BY DEF Statuses, Halts
  <2> QED
    BY <1>2, <2>1, StatusKinds
<1> HIDE DEF x
<1>4. checkpoint'.completed = checkpoint.completed /\ data'.status = x
  BY <1>1, <1>2 DEF State
<1>5. data'.status = "completed" => "assembly" \in checkpoint.completed
  BY <1>3, <1>4 DEF IInv, CompletedTells
<1> QED
  BY <1>1, <1>2, <1>4, <1>5, EndMaps

\* Trying again resumes a halted workflow.
LEMMA RetryMaps == ASSUME IInv, Retry PROVE LifecycleStep
<1> DEFINE t == Route(phase, data')
<1>1. /\ step \in Ends /\ data.status # "completed" /\ data' = WithStatus(checkpoint, "running") /\ checkpoint' = data'
      /\ IF step = "halted" THEN GoTo(t) ELSE UNCHANGED <<phase, step>>
      /\ navigations' = navigations /\ phase \in Phases
  BY DEF Retry, userVars, IInv, TypeOK
<1>2. data'.status = "running" /\ checkpoint'.completed = checkpoint.completed /\ Outcome = "halted"
  BY <1>1, SetBack DEF Outcome
<1>3. t # "halted" /\ \/ t = "halt_on_incomplete"
                      \/ /\ phase \in checkpoint'.completed
                         /\ \/ t \in Phases /\ Follows(phase, t)
                            \/ t \in {"prune_after_research", "prune_after_orchestrate", "finalize"}
  BY <1>1, <1>2, RouteKinds DEF Halts, Phases, Route, ShouldHalt
<1>4. GoTo(t) => /\ t \in Phases => Enter(t)
                 /\ t \notin Phases => step' = t /\ phase' = phase
  BY DEF GoTo
<1> HIDE DEF t
<1>5. CASE step # "halted"
  <2>1. Outcome' = "halted"
    BY <1>1, <1>2, <1>5 DEF Outcome
  <2> QED
    BY <1>1, <1>2, <1>5, <2>1, StutterIsStep
<1>6. CASE step = "halted" /\ t \in Phases
  <2>1. phase' = t /\ Outcome' = "running" /\ Follows(phase, t) /\ phase \in checkpoint.completed
    BY <1>1, <1>2, <1>3, <1>4, <1>6, EnterRuns DEF Phases
  <2>2. Lifecycle!Resume
    BY <1>1, <1>2, <1>6, <2>1, SamePhases DEF Lifecycle!Resume, Lifecycle!NextPhase, Outcome
  <2> QED
    BY <2>2 DEF LifecycleStep, Lifecycle!LifecycleNext
<1>7. CASE step = "halted" /\ t \notin Phases
  <2>1. phase' = phase /\ Outcome' = "running"
    BY <1>1, <1>3, <1>4, <1>7 DEF Outcome, Ends
  <2>2. Lifecycle!Resume
    BY <1>1, <1>2, <2>1 DEF Lifecycle!Resume, Outcome
  <2> QED
    BY <2>2 DEF LifecycleStep, Lifecycle!LifecycleNext
<1> QED
  BY <1>5, <1>6, <1>7

\* Raising the limits of a halted workflow is not seen.
LEMMA ResumeMaps == ASSUME IInv, ResumeExhausted PROVE LifecycleStep
<1>1. /\ step = "halted" /\ data.status = "budget_exhausted" /\ data' = WithStatus(checkpoint, "running")
      /\ checkpoint' = data' /\ UNCHANGED <<phase, step, navigations>>
  BY DEF ResumeExhausted, userVars
<1>2. data'.status = "running" /\ checkpoint'.completed = checkpoint.completed
  BY <1>1, SetBack DEF Ends
<1> QED
  BY <1>1, <1>2, StutterIsStep DEF Outcome

\* An approved document is the end of a halted workflow.
LEMMA RecoverMaps == ASSUME IInv, RecoverCompletion PROVE LifecycleStep
<1> DEFINE x == Reduced(checkpoint.status, "completed")
<1>1. /\ checkpoint.status # "completed" /\ "assembly" \in checkpoint.completed
      /\ checkpoint' = [checkpoint EXCEPT !.status = x] /\ data' = (IF step \in Ends THEN checkpoint' ELSE data)
      /\ UNCHANGED <<phase, step, navigations>>
  BY DEF RecoverCompletion, Recoverable, WithStatus
<1>2. checkpoint \in State /\ checkpoint.status \in Statuses /\ (step \in Ends => data = checkpoint)
  BY DEF IInv, TypeOK, State, CopyOfParent
<1>3. x = "completed"
  BY <1>2, StatusKinds DEF Statuses
<1> HIDE DEF x
<1>4. checkpoint'.completed = checkpoint.completed /\ checkpoint'.status = "completed"
  BY <1>1, <1>2, <1>3 DEF State
<1>5. CASE step \in Ends
  <2>1. Outcome = "halted" /\ Outcome' = "finished"
    BY <1>1, <1>2, <1>4, <1>5 DEF Outcome
  <2>2. Lifecycle!Finish
    BY <1>1, <1>4, <2>1 DEF Lifecycle!Finish, Outcome
  <2> QED
    BY <2>2 DEF LifecycleStep, Lifecycle!LifecycleNext
<1>6. CASE step \notin Ends
  BY <1>1, <1>4, <1>6, StutterIsStep DEF Outcome
<1> QED
  BY <1>5, <1>6

\* A navigation is one of the life cycle.
LEMMA NavigateMaps == ASSUME IInv, NEW p \in Phases, NavigateToPhase(p) PROVE LifecycleStep
<1> DEFINE cleared == IF p = "research" /\ checkpoint.unchanged THEN {p} ELSE From(p)
           x == Reduced(checkpoint.status, "running")
           open == checkpoint.completed \ cleared
           flags == IF "assembly" \in cleared THEN {} ELSE checkpoint.flagged
           kept == [checkpoint EXCEPT !.status = x, !.completed = open, !.flagged = flags]
<1>1. navigations' = navigations + 1 /\ checkpoint' = kept /\ Enter(p)
  BY DEF NavigateToPhase
<1>2. checkpoint \in State
  BY DEF IInv, TypeOK
<1>3. open \in {checkpoint.completed \ {p}, checkpoint.completed \ From(p)}
  OBVIOUS
<1> HIDE DEF x, open, flags
<1>4. checkpoint'.completed = open
  BY <1>1, <1>2 DEF State
<1>5. phase' = p /\ Outcome' = "running"
  BY <1>1, EnterRuns
<1>6. Lifecycle!Navigate
  BY <1>1, <1>3, <1>4, <1>5, SamePhases DEF Lifecycle!Navigate, Outcome
<1> QED
  BY <1>6 DEF LifecycleStep, Lifecycle!LifecycleNext

\* Every step of the plan workflow is one of the life cycle, or none.
LEMMA NextMaps == ASSUME IInv, [Next]_vars PROVE LifecycleStep
<1>1. CASE \/ ContextNode \/ ResearchNode \/ PlanningNode \/ AssemblyNode \/ Orchestrate \/ StorageError \/ BudgetInterrupt
           \/ Approve \/ FinishForm \/ AcceptResults \/ RequestMore \/ Reject \/ IncreaseBudget \/ CancelWorkflow
  BY <1>1, QuietNodes, QuietAnswers, QuietStutters, StutterIsStep
<1>2. CASE ParentNode
  BY <1>2, LeavePhaseMaps, PrunesMap, FinalizeMaps, HaltOnIncompleteMaps DEF ParentNode
<1>3. CASE Retry \/ ResumeExhausted \/ RecoverCompletion
  BY <1>3, RetryMaps, ResumeMaps, RecoverMaps
<1>4. CASE Navigate \/ StepForward \/ RestartIncomplete
  BY <1>4, NavigateMaps DEF Navigate, StepForward, RestartIncomplete
<1>5. CASE Exhaust \/ Ended \/ UNCHANGED vars
  <2>1. UNCHANGED <<phase, checkpoint, step, data, navigations>>
    BY <1>5 DEF Exhaust, Ended, vars, subgraphVars, userVars
  <2> QED
    BY <2>1, StutterIsStep DEF Outcome
<1> QED
  BY <1>1, <1>2, <1>3, <1>4, <1>5 DEF Next, NodeStep, UserStep

\* The parent graph with its subgraphs, under every answer of the user, failure and exhausted
\* budget, implements the life cycle of the phases.
THEOREM PlanImplementsLifecycle == Spec => ImplementsLifecycle
<1>1. Init => Lifecycle!LifecycleInit
  BY DEF Init, Lifecycle!LifecycleInit, Empty, Entry, Ends
<1>2. IInv /\ [Next]_vars => [Lifecycle!LifecycleNext]_(Lifecycle!lifecycleVars)
  BY NextMaps DEF LifecycleStep
<1> QED
  BY <1>1, <1>2, PlanInvariant, PTL DEF Spec, ImplementsLifecycle, Lifecycle!Lifecycle

-----------------------------------------------------------------------------
(* The parent's results.                                                      *)

Keeps == checkpoint.results \ checkpoint'.results \subseteq checkpoint.flagged

\* A status loses no result.
LEMMA StatusKeeps ==
  ASSUME NEW d \in State, NEW st
  PROVE  WithStatus(d, st).results = d.results
  BY DEF WithStatus, State

\* No step loses results of the parent but those of flagged tasks.
LEMMA NextKeeps == ASSUME IInv, [Next]_vars PROVE Keeps
<1>1. data \in State /\ checkpoint \in State /\ checkpoint.results \subseteq data.results
      /\ (step \in ParentNodes \cup Ends => data = checkpoint)
  BY DEF IInv, TypeOK, CopyOfParent
<1>2. CASE checkpoint' = checkpoint
  BY <1>2 DEF Keeps
<1>3. CASE \/ ContextNode \/ ResearchNode \/ PlanningNode \/ AssemblyNode \/ Orchestrate \/ StorageError \/ BudgetInterrupt
           \/ Approve \/ FinishForm \/ AcceptResults \/ RequestMore \/ Reject \/ IncreaseBudget \/ CancelWorkflow
  BY <1>2, <1>3, QuietNodes, QuietAnswers DEF Quiet
<1>4. CASE LeavePhase
  <2>1. checkpoint' = [data EXCEPT !.status = Reduced(checkpoint.status, data.status)]
    BY <1>4 DEF LeavePhase, Merged
  <2>2. checkpoint'.results = data.results
    BY <1>1, <2>1 DEF State
  <2> QED
    BY <1>1, <2>2 DEF Keeps
<1>5. CASE PruneAfterResearch
  BY <1>2, <1>5 DEF PruneAfterResearch
<1>6. CASE PruneAfterOrchestrate
  <2>1. data = checkpoint /\ checkpoint' = data'
        /\ data' = (IF data.flagged = {} THEN data
                    ELSE [data EXCEPT !.results = data.results \ data.flagged, !.flagged = {},
                                      !.reOrchestrated = data.reOrchestrated + 1, !.allComplete = FALSE])
    BY <1>1, <1>6 DEF PruneAfterOrchestrate, At, ParentNodes
  <2>2. checkpoint'.results = data.results \ data.flagged \/ checkpoint' = checkpoint
    BY <1>1, <2>1 DEF State
  <2> QED
    BY <1>2, <2>1, <2>2 DEF Keeps
<1>7. CASE Finalize
  <2> DEFINE b == WithStatus(data, IF data.document \/ data.manifest THEN "completed" ELSE "error")
             c == b.completed \cup {"assembly"}
  <2>1. data = checkpoint /\ checkpoint' = [b EXCEPT !.completed = c]
    BY <1>1, <1>7 DEF Finalize, At, ParentNodes
  <2>2. b.results = data.results /\ b = [data EXCEPT !.status = b.status]
    BY <1>1, StatusKeeps DEF WithStatus, State
  <2> HIDE DEF b, c
  <2>3. checkpoint'.results = b.results
    BY <1>1, <2>1, <2>2 DEF State
  <2> QED
    BY <2>1, <2>2, <2>3 DEF Keeps
<1>8. CASE HaltOnIncomplete
  BY <1>1, <1>8, StatusKeeps DEF HaltOnIncomplete, At, ParentNodes, Keeps
<1>9. CASE Retry \/ ResumeExhausted \/ RecoverCompletion
  BY <1>1, <1>9, StatusKeeps DEF Retry, ResumeExhausted, RecoverCompletion, Keeps
<1>10. ASSUME NEW p \in Phases, NavigateToPhase(p) PROVE Keeps
  <2> DEFINE cleared == IF p = "research" /\ checkpoint.unchanged THEN {p} ELSE From(p)
             x == Reduced(checkpoint.status, "running")
             open == checkpoint.completed \ cleared
             flags == IF "assembly" \in cleared THEN {} ELSE checkpoint.flagged
  <2>1. checkpoint' = [checkpoint EXCEPT !.status = x, !.completed = open, !.flagged = flags]
    BY <1>10 DEF NavigateToPhase
  <2> HIDE DEF x, open, flags
  <2>2. checkpoint'.results = checkpoint.results
    BY <1>1, <2>1 DEF State
  <2> QED
    BY <2>2 DEF Keeps
<1>11. CASE Exhaust \/ Ended \/ UNCHANGED vars
  BY <1>2, <1>11 DEF Exhaust, Ended, vars, subgraphVars
<1> QED
  BY <1>3, <1>4, <1>5, <1>6, <1>7, <1>8, <1>9, <1>10, <1>11
  DEF Next, NodeStep, UserStep, ParentNode, Navigate, StepForward, RestartIncomplete

\* The results of a finished task survive everything but the review that flags it.
THEOREM PlanKeepsResults == Spec => ResultsKept
<1>1. IInv /\ [Next]_vars => [checkpoint.results \ checkpoint'.results \subseteq checkpoint.flagged]_vars
  BY NextKeeps DEF Keeps
<1> QED
  BY <1>1, PlanInvariant, PTL DEF Spec, ResultsKept

=============================================================================
