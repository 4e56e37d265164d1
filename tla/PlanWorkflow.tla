---------------------------- MODULE PlanWorkflow ----------------------------
(***************************************************************************)
(* The plan workflow: the parent graph of PlanEngine                          *)
(* (flows/v3/graphs/plan_engine.py) and the context, research, planning and   *)
(* assembly subgraphs it runs (flows/v3/graphs/plan_subgraphs/*.py,           *)
(* flows/v3/nodes/plan/*.py).                                                 *)
(*                                                                          *)
(*   context -> research -> prune -> planning -> orchestrate -> prune         *)
(*           -> assembly -> (prune | finalize)                                *)
(*                                                                          *)
(* A phase is a subgraph: it works on its own copy of the state (data) and    *)
(* the parent's checkpoint sees the copy when the subgraph returns.  One      *)
(* action is one node; a node that raises leaves its state and is run again.  *)
(* The orchestrate subgraph is one step here: OrchestrateLoop models it.      *)
(* The budget is a flag the environment sets; OrchestrateLoop counts calls.   *)
(***************************************************************************)
EXTENDS PlanPhases, FiniteSets

CONSTANTS
  Tasks,           \* the tasks of the plan
  MaxNavigations,  \* bound of the model on the navigations of the user
  MaxRounds        \* bound of the model on "request more" and "revise" answers

ASSUME BoundsAssumption ==
  IsFiniteSet(Tasks) /\ MaxNavigations \in Nat /\ MaxRounds \in Nat

MAX_RESEARCH_ITERATIONS    == 3
MAX_CONSISTENCY_ITERATIONS == 3
MAX_RE_ORCHESTRATIONS      == 3

VARIABLES
  phase,        \* the phase the parent graph is in
  step,         \* the node that runs next, of the subgraph or of the parent
  prompt,       \* the interrupt that waits for the user
  data,         \* the state the next node sees
  checkpoint,   \* the parent graph's state
  exhausted,    \* BudgetGuard.check fails
  \* What follows records the past for the properties; no guard reads it but
  \* the two bounds of the model.
  navigations,  \* navigations so far
  rounds,       \* "request more" and "revise" answers so far
  recovered,    \* the dispatcher declared the plan complete since the last navigation
  skipped,      \* phases before the navigation's target that were not complete, or open again
  signedOff,    \* phases the user closed since they were last entered
  haltedIn      \* the phase a halt was raised in, until the user lifts it

subgraphVars == <<phase, checkpoint>>
userVars     == <<navigations, rounds, recovered, skipped>>

vars == <<phase, step, prompt, data, checkpoint, exhausted,
          navigations, rounds, recovered, skipped, signedOff, haltedIn>>

\* Entry[p]: the node behind START of p's subgraph.
Entry == [context |-> "validate_context", research |-> "formulate_queries",
          planning |-> "roadmap", orchestrate |-> "orchestrate_loop",
          assembly |-> "completeness"]

\* The unconditional edges of the subgraphs; "done" is END.
Edges == [validate_context |-> "collect_context", collect_context |-> "review",
          review |-> "deep_analysis", deep_analysis |-> "feedback_review",
          feedback_review |-> "done",
          formulate_queries |-> "dispatch_research", dispatch_research |-> "aggregate",
          aggregate |-> "gap_check", confidence_gate |-> "research_approval",
          roadmap |-> "feasibility", feasibility |-> "decompose",
          decompose |-> "validate_dag", validate_dag |-> "assign", assign |-> "align",
          align |-> "planning_approval", orchestrate_loop |-> "done",
          completeness |-> "composition_review", composition_review |-> "template",
          template |-> "generate", generate |-> "consistency",
          assemble |-> "validate", validate |-> "assembly_approval"]

\* Where an approval node goes back to when the user asks for more.
Again == [research |-> "formulate_queries", planning |-> "roadmap", assembly |-> "generate"]

Approvals   == {"research_approval", "planning_approval", "assembly_approval"}
ParentNodes == {"prune_after_research", "prune_after_orchestrate", "finalize",
                "halt_on_incomplete"}

\* END behind a phase that halted, and END behind finalize or halt_on_incomplete.
Ends == {"halted", "ended"}

Steps == DOMAIN Edges \cup Approvals \cup ParentNodes \cup {"gap_check", "consistency", "done"} \cup Ends

Halts    == {"paused", "error", "budget_exhausted", "rejected"}
Statuses == Halts \cup {"running", "completed"}

State == [status : Statuses, completed : SUBSET Phases,
          gaps : BOOLEAN, iterations : Nat, structured : BOOLEAN, unchanged : BOOLEAN,
          results : SUBSET Tasks, flagged : SUBSET Tasks, reOrchestrated : Nat,
          issues : BOOLEAN, consistency : Nat, manifest : BOOLEAN, document : BOOLEAN,
          furthest : 0 .. 5, approved : SUBSET {"research", "planning", "assembly"},
          allComplete : BOOLEAN]

TypeOK ==
  /\ phase \in Phases /\ step \in Steps
  /\ prompt \in {"none", "budget", "form", "feedback", "approval"}
  /\ data \in State /\ checkpoint \in State
  /\ exhausted \in BOOLEAN
  /\ navigations \in Nat /\ rounds \in Nat
  /\ recovered \in BOOLEAN
  /\ skipped \subseteq Phases /\ signedOff \subseteq Phases
  /\ haltedIn \in Phases \cup {"none"}

-----------------------------------------------------------------------------
(* Routing and the budget.                                                   *)

Severity == [running |-> 1, paused |-> 2, error |-> 3, budget_exhausted |-> 3,
             rejected |-> 3, completed |-> 4]

\* _workflow_status_reducer: a status yields to one as severe, and to "running".
Reduced(old, new) ==
  IF new = "running" \/ Severity[new] >= Severity[old] THEN new ELSE old

WithStatus(d, new) == [d EXCEPT !.status = Reduced(@, new)]

\* gap_check and consistency loop back while there is something to do and
\* their counter allows it.
MoreResearch(d) ==
  /\ d.gaps
  /\ d.iterations < MAX_RESEARCH_ITERATIONS
  /\ d.structured \/ d.iterations < 2

MoreGeneration(d) == d.issues /\ d.consistency < MAX_CONSISTENCY_ITERATIONS

After(n, d) ==
  IF n = "gap_check"
  THEN IF MoreResearch(d) THEN "formulate_queries" ELSE "confidence_gate"
  ELSE IF n = "consistency"
  THEN IF MoreGeneration(d) THEN "generate" ELSE "assemble"
  ELSE Edges[n]

\* Nodes that ask BudgetGuard.check before they work.  With a document manifest
\* generate polishes and consistency is skipped, neither of which asks.
Checks(n) ==
  \/ n \in {"review", "deep_analysis", "formulate_queries", "dispatch_research", "aggregate",
            "gap_check", "confidence_gate", "roadmap", "feasibility", "decompose", "assign",
            "align", "assemble", "validate"}
  \/ n \in {"generate", "consistency"} /\ ~data.manifest

\* Nodes whose artifact is stored outside of any try.
Stores(n) ==
  \/ n \in {"deep_analysis", "dispatch_research", "aggregate", "roadmap", "decompose", "assemble"}
  \/ n = "generate" /\ ~data.manifest

\* Mutant: a list of halts from before there were budgets.
ShouldHaltOnFailure(d) == d.status \in {"paused", "rejected", "error"}

ShouldHalt(d) == d.status \in Halts

\* Mutant: the subgraph returned, so the phase is done.
ReturnedIsComplete(p, d) == TRUE

IsComplete(p, d) == p \in d.completed

TasksToRedo(d) == d.flagged # {} /\ d.reOrchestrated < MAX_RE_ORCHESTRATIONS

Successor == [context |-> "research", research |-> "prune_after_research",
              planning |-> "orchestrate", orchestrate |-> "prune_after_orchestrate",
              assembly |-> "finalize"]

\* What the parent does when phase p's subgraph has returned d.
Route(p, d) ==
  IF ShouldHalt(d) THEN "halted"
  ELSE IF ~IsComplete(p, d) THEN "halt_on_incomplete"
  ELSE IF p = "assembly" /\ TasksToRedo(d) THEN "prune_after_orchestrate"
  ELSE Successor[p]

Empty == [status |-> "running", completed |-> {},
          gaps |-> FALSE, iterations |-> 0, structured |-> TRUE, unchanged |-> FALSE,
          results |-> {}, flagged |-> {}, reOrchestrated |-> 0,
          issues |-> FALSE, consistency |-> 0, manifest |-> FALSE, document |-> FALSE,
          furthest |-> 0, approved |-> {}, allComplete |-> FALSE]

Init ==
  /\ phase = "context" /\ step = Entry["context"] /\ prompt = "none"
  /\ data = Empty /\ checkpoint = Empty /\ exhausted = FALSE
  /\ navigations = 0 /\ rounds = 0 /\ recovered = FALSE
  /\ skipped = {} /\ signedOff = {} /\ haltedIn = "none"

-----------------------------------------------------------------------------
(* The nodes of the subgraphs.                                               *)

At(n) == step = n /\ prompt = "none"

\* A halt that is raised in a phase is remembered until the user lifts it.
NoteHalt == haltedIn' = IF data'.status \in Halts THEN phase ELSE haltedIn

\* Node n writes one of the states in D and the graph moves on.
Work(n, D) ==
  /\ At(n) /\ ~(exhausted /\ Checks(n))
  /\ \E d \in D : data' = d /\ step' = After(n, d)
  /\ UNCHANGED <<subgraphVars, prompt, exhausted, userVars, signedOff, haltedIn>>

\* The node writes nothing the properties tell apart.
Passes(n) == Work(n, {data})

\* The node interrupts and waits for an answer.
Ask(n, question) ==
  /\ At(n)
  /\ prompt' = question
  /\ UNCHANGED <<subgraphVars, step, data, exhausted, userVars, signedOff, haltedIn>>

ValidateContext == Passes("validate_context")
CollectContext  == Ask("collect_context", "form")
Review          == Passes("review")
DeepAnalysis    == Passes("deep_analysis")
FeedbackReview  == Ask("feedback_review", "feedback")

FormulateQueries == Passes("formulate_queries")

\* Without subtasks the node returns before it looks at the budget.
DispatchResearch ==
  \/ Work("dispatch_research", {[data EXCEPT !.structured = found] : found \in BOOLEAN})
  \/ /\ At("dispatch_research") /\ exhausted
     /\ step' = "aggregate"
     /\ UNCHANGED <<subgraphVars, prompt, data, exhausted, userVars, signedOff, haltedIn>>

Aggregate == Passes("aggregate")

\* Mutant: only the gate counts.
GapCheckUncounted ==
  Work("gap_check", {[data EXCEPT !.gaps = found] : found \in BOOLEAN})

GapCheck ==
  Work("gap_check", {[data EXCEPT !.gaps = found, !.iterations = @ + 1] : found \in BOOLEAN})

\* The gate counts an iteration too, and blocks nothing.
ConfidenceGate == Work("confidence_gate", {[data EXCEPT !.iterations = @ + 1]})

ResearchApproval == Ask("research_approval", "approval")

Roadmap          == Passes("roadmap")
Feasibility      == Passes("feasibility")
Decompose        == Passes("decompose")
ValidateDag      == Passes("validate_dag")
Assign           == Passes("assign")
Align            == Passes("align")

PlanningApproval == Ask("planning_approval", "approval")

\* The orchestrate subgraph as its parent sees it: results only grow, the phase
\* is complete only when every task has one, documents may have been listed in
\* the manifest, and the budget or the storage may have stopped it.
Orchestrate ==
  \E done \in BOOLEAN, m \in {data.manifest, TRUE}, s \in {data.status, "paused", "budget_exhausted"} :
    \E r \in {q \in SUBSET Tasks : data.results \subseteq q /\ (done => q = Tasks)} :
      Work("orchestrate_loop",
           {[data EXCEPT !.results = r, !.manifest = m, !.status = Reduced(@, s),
                         !.completed = IF done THEN @ \cup {"orchestrate"} ELSE @,
                         !.allComplete = done, !.furthest = IF @ < 4 THEN 4 ELSE @]})

Completeness == Passes("completeness")

\* Only a suite of documents is reviewed; the review replaces the flags.  The
\* LLM is called without asking BudgetGuard.check.
CompositionReview ==
  Work("composition_review",
       IF data.manifest THEN {[data EXCEPT !.flagged = f] : f \in SUBSET Tasks} ELSE {data})

Template == Passes("template")
Generate == Passes("generate")

\* With a manifest the issues and the counter stay what they were.
Consistency ==
  Work("consistency",
       IF data.manifest THEN {data}
       ELSE {[data EXCEPT !.issues = found, !.consistency = @ + 1] : found \in BOOLEAN})

Assemble == Work("assemble", {[data EXCEPT !.document = @ \/ ~data.manifest]})

Validate         == Passes("validate")
AssemblyApproval == Ask("assembly_approval", "approval")

\* ArtifactService.store gave up: a pause replaces the node's output.
StorageError ==
  /\ \E n \in Steps : At(n) /\ Stores(n) /\ ~(exhausted /\ Checks(n))
  /\ data' = WithStatus(data, "paused")
  /\ step' = After(step, data)
  /\ NoteHalt
  /\ UNCHANGED <<subgraphVars, prompt, exhausted, userVars, signedOff>>

BudgetInterrupt ==
  /\ \E n \in Steps : At(n) /\ Checks(n)
  /\ exhausted
  /\ prompt' = "budget"
  /\ UNCHANGED <<subgraphVars, step, data, exhausted, userVars, signedOff, haltedIn>>

-----------------------------------------------------------------------------
(* The nodes of the parent graph.                                            *)

\* A phase is entered again: what the user said of it before is of the past.
Enter(p) ==
  /\ phase' = p /\ step' = Entry[p]
  /\ signedOff' = signedOff \ {p}

GoTo(target) ==
  IF target \in Phases THEN Enter(target)
  ELSE step' = target /\ UNCHANGED <<phase, signedOff>>

\* The parent's reducer merges the status; the rest is the subgraph's.
Merged == [data EXCEPT !.status = Reduced(checkpoint.status, data.status)]

\* Mutant: the parent goes on with its own state.
LeavePhaseUnmerged ==
  /\ At("done")
  /\ GoTo(Route(phase, data))
  /\ UNCHANGED <<prompt, data, checkpoint, exhausted, userVars, haltedIn>>

LeavePhase ==
  /\ At("done")
  /\ data' = Merged /\ checkpoint' = Merged
  /\ GoTo(Route(phase, Merged))
  /\ UNCHANGED <<prompt, exhausted, userVars, haltedIn>>

PruneAfterResearch ==
  /\ At("prune_after_research")
  /\ Enter("planning")
  /\ UNCHANGED <<prompt, data, checkpoint, exhausted, userVars, haltedIn>>

\* Mutant: all results are dropped.
PruneAllResults ==
  /\ At("prune_after_orchestrate")
  /\ data' = IF data.flagged = {} THEN data
             ELSE [data EXCEPT !.results = {}, !.flagged = {}, !.reOrchestrated = @ + 1,
                               !.allComplete = FALSE]
  /\ checkpoint' = data'
  /\ Enter("assembly")
  /\ UNCHANGED <<prompt, exhausted, userVars, haltedIn>>

\* Drops the results of the flagged tasks.  The edge behind it leads to the
\* assembly subgraph, also when the assembly phase asked for tasks to be redone.
PruneAfterOrchestrate ==
  /\ At("prune_after_orchestrate")
  /\ data' = IF data.flagged = {} THEN data
             ELSE [data EXCEPT !.results = @ \ data.flagged, !.flagged = {},
                               !.reOrchestrated = @ + 1, !.allComplete = FALSE]
  /\ checkpoint' = data'
  /\ Enter("assembly")
  /\ UNCHANGED <<prompt, exhausted, userVars, haltedIn>>

Finalize ==
  /\ At("finalize")
  /\ data' = [WithStatus(data, IF data.document \/ data.manifest THEN "completed" ELSE "error")
                EXCEPT !.completed = @ \cup {"assembly"}]
  /\ checkpoint' = data'
  /\ step' = "ended"
  /\ NoteHalt
  /\ UNCHANGED <<phase, prompt, exhausted, userVars, signedOff>>

HaltOnIncomplete ==
  /\ At("halt_on_incomplete")
  /\ data' = WithStatus(data, "error")
  /\ checkpoint' = data'
  /\ step' = "ended"
  /\ NoteHalt
  /\ UNCHANGED <<phase, prompt, exhausted, userVars, signedOff>>

-----------------------------------------------------------------------------
(* The answers of the user.                                                  *)

\* The node that asked returns d and the graph moves to next.
Answer(question, d, next) ==
  /\ prompt = question /\ prompt' = "none"
  /\ data' = d /\ step' = next
  /\ UNCHANGED <<subgraphVars, navigations, recovered, skipped>>

\* The documents of the form are stored, which may fail.
FinishForm ==
  /\ \E d \in {data, WithStatus(data, "paused")} : Answer("form", d, "review")
  /\ NoteHalt
  /\ UNCHANGED <<exhausted, rounds, signedOff>>

\* The decision of an approval node leaves data of the phase behind.
Decided(d, approves) ==
  [d EXCEPT !.approved = IF approves THEN @ \cup {phase} ELSE @ \ {phase},
            !.furthest = IF @ < Position[phase] THEN Position[phase] ELSE @]

Closed(d) == [d EXCEPT !.completed = @ \cup {phase}, !.unchanged = @ \/ phase = "research"]

\* The user closes the phase: the feedback on the context, or an approval.
Approve ==
  /\ \/ Answer("feedback", Closed(data), "done")
     \/ Answer("approval", Closed(Decided(data, TRUE)), "done")
  /\ signedOff' = signedOff \cup {phase}
  /\ UNCHANGED <<exhausted, rounds, haltedIn>>

\* "accept": the halt of the assembly phase is lifted and its document closed.
AcceptResults ==
  /\ Answer("budget",
            IF phase = "assembly"
            THEN Closed(Decided(WithStatus(data, "running"), TRUE))
            ELSE WithStatus(data, "budget_exhausted"),
            After(step, data))
  /\ haltedIn' = IF phase = "assembly" THEN "none" ELSE phase
  /\ UNCHANGED <<exhausted, rounds, signedOff>>

RequestMore ==
  /\ rounds < MaxRounds /\ rounds' = rounds + 1
  /\ Answer("approval", [Decided(data, FALSE) EXCEPT !.unchanged = @ /\ phase # "research"],
            Again[phase])
  /\ UNCHANGED <<exhausted, signedOff, haltedIn>>

Reject ==
  /\ Answer("approval", [Decided(WithStatus(data, "rejected"), FALSE)
                           EXCEPT !.unchanged = @ /\ phase # "research"], "done")
  /\ NoteHalt
  /\ UNCHANGED <<exhausted, rounds, signedOff>>

\* The dispatcher raises the limits in the parent's state and hands them to
\* the node, whose step they replace.
IncreaseBudget ==
  /\ Answer("budget", WithStatus(data, "running"), After(step, data))
  /\ exhausted' = FALSE
  /\ haltedIn' = "none"
  /\ UNCHANGED <<rounds, signedOff>>

\* "cancelled" is a status the reducer does not know.
CancelWorkflow ==
  /\ Answer("budget", data, After(step, data))
  /\ UNCHANGED <<exhausted, rounds, signedOff, haltedIn>>

\* plan.retry sets the status back and lets the graph route again behind its
\* last node: behind the phase that halted, or behind a node with no other way
\* than the end.  A question that waits is only asked again.
Retry ==
  /\ step \in Ends /\ data.status \in {"paused", "error", "running"}
  /\ data' = WithStatus(checkpoint, "running") /\ checkpoint' = data'
  /\ IF step = "halted" THEN GoTo(Route(phase, data')) ELSE UNCHANGED <<phase, step, signedOff>>
  /\ haltedIn' = "none"
  /\ UNCHANGED <<prompt, exhausted, userVars>>

\* plan.resume after accepted results raises the limits and sets the status
\* back, and leaves it to the user to go on.
ResumeExhausted ==
  /\ step = "halted" /\ data.status = "budget_exhausted"
  /\ data' = WithStatus(checkpoint, "running") /\ checkpoint' = data'
  /\ exhausted' \in {exhausted, FALSE}
  /\ haltedIn' = "none"
  /\ UNCHANGED <<phase, step, prompt, userVars, signedOff>>

\* _recover_stale_terminal_completion, which the handlers call when the graph
\* waits or has ended: an approved document in the parent's state is taken for
\* the end of the workflow.
Recoverable ==
  /\ checkpoint.status # "completed"
  /\ "assembly" \in checkpoint.completed /\ "assembly" \in checkpoint.approved
  /\ checkpoint.document \/ checkpoint.manifest

RecoverCompletion ==
  /\ prompt # "none" \/ (step \in Ends /\ data.status # "budget_exhausted")
  /\ Recoverable
  /\ checkpoint' = WithStatus(checkpoint, "completed")
  /\ data' = IF step \in Ends THEN checkpoint' ELSE data
  /\ recovered' = TRUE
  /\ UNCHANGED <<phase, step, prompt, exhausted, navigations, rounds, skipped,
                 signedOff, haltedIn>>

\* PlanEngine.navigate_to_phase: the parent's state is updated and the graph
\* starts at the phase; what the subgraph had not returned is lost.  Clearing a
\* phase's data merges an empty dict into it, which changes nothing.
NavigateToPhase(p) ==
  LET cleared == IF p = "research" /\ checkpoint.unchanged THEN {p} ELSE From(p)
      kept    == [checkpoint EXCEPT !.status = Reduced(@, "running"),
                                    !.completed = @ \ cleared,
                                    !.flagged = IF "assembly" \in cleared THEN {} ELSE @]
  IN /\ navigations < MaxNavigations /\ navigations' = navigations + 1
     /\ data' = kept /\ checkpoint' = kept
     /\ Enter(p) /\ prompt' = "none"
     /\ skipped' = Before(p) \ (kept.completed \cap (signedOff \cup {"orchestrate"}))
     /\ haltedIn' = "none" /\ recovered' = FALSE
     /\ UNCHANGED <<exhausted, rounds>>

Navigate == \E p \in Phases : NavigateToPhase(p)

\* _normalize_completed_phases: the dispatcher takes a phase for complete when a
\* later one has left data, or its own data say that it was approved, whether
\* or not a navigation has opened it again.
Normalized(d) ==
  {p \in Phases : Position[p] < d.furthest} \cup d.completed
    \cup (d.approved \ {"assembly"}) \cup {p \in {"orchestrate"} : d.allComplete}

FirstIncomplete(p, d) == p \notin Normalized(d) /\ Before(p) \subseteq Normalized(d)

\* plan.step.forward: to the first phase that is not complete.
StepForward ==
  \E p \in Phases \ {"context"} : FirstIncomplete(p, checkpoint) /\ NavigateToPhase(p)

\* plan.resume of a workflow that has ended without a final status.
RestartIncomplete ==
  /\ step \in Ends /\ data.status \in {"running", "paused"} /\ ~Recoverable
  /\ \E p \in Phases :
       /\ FirstIncomplete(p, checkpoint) \/ (p = "assembly" /\ Phases = Normalized(checkpoint))
       /\ NavigateToPhase(p)

\* The calls, the tokens or the time run out.
Exhaust ==
  /\ ~exhausted /\ exhausted' = TRUE
  /\ UNCHANGED <<subgraphVars, step, prompt, data, userVars, signedOff, haltedIn>>

ContextNode  == ValidateContext \/ CollectContext \/ Review \/ DeepAnalysis \/ FeedbackReview
ResearchNode == \/ FormulateQueries \/ DispatchResearch \/ Aggregate \/ GapCheck
                \/ ConfidenceGate \/ ResearchApproval
PlanningNode == \/ Roadmap \/ Feasibility \/ Decompose \/ ValidateDag \/ Assign \/ Align
                \/ PlanningApproval
AssemblyNode == \/ Completeness \/ CompositionReview \/ Template \/ Generate \/ Consistency
                \/ Assemble \/ Validate \/ AssemblyApproval
ParentNode   == \/ LeavePhase \/ PruneAfterResearch \/ PruneAfterOrchestrate \/ Finalize
                \/ HaltOnIncomplete

NodeStep == \/ ContextNode \/ ResearchNode \/ PlanningNode \/ Orchestrate \/ AssemblyNode
            \/ ParentNode \/ StorageError \/ BudgetInterrupt

UserStep == \/ Approve \/ FinishForm \/ AcceptResults \/ RequestMore \/ Reject
            \/ IncreaseBudget \/ CancelWorkflow \/ Retry \/ ResumeExhausted \/ RecoverCompletion
            \/ Navigate \/ StepForward \/ RestartIncomplete

\* The workflow has ended and waits for nobody.
Ended == step \in Ends /\ UNCHANGED vars

Next == NodeStep \/ UserStep \/ Exhaust \/ Ended

Spec == Init /\ [][Next]_vars

\* LangGraph runs the next node as soon as one returns; nothing obliges the user.
FairSpec == Spec /\ WF_vars(NodeStep)

-----------------------------------------------------------------------------
(* Properties that hold.                                                     *)

\* A phase runs only when every phase before it is complete, except for those
\* the user jumped over: neither a subgraph that ends early, nor a halt, nor
\* the completions a navigation keeps let a phase start too soon (the routers
\* of PlanEngine).
PhaseOrder == Before(phase) \subseteq data.completed \cup skipped

\* Nothing gets past the user: behind each phase that asks for approval there
\* is an answer that closed it since it was last entered, whatever completion
\* an earlier pass left behind.  Accepting what there is when the budget ran
\* out closes the assembly phase too, and its approval still follows.  Only a
\* plan that was declared complete while it was redone goes on regardless.
ApprovedInOrder ==
  LET behind == IF data.status = "completed" THEN Phases ELSE Before(phase)
  IN ~recovered => behind \ {"orchestrate"} \subseteq signedOff \cup skipped

\* A halt raised in a phase (a rejection, a pause, accepted results, a failure)
\* keeps every other phase from starting until the user lifts it, although the
\* subgraph itself runs on to its end (_should_halt, _workflow_status_reducer);
\* only a plan that was declared complete goes on.
HaltEndsPhase == haltedIn # "none" => phase = haltedIn \/ recovered

\* The composition review sends tasks back at most three times
\* (re_orchestration_count).  A navigation that keeps the flags of an earlier
\* pass, because the research data have not changed, adds at most one.
ReOrchestrationBounded == data.reOrchestrated <= MAX_RE_ORCHESTRATIONS + navigations

\* A step of the workflow never changes results or completions of the parent
\* behind the user's back: only the tasks the review flagged lose a result.
ResultsKept ==
  [][checkpoint.results \ checkpoint'.results \subseteq checkpoint.flagged]_vars

Lifecycle ==
  INSTANCE PlanLifecycle WITH
    at <- phase, completed <- checkpoint.completed, moves <- navigations,
    outcome <- IF step \notin Ends THEN "running"
               ELSE IF data.status = "completed" THEN "finished" ELSE "halted"

\* The parent graph with its subgraphs implements the life cycle of the phases.
ImplementsLifecycle == Lifecycle!Lifecycle

\* The workflow always comes to its end or to a question: the loops of the
\* research and the assembly phases, and the cycle of re-orchestration, end.
Terminates == []<>(step \in Ends \/ prompt # "none")

\* When the budget lasts, nothing fails, every task gets its result, and the
\* user approves sooner or later, the plan finishes with a document.
HealthyPlanFinishes ==
  /\ WF_vars(Approve \/ FinishForm)
  /\ [](~exhausted /\ navigations = 0 /\ data.status \in {"running", "completed", "error"})
  /\ [](phase = "orchestrate" /\ step = "done" => "orchestrate" \in data.completed)
  => <>(data.status = "completed")

\* What holds of the plan wherever it stands: typed variables, approvals in the order of the
\* phases, halts that end their phase, and a bounded number of re-orchestrations.
PlanInv == TypeOK /\ ApprovedInOrder /\ HaltEndsPhase /\ ReOrchestrationBounded

\* Both promises about the end of a plan: no run goes on for ever without a question, and
\* a healthy one that is approved finishes.
PlanEnds == Terminates /\ HealthyPlanFinishes

=============================================================================
