--------------------------- MODULE OrchestrateLoop ---------------------------
(***************************************************************************)
(* The orchestrate phase of the plan workflow: the LangGraph subgraph that  *)
(* executes the task DAG one task at a time                                 *)
(* (flows/v3/graphs/plan_subgraphs/orchestrate_subgraph.py and              *)
(* flows/v3/nodes/plan/orchestrate_nodes.py).                               *)
(*                                                                          *)
(*   budget_check -> task_selector -> fetch_context -> task_context_input   *)
(*     -> gap -> task_research -> tool_plan -> dispatch -> worker           *)
(*     -> critique -> (worker | progress) ; progress -> (budget_check | end)*)
(*                                                                          *)
(* One action is one execution of one node, which is also the unit that     *)
(* LangGraph checkpoints: a node that raises leaves the state of the last   *)
(* checkpoint, so a crash or a failed node is a stuttering step here and a  *)
(* retry is the node's action again.                                        *)
(*                                                                          *)
(* What an LLM agent writes is abstracted to the task it was written for.   *)
(* Task ids are numbers in the order of the plan's task list.               *)
(***************************************************************************)
EXTENDS Integers, FiniteSets

CONSTANTS
  Ids,           \* every task id a plan of this session may use
  Plans,         \* the task DAGs the planning phase may approve
  Priority,      \* Priority[t]: 0 high, 1 medium, 2 low, 3 anything else
  MaxCalls,      \* max_llm_calls at the start of the session
  Grants,        \* what one "increase budget" answer may add to max_llm_calls
  MaxLoop,       \* MAX_TASK_LOOP_ITERATIONS (500 in the code)
  MaxGrants,     \* bound of the model on the "increase budget" answers
  MaxReentries,  \* bound of the model on navigations back to this phase
  Faults         \* the failures the environment may inject, see FaultKinds

NoTask == 0
MAX_CRITIQUE_ITERATIONS == 3

\* limit: the token or wall-clock limit is hit.  agent: a worker agent raises.
\* reject: a critique does not approve.  storage: ArtifactService.store fails.
\* replan: the user navigates back to planning and approves another plan.
FaultKinds == {"limit", "agent", "reject", "storage", "replan"}

ASSUME ConstantsAssumption ==
  /\ Ids \subseteq Nat \ {NoTask}
  /\ IsFiniteSet(Ids)
  /\ Plans \subseteq [tasks : SUBSET Ids, edges : SUBSET (Ids \X Ids)]
  /\ Priority \in [Ids -> 0..3]
  /\ MaxCalls \in Nat
  /\ Grants \subseteq Int
  /\ MaxLoop \in Nat \ {0}
  /\ MaxGrants \in Nat
  /\ MaxReentries \in Nat
  /\ Faults \subseteq FaultKinds

VARIABLES
  plan,             \* state["plan"]["task_dag"]: its task ids and its edges
  node,             \* the node the subgraph executes next, or "end"
  prompt,           \* the interrupt that waits for the user: none, budget, task_context
  results,          \* orchestrate.task_results, by task id
  current,          \* orchestrate.current_task
  draft,            \* orchestrate.current_draft: the task it was written for
  gapTask,          \* orchestrate.context_gaps: the task whose severe gaps they are
  iteration,        \* orchestrate.iteration_count
  verdict,          \* the last entry of orchestrate.critique_history
  critiquePassed,   \* orchestrate.critique_passed
  rejections,       \* orchestrate.consecutive_rejections
  ready,            \* orchestrate.ready_tasks
  blocked,          \* orchestrate.blocked
  allComplete,      \* orchestrate.all_complete
  breaker,          \* orchestrate.circuit_breaker_triggered
  index,            \* orchestrate.current_task_index
  finals,           \* tasks/<id>/final.md: the task its content was written for
  remaining,        \* budget.remaining_llm_calls of the subgraph's state
  parentRemaining,  \* the same counter in the parent graph's checkpoint
  maxCalls,         \* budget.max_llm_calls
  overLimit,        \* BudgetGuard.check fails on tokens or on wall-clock time
  status,           \* workflow_status
  completed,        \* completed_phases["orchestrate"]
  \* What follows records the past for the properties; no guard reads it but
  \* the two bounds of the model.
  grants,           \* "increase budget" answers so far
  reentries,        \* navigations back to this phase so far
  spent,            \* LLM calls made so far
  skipped           \* a worker step of this session ended without its output

planVars     == <<plan>>
taskVars     == <<results, draft, finals>>
selectVars   == <<current, ready, blocked, gapTask>>
critiqueVars == <<iteration, verdict, critiquePassed, rejections>>
loopVars     == <<allComplete, breaker, index, completed>>
budgetVars   == <<remaining, parentRemaining, maxCalls, overLimit, spent>>
userVars     == <<grants, reentries>>

vars == <<plan, node, prompt, results, current, draft, gapTask, iteration, verdict,
          critiquePassed, rejections, ready, blocked, allComplete, breaker, index,
          finals, remaining, parentRemaining, maxCalls, overLimit, status, completed,
          grants, reentries, spent, skipped>>

Nodes == {"budget_check", "task_selector", "fetch_context", "task_context_input", "gap",
          "task_research", "tool_plan", "dispatch", "worker", "critique", "progress", "end"}

TypeOK ==
  /\ plan \in Plans
  /\ node \in Nodes
  /\ prompt \in {"none", "budget", "task_context"}
  /\ results \in [Ids -> {"none", "done", "failed"}]
  /\ finals \in [Ids -> Ids \cup {NoTask}]
  /\ current \in Ids \cup {NoTask}
  /\ draft \in Ids \cup {NoTask}
  /\ gapTask \in Ids \cup {NoTask}
  /\ ready \subseteq Ids
  /\ verdict \in {"none", "approve", "revise"}
  /\ status \in {"running", "paused", "budget_exhausted"}
  /\ critiquePassed \in BOOLEAN /\ blocked \in BOOLEAN /\ allComplete \in BOOLEAN
  /\ breaker \in BOOLEAN /\ overLimit \in BOOLEAN /\ completed \in BOOLEAN
  /\ skipped \in BOOLEAN
  /\ iteration \in Nat /\ rejections \in Nat /\ index \in Nat
  /\ grants \in Nat /\ reentries \in Nat /\ spent \in Nat
  /\ remaining \in Int /\ parentRemaining \in Int /\ maxCalls \in Int

-----------------------------------------------------------------------------
(* Derived from the state, as the nodes compute it.                          *)

Deps(t)  == {s \in Ids : <<s, t>> \in plan.edges}
Done     == {t \in Ids : results[t] = "done"}
Finished == {t \in Ids : results[t] \in {"done", "failed"}}

\* Mutant: a selector that forgets the edges, and one that waits for success.
ReadyAnyOrder    == plan.tasks \ Finished
ReadyAfterDone   == {t \in plan.tasks \ Finished : Deps(t) \subseteq Done}

Ready == {t \in plan.tasks \ Finished : Deps(t) \subseteq Finished}

\* The first ready task of the best priority, in the order of the task list.
Preferred(t) ==
  \A u \in Ready : \/ Priority[t] < Priority[u]
                   \/ Priority[t] = Priority[u] /\ t <= u

\* BudgetGuard.check raises BudgetExhaustedError.
Exhausted == remaining <= 0 \/ overLimit

\* workflow_status accepts a halt only when it is at least as severe.
Raised(halt) == IF status = "budget_exhausted" THEN status ELSE halt

-----------------------------------------------------------------------------
(* Routing.                                                                  *)

RouteAfterBudget(st, rem) ==
  IF st = "budget_exhausted" \/ rem <= 0 THEN "end" ELSE "task_selector"

RouteAfterCritique(passed, count) ==
  IF \/ current \in Ids /\ results[current] = "failed"
     \/ passed
     \/ count >= MAX_CRITIQUE_ITERATIONS
  THEN "progress" ELSE "worker"

\* Mutant: ends when the selected task was the last one of the ready queue.
RouteEndsWithQueue(complete, tripped, idx) ==
  IF complete \/ status = "budget_exhausted" \/ tripped \/ ready \subseteq {current}
  THEN "end" ELSE "budget_check"

RouteAfterProgress(complete, tripped, idx) ==
  IF \/ complete
     \/ status = "budget_exhausted"
     \/ tripped
     \/ blocked
     \/ idx >= MaxLoop
  THEN "end" ELSE "budget_check"

Init ==
  /\ plan \in Plans
  /\ node = "budget_check" /\ prompt = "none"
  /\ results = [t \in Ids |-> "none"]
  /\ finals = [t \in Ids |-> NoTask]
  /\ current = NoTask /\ draft = NoTask /\ gapTask = NoTask
  /\ iteration = 0 /\ verdict = "none" /\ critiquePassed = TRUE
  /\ rejections = 0
  /\ ready = {} /\ blocked = FALSE
  /\ allComplete = FALSE /\ breaker = FALSE /\ index = 0 /\ completed = FALSE
  /\ remaining = MaxCalls /\ parentRemaining = MaxCalls /\ maxCalls = MaxCalls
  /\ overLimit = FALSE /\ spent = 0
  /\ status = "running"
  /\ grants = 0 /\ reentries = 0 /\ skipped = FALSE

-----------------------------------------------------------------------------
(* The nodes.  At(n): the subgraph is about to execute node n.               *)

At(n) == node = n /\ prompt = "none"

\* Mutant: decrements a counter read before the step of the subgraph.
SpendStale(n) ==
  /\ remaining' = parentRemaining - n
  /\ spent' = spent + n
  /\ UNCHANGED <<parentRemaining, maxCalls, overLimit>>

Spend(n) ==
  /\ remaining' = remaining - n
  /\ spent' = spent + n
  /\ UNCHANGED <<parentRemaining, maxCalls, overLimit>>

BudgetCheck ==
  /\ At("budget_check") /\ ~Exhausted
  /\ node' = RouteAfterBudget(status, remaining)
  /\ UNCHANGED <<planVars, prompt, taskVars, selectVars, critiqueVars, loopVars,
                 budgetVars, status, userVars, skipped>>

\* A selection starts a new series of reviews.
NewTask == iteration' = 0 /\ verdict' = "none"

TaskSelector ==
  /\ At("task_selector")
  /\ node' = "fetch_context"
  /\ IF Ready = {} THEN current' = NoTask
                   ELSE \E t \in Ready : Preferred(t) /\ current' = t
  /\ ready' = Ready
  /\ NewTask
  /\ IF Ready = {} /\ Cardinality(Finished) < Cardinality(plan.tasks)
     THEN blocked' = TRUE /\ allComplete' = FALSE
     ELSE /\ allComplete' = (allComplete \/ Cardinality(Finished) = Cardinality(plan.tasks))
          /\ UNCHANGED blocked
  /\ UNCHANGED <<planVars, prompt, taskVars, gapTask, critiquePassed, rejections,
                 breaker, index, completed, budgetVars, status,
                 userVars, skipped>>

\* fetch_context, tool_plan and dispatch only assemble data for the current
\* task (current_task_context, tool_assignments, agent_context).
PassThrough(from, to) ==
  /\ At(from)
  /\ node' = to
  /\ UNCHANGED <<planVars, prompt, taskVars, selectVars, critiqueVars, loopVars,
                 budgetVars, status, userVars, skipped>>

FetchContext == PassThrough("fetch_context", "task_context_input")
ToolPlan     == PassThrough("tool_plan", "dispatch")
Dispatch     == PassThrough("dispatch", "worker")

\* Asks the user for context when the task has none of its own (sparse) and
\* context_gaps holds severe gaps; passes through otherwise.
TaskContextInput ==
  /\ At("task_context_input")
  /\ \E sparse \in BOOLEAN :
       IF current # NoTask /\ sparse /\ gapTask # NoTask
       THEN prompt' = "task_context" /\ UNCHANGED node
       ELSE node' = "gap" /\ UNCHANGED prompt
  /\ UNCHANGED <<planVars, taskVars, selectVars, critiqueVars, loopVars,
                 budgetVars, status, userVars, skipped>>

Gap ==
  /\ At("gap")
  /\ node' = "task_research"
  /\ \/ /\ current = NoTask
        /\ gapTask' = NoTask
        /\ UNCHANGED budgetVars
     \/ /\ current # NoTask /\ ~Exhausted
        /\ gapTask' \in {NoTask, current}
        /\ Spend(1)
  /\ UNCHANGED <<planVars, prompt, taskVars, current, ready, blocked, critiqueVars,
                 loopVars, status, userVars, skipped>>

\* Research runs when there are gaps or the task asks for it; when the agent
\* fails the node goes on without having counted a call.
TaskResearch ==
  /\ At("task_research")
  /\ node' = "tool_plan"
  /\ \/ /\ current = NoTask \/ gapTask = NoTask
        /\ UNCHANGED budgetVars
     \/ /\ current # NoTask /\ ~Exhausted
        /\ \E calls \in {0, 1} : Spend(calls)
  /\ UNCHANGED <<planVars, prompt, taskVars, selectVars, critiqueVars, loopVars,
                 status, userVars, skipped>>

\* The agent writes a draft, or raises and the error text becomes the draft of
\* a failed task.
Outcomes == {"done"} \cup (IF "agent" \in Faults THEN {"failed"} ELSE {})

\* Mutants: a failed agent leaves the old draft; the result replaces the list.
WorkerRunsKeepsDraft ==
  /\ current # NoTask /\ ~Exhausted
  /\ \E outcome \in Outcomes :
       /\ results' = [results EXCEPT ![current] = outcome]
       /\ draft' = IF outcome = "done" THEN current ELSE draft
  /\ Spend(1)
  /\ UNCHANGED <<status, skipped>>

WorkerRunsReplaces ==
  /\ current # NoTask /\ ~Exhausted
  /\ \E outcome \in Outcomes :
       results' = [t \in Ids |-> IF t = current THEN outcome ELSE "none"]
  /\ draft' = current
  /\ Spend(1)
  /\ UNCHANGED <<status, skipped>>

WorkerRuns ==
  /\ current # NoTask /\ ~Exhausted
  /\ \E outcome \in Outcomes : results' = [results EXCEPT ![current] = outcome]
  /\ draft' = current
  /\ Spend(1)
  /\ UNCHANGED <<status, skipped>>

\* ArtifactService.store gave up: the node's output is replaced by a pause, and
\* the call it made is not counted.
WorkerStorageError ==
  /\ current # NoTask /\ ~Exhausted /\ "storage" \in Faults
  /\ status' = Raised("paused")
  /\ skipped' = TRUE
  /\ spent' = spent + 1
  /\ UNCHANGED <<results, draft, remaining, parentRemaining, maxCalls, overLimit>>

WorkerIdle ==
  /\ current = NoTask
  /\ draft' = NoTask
  /\ UNCHANGED <<results, budgetVars, status, skipped>>

Worker ==
  /\ At("worker")
  /\ node' = "critique"
  /\ WorkerRuns \/ WorkerStorageError \/ WorkerIdle
  /\ UNCHANGED <<planVars, prompt, finals, selectVars, critiqueVars, loopVars, userVars>>

\* One review of the current draft.  A review that raises is a rejection that
\* counts no call.
Review(approved, calls) ==
  /\ current # NoTask /\ ~Exhausted
  /\ iteration' = iteration + 1
  /\ verdict' = IF approved THEN "approve" ELSE "revise"
  /\ critiquePassed' = (approved \/ iteration + 1 >= MAX_CRITIQUE_ITERATIONS)
  /\ rejections' = IF approved THEN 0 ELSE rejections + 1
  /\ Spend(calls)

Critique ==
  /\ At("critique")
  /\ \/ Review(TRUE, 1)
     \/ "reject" \in Faults /\ \E calls \in {0, 1} : Review(FALSE, calls)
     \/ /\ current = NoTask
        /\ critiquePassed' = TRUE
        /\ UNCHANGED <<iteration, verdict, rejections, budgetVars>>
  /\ node' = RouteAfterCritique(critiquePassed', iteration')
  /\ UNCHANGED <<planVars, prompt, taskVars, selectVars, loopVars, status, userVars, skipped>>

\* The circuit breaker compares the rejections in a row with the size of a cycle.
CycleSize == LET n == IF Cardinality(ready) > Cardinality(plan.tasks)
                      THEN Cardinality(ready) ELSE Cardinality(plan.tasks)
             IN  IF n = 0 THEN 1 ELSE n

\* Mutant: failed tasks count as done.
PhaseCompleteOrFailed ==
  plan.tasks # {} /\ Cardinality(Finished) = Cardinality(plan.tasks)

PhaseComplete == plan.tasks # {} /\ Cardinality(Done) = Cardinality(plan.tasks)

\* Mutant: idle cycles are not counted.
IndexOfWork == IF current = NoTask THEN index ELSE index + 1

NextIndex == index + 1

Progress ==
  /\ At("progress")
  /\ allComplete' = PhaseComplete
  /\ completed' = (completed \/ allComplete')
  /\ breaker' = (plan.tasks # {} /\ rejections >= CycleSize)
  /\ index' = NextIndex
  /\ finals' = IF current # NoTask /\ draft # NoTask
               THEN [finals EXCEPT ![current] = draft] ELSE finals
  /\ node' = RouteAfterProgress(allComplete', breaker', index')
  /\ UNCHANGED <<planVars, prompt, results, draft, selectVars, critiqueVars,
                 budgetVars, status, userVars, skipped>>

-----------------------------------------------------------------------------
(* Interrupts and the user.                                                  *)

\* A node that calls an LLM checks the budget first; the error becomes an
\* interrupt.  task_research checks only when it is going to research.
BudgetInterrupt ==
  /\ prompt = "none" /\ Exhausted
  /\ \/ node = "budget_check"
     \/ node \in {"gap", "task_research", "worker", "critique"} /\ current # NoTask
  /\ prompt' = "budget"
  /\ UNCHANGED <<planVars, node, taskVars, selectVars, critiqueVars, loopVars,
                 budgetVars, status, userVars, skipped>>

\* On resume the node re-executes, raises again, and the answer replaces its
\* output: the step itself is not executed.
AfterAnswer ==
  CASE node = "budget_check"  -> RouteAfterBudget(status', remaining')
    [] node = "gap"           -> "task_research"
    [] node = "task_research" -> "tool_plan"
    [] node = "worker"        -> "critique"
    [] OTHER                  -> RouteAfterCritique(critiquePassed, iteration)

Resume ==
  /\ prompt' = "none"
  /\ node' = AfterAnswer
  /\ skipped' = (skipped \/ node = "worker")
  /\ UNCHANGED <<planVars, taskVars, selectVars, critiqueVars, loopVars, spent, reentries>>

\* The dispatcher computes the new counters from the parent graph's state and
\* the node copies them into the subgraph's.  Wall-clock time starts again;
\* tokens stay exhausted unless their limit was raised too.
IncreaseBudget ==
  /\ prompt = "budget"
  /\ grants < MaxGrants
  /\ \E add \in Grants :
       /\ maxCalls' = maxCalls + add
       /\ parentRemaining' = IF parentRemaining + add > 0 THEN parentRemaining + add ELSE 0
       /\ remaining' = parentRemaining'
  /\ overLimit' \in {FALSE, overLimit}
  /\ status' = "running"
  /\ grants' = grants + 1
  /\ Resume

AcceptResults ==
  /\ prompt = "budget"
  /\ status' = "budget_exhausted"
  /\ UNCHANGED <<remaining, parentRemaining, maxCalls, overLimit, grants>>
  /\ Resume

\* The node returns workflow_status "cancelled", a value the status reducer
\* does not rank, so the status stays as it was.
CancelWorkflow ==
  /\ prompt = "budget"
  /\ UNCHANGED <<status, remaining, parentRemaining, maxCalls, overLimit, grants>>
  /\ Resume

AnswerTaskContext ==
  /\ prompt = "task_context"
  /\ prompt' = "none"
  /\ node' = "gap"
  /\ UNCHANGED <<planVars, taskVars, selectVars, critiqueVars, loopVars,
                 budgetVars, status, userVars, skipped>>

\* Tokens or wall-clock time run out while the subgraph works.
LimitReached ==
  /\ "limit" \in Faults
  /\ node # "end" /\ prompt = "none" /\ ~overLimit
  /\ overLimit' = TRUE
  /\ UNCHANGED <<planVars, node, prompt, taskVars, selectVars, critiqueVars, loopVars,
                 remaining, parentRemaining, maxCalls, spent, status, userVars, skipped>>

\* navigate_to_phase after the phase has ended: the phase flag is cleared and
\* the status reset.  The orchestrate data is written as {} , which operator.or_
\* merges into the old data, so all of it is still there.
Reenter ==
  /\ node = "end" /\ reentries < MaxReentries
  /\ plan' \in IF "replan" \in Faults THEN Plans ELSE {plan}
  /\ node' = "budget_check"
  /\ completed' = FALSE
  /\ status' = "running"
  /\ parentRemaining' = remaining
  /\ reentries' = reentries + 1
  /\ UNCHANGED <<prompt, taskVars, selectVars, critiqueVars, allComplete, breaker, index,
                 remaining, maxCalls, overLimit, spent, grants, skipped>>

NodeStep ==
  \/ BudgetCheck \/ TaskSelector \/ FetchContext \/ TaskContextInput \/ Gap
  \/ TaskResearch \/ ToolPlan \/ Dispatch \/ Worker \/ Critique \/ Progress
  \/ BudgetInterrupt

UserStep == IncreaseBudget \/ AcceptResults \/ CancelWorkflow \/ AnswerTaskContext \/ Reenter

\* The phase has ended and nobody navigates back: the thread stays checkpointed.
Ended == node = "end" /\ UNCHANGED vars

Next == NodeStep \/ UserStep \/ LimitReached \/ Ended

Spec == Init /\ [][Next]_vars

\* LangGraph runs the next node as soon as one returns; nothing obliges the user.
FairSpec == Spec /\ WF_vars(NodeStep)

-----------------------------------------------------------------------------
(* Properties that hold.                                                     *)

\* Steps of the loop that work on the selected task.
InTask == Nodes \ {"budget_check", "task_selector", "end"}

\* The selected task is a task of the approved plan and everything it depends
\* on has finished: no worker ever runs ahead of the DAG, whatever was skipped,
\* rejected, failed or replanned before (TaskSelectorNode).
DependenciesFirst ==
  node \in InTask /\ current # NoTask
    => current \in plan.tasks /\ Deps(current) \subseteq Finished

\* A selection of a task reviews its drafts at most MAX_CRITIQUE_ITERATIONS
\* times, also when interrupts skip workers or critiques in between
\* (CritiqueNode and _route_after_critique).
CritiqueBounded ==
  /\ iteration <= MAX_CRITIQUE_ITERATIONS
  /\ node = "worker" => iteration < MAX_CRITIQUE_ITERATIONS

\* The call counter is checked before every call it is decremented for, so no
\* sequence of nodes, answers and increases drives it below zero (BudgetGuard).
NeverOverdrawn == remaining >= 0

\* Until the budget is increased every call that was made has been deducted
\* once: the read-modify-write of the budget by the nodes loses none, whatever
\* is answered and however often the phase is entered.  An artifact that could
\* not be stored is the exception (WorkerStorageError).
CallsAccounted == grants = 0 /\ ~skipped => spent + remaining = MaxCalls

\* The phase is marked complete only when every task of its plan has a result
\* "done", although ProgressNode only compares two counts.  Replanning is the
\* exception: results of the old plan are still counted.
CompletedMeansDone ==
  "replan" \notin Faults /\ completed => plan.tasks \subseteq Done

\* A plan without cycles whose edges stay inside it: what ValidateDagNode
\* reports on but does not enforce.
WellFounded(p) ==
  /\ p.edges \subseteq p.tasks \X p.tasks
  /\ \A S \in SUBSET p.tasks :
       S # {} => \E t \in S : \A s \in S : <<s, t>> \notin p.edges

\* A well-founded plan is never reported as blocked: failed tasks do not hold
\* their dependents back (finished_ids of TaskSelectorNode).
WellFoundedNeverBlocked ==
  "replan" \notin Faults /\ WellFounded(plan) => ~blocked

\* Unless a worker step was skipped, the file stored as the final output of a
\* task was written for that task (current_draft, WorkerNode, ProgressNode).
FinalIsOwnUnlessSkipped ==
  ~skipped => \A t \in Ids : finals[t] \in {NoTask, t}

\* An execution of the phase that ends without completing it has a reason the
\* user can be told: the budget, the circuit breaker, a stalled DAG, a task
\* that failed, a worker step that was skipped, or a plan without tasks.
EndHasReason ==
  node = "end" /\ ~completed
    => \/ status = "budget_exhausted" \/ remaining <= 0
       \/ breaker
       \/ blocked
       \/ skipped
       \/ \E t \in plan.tasks : results[t] = "failed"
       \/ plan.tasks = {}

\* While the phase runs, a finished task never becomes unfinished, and only the
\* task that was selected changes its result: a later cycle cannot undo the
\* work of an earlier one (the upsert of WorkerNode).
ResultsStable ==
  [][\A t \in Ids :
       /\ results[t] # "none" => results'[t] # "none"
       /\ results'[t] # results[t] => t = current /\ t \in plan.tasks]_vars

\* The loop always reaches its end or a question to the user, even when a
\* failed task keeps it cycling without work (MAX_TASK_LOOP_ITERATIONS).
Terminates == []<>(node = "end" \/ prompt # "none")

\* A well-founded plan completes when nothing goes wrong on the way: no agent
\* fails, no review rejects, no artifact is lost, and no question is left open.
HealthyPlanCompletes ==
  /\ WellFounded(plan)
  /\ [](prompt = "none" /\ ~skipped /\ verdict # "revise" /\ \A t \in Ids : results[t] # "failed")
  => <>completed

\* What the phase never does to its counters, whatever the user answers and however often it is
\* entered: typed variables, at most three reviews, a budget that is not overdrawn and loses
\* no call.
LoopInv == TypeOK /\ CritiqueBounded /\ NeverOverdrawn /\ CallsAccounted

\* Both promises about the end of the phase: it comes, or a question, and a healthy plan completes.
LoopEnds == Terminates /\ HealthyPlanCompletes

=============================================================================
