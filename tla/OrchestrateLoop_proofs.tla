------------------------ MODULE OrchestrateLoop_proofs ------------------------
(***************************************************************************)
(* Proofs that the orchestrate loop keeps its safety invariants, for every   *)
(* set of tasks, every plan and every bound.                                 *)
(***************************************************************************)
EXTENDS OrchestrateLoop, TLAPS, FiniteSetTheorems

-----------------------------------------------------------------------------
(* Type correctness.                                                         *)

LEMMA ConstantTypes ==
  /\ Ids \subseteq Nat \ {NoTask}
  /\ \A p \in Plans : p.tasks \subseteq Ids
  /\ MaxCalls \in Nat
  /\ Grants \subseteq Int
  BY ConstantsAssumption DEF ConstantsAssumption

LEMMA InitTypeOK == Init => TypeOK
  <1> SUFFICES ASSUME Init PROVE TypeOK
    OBVIOUS
  <1>1. /\ critiquePassed \in BOOLEAN /\ blocked \in BOOLEAN /\ allComplete \in BOOLEAN
        /\ breaker \in BOOLEAN /\ overLimit \in BOOLEAN /\ completed \in BOOLEAN
        /\ skipped \in BOOLEAN
    BY Zenon DEF Init
  <1>2. MaxCalls \in Nat
    BY ConstantTypes
  <1> QED
    BY <1>1, <1>2 DEF Init, TypeOK, Nodes

LEMMA RoutesInNodes ==
  /\ \A st, rem : RouteAfterBudget(st, rem) \in {"end", "task_selector"}
  /\ \A p, c : RouteAfterCritique(p, c) \in {"progress", "worker"}
  /\ \A c, b, i : RouteAfterProgress(c, b, i) \in {"end", "budget_check"}
  BY DEF RouteAfterBudget, RouteAfterCritique, RouteAfterProgress

LEMMA StepTypeOK == TypeOK /\ [Next]_vars => TypeOK'
  <1> SUFFICES ASSUME TypeOK, [Next]_vars PROVE TypeOK'
    OBVIOUS
  <1> USE DEF TypeOK, Nodes,
        planVars, taskVars, selectVars, critiqueVars, loopVars, budgetVars, userVars
  <1>1. CASE BudgetCheck
    BY <1>1, RoutesInNodes DEF BudgetCheck, At
  <1>2. CASE TaskSelector
    <2>1. plan.tasks \subseteq Ids
      BY ConstantTypes
    <2>2. Ready \subseteq Ids
      BY <2>1 DEF Ready
    <2>3. current' \in Ids \cup {NoTask}
      BY <1>2, <2>2 DEF TaskSelector
    <2>4. blocked' \in BOOLEAN /\ allComplete' \in BOOLEAN
      BY <1>2 DEF TaskSelector
    <2> QED
      BY <1>2, <2>2, <2>3, <2>4 DEF TaskSelector, NewTask, At
  <1>3. CASE FetchContext \/ ToolPlan \/ Dispatch
    BY <1>3 DEF FetchContext, ToolPlan, Dispatch, PassThrough, At
  <1>4. CASE TaskContextInput
    BY <1>4 DEF TaskContextInput, At
  <1>5. CASE Gap
    BY <1>5 DEF Gap, Spend, At
  <1>6. CASE TaskResearch
    BY <1>6 DEF TaskResearch, Spend, At
  <1>7. CASE Worker
    <2>1. CASE WorkerRuns
      BY <1>7, <2>1 DEF Worker, WorkerRuns, Outcomes, Spend, At
    <2>2. CASE WorkerStorageError
      BY <1>7, <2>2 DEF Worker, WorkerStorageError, Raised, At
    <2>3. CASE WorkerIdle
      BY <1>7, <2>3 DEF Worker, WorkerIdle, At
    <2> QED
      BY <1>7, <2>1, <2>2, <2>3 DEF Worker
  <1>8. CASE Critique
    <2>1. node' \in Nodes
      BY <1>8, RoutesInNodes DEF Critique
    <2>2. CASE \E approved \in BOOLEAN, calls \in {0, 1} : Review(approved, calls)
      BY <1>8, <2>1, <2>2 DEF Critique, Review, Spend, At
    <2>3. CASE current = NoTask /\ critiquePassed' = TRUE
                 /\ UNCHANGED <<iteration, verdict, rejections, budgetVars>>
      <3>1. critiquePassed' \in BOOLEAN
        BY <2>3, Zenon
      <3>2. UNCHANGED <<planVars, prompt, taskVars, selectVars, loopVars, status, userVars, skipped>>
        BY <1>8 DEF Critique
      <3> QED
        BY <2>1, <2>3, <3>1, <3>2
    <2> QED
      BY <1>8, <2>2, <2>3 DEF Critique
  <1>9. CASE Progress
    <2>1. node' \in Nodes
      BY <1>9, RoutesInNodes DEF Progress
    <2>2. finals' \in [Ids -> Ids \cup {NoTask}]
      BY <1>9 DEF Progress
    <2> QED
      BY <1>9, <2>1, <2>2 DEF Progress, NextIndex, PhaseComplete, At
  <1>10. CASE BudgetInterrupt
    BY <1>10 DEF BudgetInterrupt
  <1>11. AfterAnswer \in Nodes
    BY RoutesInNodes DEF AfterAnswer
  <1>12. CASE IncreaseBudget
    <2>1. overLimit' \in BOOLEAN /\ skipped' \in BOOLEAN
      BY <1>12 DEF IncreaseBudget, Resume
    <2> QED
      BY <1>11, <1>12, <2>1, ConstantTypes DEF IncreaseBudget, Resume
  <1>13. CASE AcceptResults
    BY <1>11, <1>13 DEF AcceptResults, Resume
  <1>14. CASE CancelWorkflow
    BY <1>11, <1>14 DEF CancelWorkflow, Resume
  <1>15. CASE AnswerTaskContext
    BY <1>15 DEF AnswerTaskContext
  <1>16. CASE Reenter
    <2>1. completed' \in BOOLEAN
      BY <1>16, Zenon DEF Reenter
    <2>2. plan' \in Plans
      BY <1>16 DEF Reenter
    <2> QED
      BY <1>16, <2>1, <2>2 DEF Reenter
  <1>17. CASE LimitReached
    BY <1>17 DEF LimitReached
  <1>18. CASE UNCHANGED vars
    BY <1>18 DEF vars
  <1> QED
    BY <1>1, <1>2, <1>3, <1>4, <1>5, <1>6, <1>7, <1>8, <1>9, <1>10, <1>12, <1>13,
       <1>14, <1>15, <1>16, <1>17, <1>18 DEF Next, NodeStep, UserStep, Ended

\* Every reachable state of the loop is of the declared type, whatever the
\* nodes, the user and the environment do.
THEOREM TypeCorrect == Spec => []TypeOK
  BY InitTypeOK, StepTypeOK, PTL DEF Spec

-----------------------------------------------------------------------------
(* Where the subgraph can be.  Every other invariant rests on these two.     *)

\* A question is open only at a node that can ask it.
PromptPlace ==
  /\ prompt = "budget"
       => node \in {"budget_check", "gap", "task_research", "worker", "critique"}
  /\ prompt = "task_context" => node = "task_context_input"

\* The review count is reset before the first draft of a task and is below its
\* bound whenever another draft can be written or reviewed.
ReviewCount ==
  /\ node \in {"fetch_context", "task_context_input", "gap", "task_research",
               "tool_plan", "dispatch"} => iteration = 0
  /\ node \in {"worker", "critique"} => iteration < MAX_CRITIQUE_ITERATIONS
  /\ iteration <= MAX_CRITIQUE_ITERATIONS

Control == PromptPlace /\ ReviewCount

LEMMA AnswerPlaces ==
  /\ node = "budget_check" => AfterAnswer \in {"end", "task_selector"}
  /\ node = "gap" => AfterAnswer = "task_research"
  /\ node = "task_research" => AfterAnswer = "tool_plan"
  /\ node = "worker" => AfterAnswer = "critique"
  /\ node = "critique" => AfterAnswer = RouteAfterCritique(critiquePassed, iteration)
  BY RoutesInNodes, Zenon DEF AfterAnswer

LEMMA RouteToWorker ==
  \A p, c : RouteAfterCritique(p, c) = "worker" => ~p /\ ~(c >= MAX_CRITIQUE_ITERATIONS)
  BY DEF RouteAfterCritique

\* What every answer to a budget question does to the control state.
LEMMA ResumeControl ==
  ASSUME TypeOK, Control, prompt = "budget", Resume
  PROVE  Control'
  <1>1. iteration' = iteration /\ prompt' = "none" /\ node' = AfterAnswer
    BY DEF Resume, critiqueVars
  <1>2. CASE node = "critique"
    <2>1. node' = RouteAfterCritique(critiquePassed, iteration)
      BY <1>1, <1>2, AnswerPlaces
    <2> QED
      BY <1>1, <1>2, <2>1, RoutesInNodes
         DEF Control, PromptPlace, ReviewCount, TypeOK, MAX_CRITIQUE_ITERATIONS
  <1>3. CASE node # "critique"
    BY <1>1, <1>3, AnswerPlaces
       DEF Control, PromptPlace, ReviewCount, TypeOK, MAX_CRITIQUE_ITERATIONS
  <1> QED
    BY <1>2, <1>3

LEMMA StepControl == TypeOK /\ Control /\ [Next]_vars => Control'
  <1> SUFFICES ASSUME TypeOK, Control, [Next]_vars PROVE Control'
    OBVIOUS
  <1> USE DEF Control, PromptPlace, ReviewCount, MAX_CRITIQUE_ITERATIONS, critiqueVars
  <1>1. CASE BudgetCheck
    BY <1>1, RoutesInNodes DEF BudgetCheck, At, TypeOK
  <1>2. CASE TaskSelector
    BY <1>2 DEF TaskSelector, NewTask, At
  <1>3. CASE FetchContext \/ ToolPlan \/ Dispatch
    BY <1>3 DEF FetchContext, ToolPlan, Dispatch, PassThrough, At
  <1>4. CASE TaskContextInput
    BY <1>4 DEF TaskContextInput, At
  <1>5. CASE Gap
    BY <1>5 DEF Gap, At
  <1>6. CASE TaskResearch
    BY <1>6 DEF TaskResearch, At
  <1>7. CASE Worker
    BY <1>7 DEF Worker, At
  <1>8. CASE Critique
    <2>1. iteration < MAX_CRITIQUE_ITERATIONS /\ prompt' = "none"
      BY <1>8 DEF Critique, At
    <2>2. CASE \E approved \in BOOLEAN, calls \in {0, 1} : Review(approved, calls)
      <3>1. /\ iteration' = iteration + 1
            /\ iteration' >= MAX_CRITIQUE_ITERATIONS => critiquePassed'
        BY <2>2 DEF Review
      <3>2. node' \in {"progress", "worker"} /\ (node' = "worker" => ~critiquePassed')
        BY <1>8, RoutesInNodes, RouteToWorker DEF Critique
      <3> QED
        BY <2>1, <3>1, <3>2 DEF TypeOK
    <2>3. CASE iteration' = iteration /\ critiquePassed' = TRUE
      BY <1>8, <2>1, <2>3, RoutesInNodes, RouteToWorker DEF Critique, TypeOK
    <2> QED
      BY <1>8, <2>2, <2>3 DEF Critique
  <1>9. CASE Progress
    BY <1>9, RoutesInNodes DEF Progress, At
  <1>10. CASE BudgetInterrupt
    BY <1>10 DEF BudgetInterrupt
  <1>11. CASE IncreaseBudget \/ AcceptResults \/ CancelWorkflow
    BY <1>11, ResumeControl DEF IncreaseBudget, AcceptResults, CancelWorkflow
  <1>12. CASE AnswerTaskContext
    BY <1>12 DEF AnswerTaskContext
  <1>13. CASE Reenter
    BY <1>13 DEF Reenter
  <1>14. CASE LimitReached
    BY <1>14 DEF LimitReached
  <1>15. CASE UNCHANGED vars
    BY <1>15 DEF vars
  <1> QED
    BY <1>1, <1>2, <1>3, <1>4, <1>5, <1>6, <1>7, <1>8, <1>9, <1>10, <1>11, <1>12,
       <1>13, <1>14, <1>15 DEF Next, NodeStep, UserStep, Ended

\* A selection reviews its drafts at most three times and never starts a draft
\* it could not review (CritiqueNode, _route_after_critique).
THEOREM ReviewsBounded == Spec => []CritiqueBounded
  <1>1. Init => Control
    BY DEF Init, Control, PromptPlace, ReviewCount, MAX_CRITIQUE_ITERATIONS
  <1>2. Control => CritiqueBounded
    BY DEF Control, ReviewCount, CritiqueBounded
  <1> QED
    BY <1>1, <1>2, StepControl, TypeCorrect, PTL DEF Spec

-----------------------------------------------------------------------------
(* The budget.                                                               *)

Budget == NeverOverdrawn /\ CallsAccounted

LEMMA StepBudget == TypeOK /\ Budget /\ [Next]_vars => Budget'
  <1> SUFFICES ASSUME TypeOK, Budget, [Next]_vars PROVE Budget'
    OBVIOUS
  <1> USE DEF Budget, NeverOverdrawn, CallsAccounted, budgetVars, userVars
  <1>1. CASE UNCHANGED <<remaining, spent, grants, skipped>>
    BY <1>1
  <1>2. CASE BudgetCheck \/ TaskSelector \/ FetchContext \/ TaskContextInput \/ ToolPlan
             \/ Dispatch \/ Progress \/ BudgetInterrupt \/ AnswerTaskContext
    BY <1>1, <1>2 DEF BudgetCheck, TaskSelector, FetchContext, TaskContextInput, ToolPlan,
         Dispatch, PassThrough, Progress, BudgetInterrupt, AnswerTaskContext
  <1>3. ASSUME NEW n \in {0, 1}, Spend(n), ~Exhausted, UNCHANGED <<grants, skipped>>
        PROVE  Budget'
    BY <1>3 DEF Spend, Exhausted, TypeOK
  <1>4. CASE Gap
    BY <1>1, <1>3, <1>4 DEF Gap
  <1>5. CASE TaskResearch
    BY <1>1, <1>3, <1>5 DEF TaskResearch
  <1>6. CASE Worker
    <2>1. CASE WorkerRuns
      BY <1>3, <1>6, <2>1 DEF Worker, WorkerRuns
    <2>2. CASE WorkerStorageError
      BY <1>6, <2>2, Zenon DEF Worker, WorkerStorageError
    <2>3. CASE WorkerIdle
      BY <1>1, <1>6, <2>3 DEF Worker, WorkerIdle
    <2> QED
      BY <1>6, <2>1, <2>2, <2>3 DEF Worker
  <1>7. CASE Critique
    <2>1. CASE \E approved \in BOOLEAN, calls \in {0, 1} : Review(approved, calls)
      BY <1>3, <1>7, <2>1 DEF Critique, Review
    <2>2. CASE UNCHANGED budgetVars
      BY <1>1, <1>7, <2>2 DEF Critique
    <2> QED
      BY <1>7, <2>1, <2>2 DEF Critique
  <1>8. CASE IncreaseBudget
    <2>1. grants' # 0
      BY <1>8 DEF IncreaseBudget, TypeOK
    <2>2. remaining' >= 0
      <3>1. PICK add \in Grants :
              /\ parentRemaining' = IF parentRemaining + add > 0 THEN parentRemaining + add ELSE 0
              /\ remaining' = parentRemaining'
        BY <1>8 DEF IncreaseBudget
      <3> QED
        BY <3>1, ConstantTypes DEF TypeOK
    <2> QED
      BY <2>1, <2>2
  <1>9. CASE AcceptResults \/ CancelWorkflow
    <2>1. UNCHANGED <<remaining, spent, grants>> /\ (skipped => skipped')
      BY <1>9 DEF AcceptResults, CancelWorkflow, Resume
    <2> QED
      BY <2>1
  <1>10. CASE Reenter
    BY <1>1, <1>10 DEF Reenter
  <1>11. CASE LimitReached
    BY <1>1, <1>11 DEF LimitReached
  <1>12. CASE UNCHANGED vars
    BY <1>1, <1>12 DEF vars
  <1> QED
    BY <1>2, <1>4, <1>5, <1>6, <1>7, <1>8, <1>9, <1>10, <1>11, <1>12
       DEF Next, NodeStep, UserStep, Ended

\* No mix of nodes, questions and increases draws the call budget below zero,
\* and until it is increased every call is deducted exactly once (BudgetGuard).
THEOREM BudgetKept == Spec => [](NeverOverdrawn /\ CallsAccounted)
  <1>1. Init => Budget
    BY ConstantTypes DEF Init, Budget, NeverOverdrawn, CallsAccounted
  <1>2. Budget => NeverOverdrawn /\ CallsAccounted
    BY DEF Budget
  <1> QED
    BY <1>1, <1>2, StepBudget, TypeCorrect, PTL DEF Spec

\* Whatever is answered and however often the phase is entered: the types, the bound on the
\* reviews and the budget.
THEOREM LoopSound == Spec => []LoopInv
  <1>1. TypeOK /\ CritiqueBounded /\ NeverOverdrawn /\ CallsAccounted => LoopInv
    BY DEF LoopInv
  <1> QED
    BY <1>1, TypeCorrect, ReviewsBounded, BudgetKept, PTL

-----------------------------------------------------------------------------
(* The order of the tasks, and the stability of their results.               *)

\* What a step may do to the results: only a worker changes them, and only for
\* the selected task.
LEMMA ResultsStep ==
  ASSUME TypeOK, [Next]_vars
  PROVE  \/ UNCHANGED results
         \/ /\ node = "worker" /\ current \in Ids /\ UNCHANGED <<plan, current>>
            /\ node' = "critique" /\ UNCHANGED <<blocked, completed>>
            /\ results'[current] \in {"done", "failed"}
            /\ \A t \in Ids : t # current => results'[t] = results[t]
  <1> USE DEF taskVars, selectVars, loopVars, planVars
  <1>1. CASE Worker
    <2>1. CASE WorkerRuns
      BY <1>1, <2>1 DEF Worker, WorkerRuns, Outcomes, TypeOK, At
    <2>2. CASE WorkerStorageError \/ WorkerIdle
      BY <2>2 DEF WorkerStorageError, WorkerIdle
    <2> QED
      BY <1>1, <2>1, <2>2 DEF Worker
  <1>2. CASE BudgetCheck \/ TaskSelector \/ FetchContext \/ TaskContextInput \/ Gap
    BY <1>2 DEF BudgetCheck, TaskSelector, FetchContext, TaskContextInput, Gap, PassThrough
  <1>3. CASE TaskResearch \/ ToolPlan \/ Dispatch \/ Critique \/ Progress
    BY <1>3 DEF TaskResearch, ToolPlan, Dispatch, Critique, Progress, PassThrough
  <1>4. CASE BudgetInterrupt \/ LimitReached \/ UNCHANGED vars
    BY <1>4 DEF BudgetInterrupt, LimitReached, vars
  <1>5. CASE UserStep
    BY <1>5 DEF UserStep, IncreaseBudget, AcceptResults, CancelWorkflow, AnswerTaskContext,
         Reenter, Resume
  <1> QED
    BY <1>1, <1>2, <1>3, <1>4, <1>5 DEF Next, NodeStep, Ended

LEMMA FinishedGrows ==
  ASSUME TypeOK, [Next]_vars
  PROVE  Finished \subseteq Finished'
  <1>1. CASE UNCHANGED results
    BY <1>1 DEF Finished
  <1>2. CASE /\ current \in Ids /\ results'[current] \in {"done", "failed"}
             /\ \A t \in Ids : t # current => results'[t] = results[t]
    BY <1>2 DEF Finished
  <1> QED
    BY <1>1, <1>2, ResultsStep

LEMMA StepOrder == TypeOK /\ Control /\ DependenciesFirst /\ [Next]_vars => DependenciesFirst'
  <1> SUFFICES ASSUME TypeOK, Control, DependenciesFirst, [Next]_vars PROVE DependenciesFirst'
    OBVIOUS
  <1> USE DEF planVars, selectVars
  <1>0. Finished \subseteq Finished'
    BY FinishedGrows
  <1>1. ASSUME UNCHANGED <<plan, current>>, node \in InTask \/ node' \notin InTask
        PROVE  DependenciesFirst'
    BY <1>0, <1>1 DEF DependenciesFirst, Deps
  <1>2. CASE TaskSelector
    <2>1. current' # NoTask => current' \in Ready
      BY <1>2 DEF TaskSelector
    <2>2. UNCHANGED <<plan, results>>
      BY <1>2 DEF TaskSelector, taskVars
    <2> QED
      BY <2>1, <2>2 DEF DependenciesFirst, Ready, Deps, Finished
  <1>3. CASE BudgetCheck \/ Progress
    BY <1>1, <1>3, RoutesInNodes DEF BudgetCheck, Progress, InTask, Nodes
  <1>4. CASE FetchContext \/ TaskContextInput \/ Gap \/ TaskResearch \/ ToolPlan \/ Dispatch
             \/ Worker \/ Critique
    <2>1. node \in InTask
      BY <1>4 DEF FetchContext, TaskContextInput, Gap, TaskResearch, ToolPlan, Dispatch, Worker,
           Critique, PassThrough, At, InTask, Nodes
    <2>2. UNCHANGED <<plan, current>>
      BY <1>4 DEF FetchContext, TaskContextInput, Gap, TaskResearch, ToolPlan, Dispatch, Worker,
           Critique, PassThrough
    <2> QED
      BY <1>1, <2>1, <2>2
  <1>5. CASE BudgetInterrupt \/ LimitReached
    <2>1. UNCHANGED <<plan, current, node>>
      BY <1>5 DEF BudgetInterrupt, LimitReached
    <2> QED
      BY <1>1, <2>1
  <1>6. CASE IncreaseBudget \/ AcceptResults \/ CancelWorkflow
    <2>1. UNCHANGED <<plan, current>> /\ node' = AfterAnswer /\ prompt = "budget"
      BY <1>6 DEF IncreaseBudget, AcceptResults, CancelWorkflow, Resume
    <2>2. node \in InTask \/ node' \notin InTask
      BY <2>1, AnswerPlaces DEF Control, PromptPlace, InTask, Nodes
    <2> QED
      BY <1>1, <2>1, <2>2
  <1>7. CASE AnswerTaskContext
    BY <1>1, <1>7 DEF AnswerTaskContext, Control, PromptPlace, InTask, Nodes
  <1>8. CASE Reenter
    BY <1>8 DEF Reenter, DependenciesFirst, InTask
  <1>9. CASE UNCHANGED vars
    BY <1>1, <1>9 DEF vars
  <1> QED
    BY <1>2, <1>3, <1>4, <1>5, <1>6, <1>7, <1>8, <1>9 DEF Next, NodeStep, UserStep, Ended

\* No task is worked on before everything it depends on has finished, whatever
\* is skipped, rejected, failed or replanned (TaskSelectorNode).
THEOREM OrderKept == Spec => []DependenciesFirst
  <1>1. Init => Control /\ DependenciesFirst
    BY DEF Init, Control, PromptPlace, ReviewCount, MAX_CRITIQUE_ITERATIONS, DependenciesFirst
  <1> QED
    BY <1>1, StepControl, StepOrder, TypeCorrect, PTL DEF Spec

\* A finished task stays finished, and only the selected task of the plan
\* changes its result: a worker's read-modify-write of the result list loses
\* nothing (WorkerNode).
THEOREM ResultsKept == Spec => ResultsStable
  <1>1. ASSUME TypeOK, DependenciesFirst, [Next]_vars, NEW t \in Ids
        PROVE  /\ results[t] # "none" => results'[t] # "none"
               /\ results'[t] # results[t] => t = current /\ t \in plan.tasks
    <2>1. CASE UNCHANGED results
      BY <2>1
    <2>2. CASE /\ node = "worker" /\ current \in Ids
               /\ results'[current] \in {"done", "failed"}
               /\ \A u \in Ids : u # current => results'[u] = results[u]
      <3>1. current \in plan.tasks
        BY <1>1, <2>2, ConstantTypes DEF DependenciesFirst, InTask, Nodes
      <3> QED
        BY <2>2, <3>1
    <2> QED
      BY <1>1, <2>1, <2>2, ResultsStep
  <1>2. TypeOK /\ DependenciesFirst /\ [Next]_vars
          => [\A t \in Ids : /\ results[t] # "none" => results'[t] # "none"
                             /\ results'[t] # results[t] => t = current /\ t \in plan.tasks]_vars
    BY <1>1
  <1> QED
    BY <1>2, OrderKept, TypeCorrect, PTL DEF Spec, ResultsStable

-----------------------------------------------------------------------------
(* The drafts and the stored finals.                                         *)

\* Between a worker that was not skipped and the end of the cycle the draft is
\* the selected task's.
DraftIsCurrent == ~skipped /\ node \in {"critique", "progress"} => draft = current

Drafts == DraftIsCurrent /\ FinalIsOwnUnlessSkipped

LEMMA StepDrafts == TypeOK /\ Control /\ Drafts /\ [Next]_vars => Drafts'
  <1> SUFFICES ASSUME TypeOK, Control, Drafts, [Next]_vars PROVE Drafts'
    OBVIOUS
  <1> USE DEF Drafts, DraftIsCurrent, FinalIsOwnUnlessSkipped, taskVars, selectVars
  <1>1. ASSUME UNCHANGED finals, skipped => skipped', node' \notin {"critique", "progress"}
        PROVE  Drafts'
    BY <1>1
  <1>2. ASSUME UNCHANGED <<finals, draft, current>>, skipped => skipped',
               node \in {"critique", "progress"}
        PROVE  Drafts'
    BY <1>2
  <1>3. CASE BudgetCheck \/ TaskSelector \/ FetchContext \/ TaskContextInput \/ Gap
             \/ TaskResearch \/ ToolPlan \/ Dispatch \/ AnswerTaskContext
    <2>1. UNCHANGED <<finals, skipped>>
      BY <1>3 DEF BudgetCheck, TaskSelector, FetchContext, TaskContextInput, Gap, TaskResearch,
           ToolPlan, Dispatch, AnswerTaskContext, PassThrough
    <2>2. node' \notin {"critique", "progress"}
      BY <1>3, RoutesInNodes DEF BudgetCheck, TaskSelector, FetchContext, TaskContextInput, Gap,
           TaskResearch, ToolPlan, Dispatch, AnswerTaskContext, PassThrough, At
    <2> QED
      BY <1>1, <2>1, <2>2
  <1>4. CASE Worker
    <2>1. UNCHANGED <<finals, current>>
      BY <1>4 DEF Worker
    <2>2. CASE WorkerRuns \/ WorkerIdle
      BY <1>4, <2>1, <2>2 DEF WorkerRuns, WorkerIdle
    <2>3. CASE WorkerStorageError
      BY <2>1, <2>3, Zenon DEF WorkerStorageError
    <2> QED
      BY <1>4, <2>2, <2>3 DEF Worker
  <1>5. CASE Critique
    BY <1>2, <1>5 DEF Critique, At
  <1>6. CASE Progress
    <2>1. node' \notin {"critique", "progress"} /\ UNCHANGED skipped
      BY <1>6, RoutesInNodes DEF Progress
    <2>2. ~skipped => draft = current
      BY <1>6 DEF Progress, At
    <2>3. finals' = IF current # NoTask /\ draft # NoTask
                    THEN [finals EXCEPT ![current] = draft] ELSE finals
      BY <1>6 DEF Progress
    <2> QED
      BY <2>1, <2>2, <2>3 DEF TypeOK
  <1>7. CASE BudgetInterrupt \/ LimitReached \/ UNCHANGED vars
    BY <1>7 DEF BudgetInterrupt, LimitReached, vars
  <1>8. CASE IncreaseBudget \/ AcceptResults \/ CancelWorkflow
    <2>1. /\ UNCHANGED <<finals, draft, current>> /\ node' = AfterAnswer /\ prompt = "budget"
          /\ skipped' = (skipped \/ node = "worker")
      BY <1>8 DEF IncreaseBudget, AcceptResults, CancelWorkflow, Resume
    <2>2. skipped => skipped'
      BY <2>1, Zenon
    <2>3. CASE node = "worker"
      <3>1. skipped'
        BY <2>1, <2>3, Zenon
      <3> QED
        BY <3>1
    <2>4. CASE node = "critique"
      BY <1>2, <2>1, <2>2, <2>4
    <2>5. CASE node \in {"budget_check", "gap", "task_research"}
      BY <1>1, <2>1, <2>2, <2>5, AnswerPlaces
    <2> QED
      BY <2>1, <2>3, <2>4, <2>5 DEF Control, PromptPlace
  <1>9. CASE Reenter
    BY <1>1, <1>9 DEF Reenter
  <1> QED
    BY <1>3, <1>4, <1>5, <1>6, <1>7, <1>8, <1>9 DEF Next, NodeStep, UserStep, Ended

\* As long as no worker step was skipped, the final output stored for a task is
\* the draft that was written for it (WorkerNode, ProgressNode).
THEOREM FinalsOwned == Spec => []FinalIsOwnUnlessSkipped
  <1>1. Init => Control /\ Drafts
    BY DEF Init, Control, PromptPlace, ReviewCount, MAX_CRITIQUE_ITERATIONS, Drafts,
         DraftIsCurrent, FinalIsOwnUnlessSkipped
  <1>2. Drafts => FinalIsOwnUnlessSkipped
    BY DEF Drafts
  <1> QED
    BY <1>1, <1>2, StepControl, StepDrafts, TypeCorrect, PTL DEF Spec

-----------------------------------------------------------------------------
(* The end of the phase.                                                     *)

\* A result belongs to a task of the plan, unless the plan was exchanged.
ResultsOfPlan ==
  "replan" \notin Faults => \A t \in Ids : results[t] # "none" => t \in plan.tasks

\* The phase ends as soon as it is complete.
CompletedAtEnd == completed => node = "end" /\ prompt = "none"

Completion == ResultsOfPlan /\ CompletedAtEnd /\ CompletedMeansDone

LEMMA PlanFinite == \A p \in Plans : IsFiniteSet(p.tasks)
  <1>1. \A p \in Plans : p.tasks \subseteq Ids
    BY ConstantTypes
  <1> QED
    BY <1>1, ConstantsAssumption, FS_Subset DEF ConstantsAssumption

LEMMA PlanKept == ASSUME "replan" \notin Faults, [Next]_vars PROVE plan' = plan
  BY DEF Next, NodeStep, UserStep, Ended, BudgetCheck, TaskSelector, FetchContext,
     TaskContextInput, Gap, TaskResearch, ToolPlan, Dispatch, PassThrough, Worker, Critique,
     Progress, BudgetInterrupt, IncreaseBudget, AcceptResults, CancelWorkflow, Resume,
     AnswerTaskContext, Reenter, LimitReached, planVars, vars

\* Comparing the two counts is enough as long as every result is the plan's.
LEMMA CountsDecide ==
  ASSUME TypeOK, ResultsOfPlan, "replan" \notin Faults,
         Cardinality(Done) = Cardinality(plan.tasks)
  PROVE  plan.tasks \subseteq Done
  <1>1. IsFiniteSet(plan.tasks)
    BY PlanFinite DEF TypeOK
  <1>2. Done \subseteq plan.tasks
    BY DEF Done, ResultsOfPlan
  <1> QED
    BY <1>1, <1>2, FS_Subset

LEMMA StepResultsOfPlan ==
  TypeOK /\ DependenciesFirst /\ ResultsOfPlan /\ [Next]_vars => ResultsOfPlan'
  <1> SUFFICES ASSUME TypeOK, DependenciesFirst, ResultsOfPlan, [Next]_vars,
                      "replan" \notin Faults
               PROVE  \A t \in Ids : results'[t] # "none" => t \in plan'.tasks
    BY DEF ResultsOfPlan
  <1>1. plan' = plan
    BY PlanKept
  <1>2. CASE UNCHANGED results
    BY <1>1, <1>2 DEF ResultsOfPlan
  <1>3. CASE /\ node = "worker" /\ current \in Ids
             /\ \A t \in Ids : t # current => results'[t] = results[t]
    <2>1. current \in plan.tasks
      BY <1>3, ConstantTypes DEF DependenciesFirst, InTask, Nodes
    <2> QED
      BY <1>1, <1>3, <2>1 DEF ResultsOfPlan
  <1> QED
    BY <1>2, <1>3, ResultsStep

LEMMA StepCompletedAtEnd == TypeOK /\ CompletedAtEnd /\ [Next]_vars => CompletedAtEnd'
  <1> SUFFICES ASSUME TypeOK, CompletedAtEnd, [Next]_vars PROVE CompletedAtEnd'
    OBVIOUS
  <1> USE DEF CompletedAtEnd, loopVars
  <1>1. CASE Progress
    <2>1. ~completed /\ prompt' = "none"
      BY <1>1, Zenon DEF Progress, At
    <2>2. completed' => allComplete'
      BY <1>1, <2>1, Zenon DEF Progress
    <2>3. allComplete' => node' = "end"
      BY <1>1 DEF Progress, RouteAfterProgress
    <2> QED
      BY <2>1, <2>2, <2>3
  <1>2. CASE BudgetCheck \/ TaskSelector \/ FetchContext \/ TaskContextInput \/ Gap
             \/ TaskResearch \/ ToolPlan \/ Dispatch \/ Worker \/ Critique
    BY <1>2 DEF BudgetCheck, TaskSelector, FetchContext, TaskContextInput, Gap, TaskResearch,
         ToolPlan, Dispatch, Worker, Critique, PassThrough, At
  <1>3. CASE BudgetInterrupt \/ LimitReached \/ UNCHANGED vars
    BY <1>3 DEF BudgetInterrupt, LimitReached, vars
  <1>4. CASE IncreaseBudget \/ AcceptResults \/ CancelWorkflow \/ AnswerTaskContext
    BY <1>4 DEF IncreaseBudget, AcceptResults, CancelWorkflow, AnswerTaskContext, Resume
  <1>5. CASE Reenter
    BY <1>5, Zenon DEF Reenter
  <1> QED
    BY <1>1, <1>2, <1>3, <1>4, <1>5 DEF Next, NodeStep, UserStep, Ended

LEMMA StepCompletion ==
  TypeOK /\ DependenciesFirst /\ Completion /\ [Next]_vars => Completion'
  <1> SUFFICES ASSUME TypeOK, DependenciesFirst, Completion, [Next]_vars PROVE Completion'
    OBVIOUS
  <1>1. ResultsOfPlan' /\ CompletedAtEnd'
    BY StepResultsOfPlan, StepCompletedAtEnd DEF Completion
  <1>2. ASSUME "replan" \notin Faults, completed' PROVE plan'.tasks \subseteq Done'
    <2>1. plan' = plan
      BY <1>2, PlanKept
    <2>2. CASE Progress
      <3>1. ~completed
        BY <2>2 DEF Completion, CompletedAtEnd, Progress, At
      <3>2. PhaseComplete
        BY <1>2, <2>2, <3>1, Zenon DEF Progress
      <3>3. plan.tasks \subseteq Done
        BY <1>2, <3>2, CountsDecide DEF PhaseComplete, Completion
      <3>4. UNCHANGED results
        BY <2>2 DEF Progress
      <3> QED
        BY <2>1, <3>3, <3>4 DEF Done
    <2>3. CASE completed /\ UNCHANGED results
      BY <1>2, <2>1, <2>3 DEF Completion, CompletedMeansDone, Done
    <2>4. CASE ~Progress
      <3>1. completed
        BY <1>2, <2>4, Zenon DEF Next, NodeStep, UserStep, Ended, BudgetCheck, TaskSelector,
           FetchContext, TaskContextInput, Gap, TaskResearch, ToolPlan, Dispatch, PassThrough,
           Worker, Critique, BudgetInterrupt, IncreaseBudget, AcceptResults, CancelWorkflow,
           Resume, AnswerTaskContext, Reenter, LimitReached, loopVars, vars
      <3>2. node = "end"
        BY <3>1 DEF Completion, CompletedAtEnd
      <3> QED
        BY <2>3, <3>1, <3>2, ResultsStep
    <2> QED
      BY <2>2, <2>4
  <1> QED
    BY <1>1, <1>2 DEF Completion, CompletedMeansDone

\* The phase is marked complete only when every task of its plan is done,
\* although the code compares two counts (ProgressNode).
THEOREM CompletionSound == Spec => []CompletedMeansDone
  <1>1. Init => Completion
    BY DEF Init, Completion, ResultsOfPlan, CompletedAtEnd, CompletedMeansDone
  <1>2. Completion => CompletedMeansDone
    BY DEF Completion
  <1> QED
    BY <1>1, <1>2, StepCompletion, OrderKept, TypeCorrect, PTL DEF Spec

-----------------------------------------------------------------------------
(* A well-founded plan never stalls.                                         *)

LEMMA ReadyTaskExists ==
  ASSUME TypeOK, WellFounded(plan), plan.tasks \ Finished # {}
  PROVE  Ready # {}
  <1> DEFINE S == plan.tasks \ Finished
  <1>1. PICK t \in S : \A s \in S : <<s, t>> \notin plan.edges
    BY DEF WellFounded
  <1>2. \A s \in Deps(t) : s \in plan.tasks
    BY DEF Deps, WellFounded
  <1>3. Deps(t) \subseteq Finished
    BY <1>1, <1>2 DEF Deps
  <1> QED
    BY <1>1, <1>3 DEF Ready

LEMMA StepNeverBlocked ==
  TypeOK /\ ResultsOfPlan /\ WellFoundedNeverBlocked /\ [Next]_vars
    => WellFoundedNeverBlocked'
  <1> SUFFICES ASSUME TypeOK, ResultsOfPlan, WellFoundedNeverBlocked, [Next]_vars,
                      "replan" \notin Faults, WellFounded(plan)
               PROVE  ~blocked'
    BY PlanKept DEF WellFoundedNeverBlocked
  <1>1. ~blocked
    BY DEF WellFoundedNeverBlocked
  <1>2. CASE TaskSelector
    <2>1. CASE Ready = {} /\ Cardinality(Finished) < Cardinality(plan.tasks)
      <3>1. plan.tasks \subseteq Finished
        BY <2>1, ReadyTaskExists
      <3>2. Finished \subseteq plan.tasks
        BY DEF Finished, ResultsOfPlan
      <3>3. Finished = plan.tasks
        BY <3>1, <3>2
      <3>4. Cardinality(plan.tasks) \in Nat
        BY PlanFinite, FS_CardinalityType DEF TypeOK
      <3> QED
        BY <2>1, <3>3, <3>4
    <2>2. CASE ~(Ready = {} /\ Cardinality(Finished) < Cardinality(plan.tasks))
      BY <1>1, <1>2, <2>2 DEF TaskSelector
    <2> QED
      BY <2>1, <2>2
  <1>3. CASE ~TaskSelector
    BY <1>1, <1>3, Zenon DEF Next, NodeStep, UserStep, Ended, BudgetCheck,
       FetchContext, TaskContextInput, Gap, TaskResearch, ToolPlan, Dispatch, PassThrough,
       Worker, Critique, Progress, BudgetInterrupt, IncreaseBudget, AcceptResults,
       CancelWorkflow, Resume, AnswerTaskContext, Reenter, LimitReached, selectVars, vars
  <1> QED
    BY <1>2, <1>3

\* A plan without cycles is never reported as blocked, whatever fails: failed
\* tasks release their dependents (TaskSelectorNode).
THEOREM NeverStalls == Spec => []WellFoundedNeverBlocked
  <1>1. Init => Completion /\ WellFoundedNeverBlocked
    BY DEF Init, Completion, ResultsOfPlan, CompletedAtEnd, CompletedMeansDone,
         WellFoundedNeverBlocked
  <1>2. Completion => ResultsOfPlan
    BY DEF Completion
  <1> QED
    BY <1>1, <1>2, StepCompletion, StepNeverBlocked, OrderKept, TypeCorrect, PTL DEF Spec

-----------------------------------------------------------------------------
(* An end has a reason.                                                      *)

\* The bound on the cycles is no reason of its own if there are more cycles than tasks
\* and entries.
EnoughCycles == "replan" \notin Faults /\ Cardinality(Ids) + MaxReentries < MaxLoop

\* Nothing has happened that would be a reason to stop early.
Clean == /\ ~skipped /\ ~blocked /\ plan.tasks # {}
         /\ \A t \in plan.tasks : results[t] # "failed"

\* A task is selected when it has no result, and given to the worker again when it
\* has not failed.
Selected ==
  /\ node \in InTask \ {"worker", "critique", "progress"} /\ current # NoTask
       => results[current] = "none"
  /\ node = "worker" /\ current # NoTask => results[current] # "failed"

\* Each cycle finishes a task, except for one cycle for each entry into a complete phase.
Paced ==
  Clean =>
    /\ index <= Cardinality(Done) + reentries + (IF completed THEN 1 ELSE 0)
    /\ node \in {"critique", "progress"} /\ current # NoTask => results[current] = "done"
    /\ /\ node \in {"worker", "critique", "progress"} /\ current # NoTask
       /\ results[current] = "done"
       => index + 1 <= Cardinality(Done) + reentries
    /\ node \in InTask /\ current = NoTask => plan.tasks \subseteq Done

Reasons == Selected /\ Paced /\ EndHasReason /\ reentries <= MaxReentries

LEMMA DoneFinite ==
  ASSUME TypeOK
  PROVE  /\ IsFiniteSet(Done) /\ Cardinality(Done) \in Nat /\ Cardinality(Ids) \in Nat
         /\ Cardinality(Done) <= Cardinality(Ids)
  <1>1. Done \subseteq Ids /\ IsFiniteSet(Ids)
    BY ConstantsAssumption DEF Done, ConstantsAssumption
  <1> QED
    BY <1>1, FS_Subset, FS_CardinalityType

LEMMA StepSelected ==
  TypeOK /\ Control /\ Selected /\ [Next]_vars => Selected'
  <1> SUFFICES ASSUME TypeOK, Control, Selected, [Next]_vars PROVE Selected'
    OBVIOUS
  <1> USE DEF Selected, InTask, Nodes, taskVars, selectVars
  <1>1. CASE TaskSelector
    <2>1. current' # NoTask => current' \in Ready
      BY <1>1 DEF TaskSelector
    <2>2. \A t \in Ready : results[t] = "none"
      BY ConstantTypes DEF Ready, Finished, TypeOK
    <2> QED
      BY <1>1, <2>1, <2>2 DEF TaskSelector
  <1>2. CASE FetchContext \/ ToolPlan \/ Dispatch
    BY <1>2 DEF FetchContext, ToolPlan, Dispatch, PassThrough, At
  <1>3. CASE TaskContextInput \/ Gap \/ TaskResearch
    BY <1>3 DEF TaskContextInput, Gap, TaskResearch, At
  <1>4. CASE Worker \/ BudgetCheck \/ Progress \/ Reenter
    BY <1>4, RoutesInNodes DEF Worker, BudgetCheck, Progress, Reenter
  <1>5. CASE Critique
    <2>1. node' \in {"progress", "worker"} /\ UNCHANGED <<results, current>>
      BY <1>5, RoutesInNodes DEF Critique
    <2>2. node' = "worker" => ~(current \in Ids /\ results[current] = "failed")
      BY <1>5 DEF Critique, RouteAfterCritique
    <2> QED
      BY <2>1, <2>2 DEF TypeOK
  <1>6. CASE BudgetInterrupt \/ LimitReached \/ UNCHANGED vars
    BY <1>6 DEF BudgetInterrupt, LimitReached, vars
  <1>7. CASE IncreaseBudget \/ AcceptResults \/ CancelWorkflow
    <2>1. UNCHANGED <<results, current>> /\ node' = AfterAnswer /\ prompt = "budget"
      BY <1>7 DEF IncreaseBudget, AcceptResults, CancelWorkflow, Resume
    <2>2. CASE node = "critique"
      <3>1. node' = RouteAfterCritique(critiquePassed, iteration)
        BY <2>1, <2>2, AnswerPlaces
      <3>2. node' = "worker" => ~(current \in Ids /\ results[current] = "failed")
        BY <3>1 DEF RouteAfterCritique
      <3> QED
        BY <2>1, <3>1, <3>2, RoutesInNodes DEF TypeOK
    <2>3. CASE node # "critique"
      BY <2>1, <2>3, AnswerPlaces DEF Control, PromptPlace
    <2> QED
      BY <2>2, <2>3
  <1>8. CASE AnswerTaskContext
    BY <1>8 DEF AnswerTaskContext, Control, PromptPlace
  <1> QED
    BY <1>1, <1>2, <1>3, <1>4, <1>5, <1>6, <1>7, <1>8 DEF Next, NodeStep, UserStep, Ended

\* What would be a reason to stop early is never taken back.
LEMMA CleanBefore ==
  ASSUME TypeOK, Selected, "replan" \notin Faults, [Next]_vars, Clean'
  PROVE  Clean
  <1>1. plan' = plan
    BY PlanKept
  <1>2. skipped => skipped'
    <2>1. CASE WorkerStorageError \/ (Resume /\ prompt = "budget")
      BY <2>1, Zenon DEF WorkerStorageError, Resume
    <2>2. CASE UNCHANGED skipped
      BY <2>2
    <2>3. UNCHANGED skipped \/ WorkerStorageError \/ (Resume /\ prompt = "budget")
      BY DEF Next, NodeStep, UserStep, Ended, BudgetCheck, TaskSelector,
         FetchContext, TaskContextInput, Gap, TaskResearch, ToolPlan, Dispatch, PassThrough,
         Worker, WorkerRuns, WorkerIdle, Critique, Progress, BudgetInterrupt, IncreaseBudget,
         AcceptResults, CancelWorkflow, AnswerTaskContext, Reenter, LimitReached, vars
    <2> QED
      BY <2>1, <2>2, <2>3
  <1>4. blocked => blocked'
    <2>1. CASE TaskSelector
      BY <2>1, Zenon DEF TaskSelector
    <2>2. CASE ~TaskSelector
      BY <2>2, Zenon DEF Next, NodeStep, UserStep, Ended, BudgetCheck,
         FetchContext, TaskContextInput, Gap, TaskResearch, ToolPlan, Dispatch, PassThrough,
         Worker, Critique, Progress, BudgetInterrupt, IncreaseBudget, AcceptResults,
         CancelWorkflow, Resume, AnswerTaskContext, Reenter, LimitReached, selectVars, vars
    <2> QED
      BY <2>1, <2>2
  <1>3. ASSUME NEW t \in plan.tasks, results[t] = "failed" PROVE results'[t] = "failed"
    <2>1. t \in Ids
      BY ConstantTypes DEF TypeOK
    <2>2. CASE UNCHANGED results
      BY <1>3, <2>2
    <2>3. CASE /\ node = "worker" /\ current \in Ids
               /\ \A u \in Ids : u # current => results'[u] = results[u]
      BY <1>3, <2>1, <2>3, ConstantTypes DEF Selected
    <2> QED
      BY <2>2, <2>3, ResultsStep
  <1> QED
    BY <1>1, <1>2, <1>3, <1>4 DEF Clean

\* What a worker adds to the tasks that are done, as long as nothing fails.
LEMMA DoneGrows ==
  ASSUME TypeOK, DependenciesFirst, "replan" \notin Faults, [Next]_vars, Clean',
         results' # results
  PROVE  /\ results'[current] = "done" /\ Cardinality(Done') \in Nat
         /\ results[current] = "none" => Cardinality(Done') = Cardinality(Done) + 1
         /\ results[current] # "failed" => Cardinality(Done') >= Cardinality(Done)
  <1>1. /\ node = "worker" /\ current \in Ids
        /\ results'[current] \in {"done", "failed"}
        /\ \A t \in Ids : t # current => results'[t] = results[t]
    BY ResultsStep
  <1>2. results'[current] = "done"
    BY <1>1, PlanKept, ConstantTypes DEF DependenciesFirst, InTask, Nodes, Clean
  <1>3. Done' = Done \cup {current}
    BY <1>1, <1>2 DEF Done
  <1>4. IsFiniteSet(Done) /\ Cardinality(Done) \in Nat
    BY DoneFinite
  <1>5. Cardinality(Done') = IF current \in Done THEN Cardinality(Done) ELSE Cardinality(Done) + 1
    BY <1>3, <1>4, FS_AddElement
  <1>6. results[current] = "none" => current \notin Done
    BY DEF Done
  <1> QED
    BY <1>2, <1>3, <1>4, <1>5, <1>6

\* A selection that finds nothing to do means that every task is done.
LEMMA IdleSelection ==
  ASSUME TypeOK, ResultsOfPlan, "replan" \notin Faults, Clean, TaskSelector,
         current' = NoTask, ~blocked'
  PROVE  plan.tasks \subseteq Done
  <1>1. Ready = {}
    <2>1. SUFFICES ASSUME Ready # {} PROVE FALSE
      OBVIOUS
    <2>2. current' \in Ready
      BY <2>1 DEF TaskSelector
    <2> QED
      BY <2>2, ConstantTypes DEF Ready, TypeOK
  <1>2. ~(Cardinality(Finished) < Cardinality(plan.tasks))
    <2>1. (Ready = {} /\ Cardinality(Finished) < Cardinality(plan.tasks)) => blocked' = TRUE
      BY Zenon DEF TaskSelector
    <2> QED
      BY <1>1, <2>1
  <1>3. Finished \subseteq plan.tasks /\ IsFiniteSet(plan.tasks)
    BY PlanFinite DEF Finished, ResultsOfPlan, TypeOK
  <1>4. Finished = plan.tasks
    <2>1. Cardinality(Finished) <= Cardinality(plan.tasks)
      BY <1>3, FS_Subset
    <2>2. Cardinality(Finished) \in Nat /\ Cardinality(plan.tasks) \in Nat
      BY <1>3, FS_Subset, FS_CardinalityType
    <2> QED
      BY <1>2, <1>3, <2>1, <2>2, FS_Subset
  <1> QED
    BY <1>4 DEF Finished, Done, Clean

LEMMA StepPaced ==
  ASSUME TypeOK, Control, DependenciesFirst, Completion, Selected, Paced,
         "replan" \notin Faults, [Next]_vars
  PROVE  Paced'
  <1> SUFFICES ASSUME Clean' PROVE Paced'
    BY DEF Paced
  <1>1. Clean /\ plan' = plan
    BY CleanBefore, PlanKept
  <1>2. Cardinality(Done) \in Nat
    BY DoneFinite
  <1> DEFINE Pace == index <= Cardinality(Done) + reentries + (IF completed THEN 1 ELSE 0)
  <1>3. Pace
    BY <1>1 DEF Paced
  <1>4. ASSUME UNCHANGED <<index, results, reentries, completed>> PROVE Pace'
    BY <1>3, <1>4 DEF Done
  <1>5. ASSUME Pace', node' \notin InTask PROVE Paced'
    BY <1>5 DEF Paced, InTask, Nodes
  <1>6. ASSUME UNCHANGED <<index, results, reentries, completed, current>>, node \in InTask,
               \/ node' \in InTask \ {"worker", "critique", "progress"}
               \/ node = "dispatch" /\ node' = "worker"
               \/ node = "critique" /\ node' \in {"worker", "progress"}
        PROVE  Paced'
    <2>1. Pace' /\ Done' = Done
      BY <1>4, <1>6 DEF Done
    <2>2. node' \in InTask /\ current' = NoTask => plan'.tasks \subseteq Done'
      BY <1>1, <1>6, <2>1 DEF Paced
    <2>3. CASE node' \in InTask \ {"worker", "critique", "progress"}
      BY <2>1, <2>2, <2>3 DEF Paced
    <2>4. CASE node = "dispatch" /\ node' = "worker"
      BY <1>6, <2>1, <2>2, <2>4 DEF Paced, Selected, InTask, Nodes
    <2>5. CASE node = "critique" /\ node' \in {"worker", "progress"}
      BY <1>1, <1>6, <2>1, <2>2, <2>5 DEF Paced, InTask, Nodes
    <2> QED
      BY <1>6, <2>3, <2>4, <2>5
  <1> USE DEF loopVars, taskVars, userVars, selectVars
  <1>7. CASE BudgetCheck
    BY <1>4, <1>5, <1>7, RoutesInNodes DEF BudgetCheck, InTask, Nodes
  <1>8. CASE TaskSelector
    <2>1. Pace' /\ Done' = Done /\ node' = "fetch_context"
      BY <1>4, <1>8 DEF TaskSelector, Done
    <2>2. current' = NoTask => plan.tasks \subseteq Done
      BY <1>1, <1>8, IdleSelection DEF Clean, Completion
    <2> QED
      BY <1>1, <2>1, <2>2 DEF Paced
  <1>9. CASE FetchContext \/ ToolPlan \/ Dispatch
    BY <1>6, <1>9 DEF FetchContext, ToolPlan, Dispatch, PassThrough, At, InTask, Nodes
  <1>10. CASE TaskContextInput \/ Gap \/ TaskResearch
    BY <1>6, <1>10 DEF TaskContextInput, Gap, TaskResearch, At, InTask, Nodes
  <1>11. CASE Critique
    BY <1>6, <1>11, RoutesInNodes DEF Critique, At, InTask, Nodes
  <1>12. CASE Worker
    <2>1. /\ node = "worker" /\ node' = "critique" /\ ~skipped'
          /\ UNCHANGED <<index, reentries, completed, current>>
      BY <1>12 DEF Worker, At, Clean
    <2>2. CASE WorkerIdle
      <3>1. Pace' /\ Done' = Done /\ current' = NoTask
        BY <1>4, <2>1, <2>2 DEF WorkerIdle, Done
      <3> QED
        BY <1>1, <2>1, <3>1 DEF Paced, InTask, Nodes
    <2>3. CASE WorkerStorageError
      BY <2>1, <2>3, Zenon DEF WorkerStorageError
    <2>4. CASE WorkerRuns
      <3>1. current \in Ids /\ current # NoTask /\ ~completed
        BY <2>1, <2>4 DEF WorkerRuns, TypeOK, Completion, CompletedAtEnd
      <3>2. results[current] \in {"none", "done"}
        BY <2>1, <3>1 DEF Selected, TypeOK
      <3>3. results'[current] = "done"
        <4>1. results'[current] \in {"done", "failed"}
          BY <2>4, <3>1 DEF WorkerRuns, Outcomes, TypeOK
        <4> QED
          BY <1>1, <2>1, <3>1, <4>1 DEF DependenciesFirst, InTask, Nodes, Clean
      <3>4. CASE results' = results
        BY <1>1, <1>4, <2>1, <3>1, <3>3, <3>4 DEF Paced, Done
      <3>5. CASE results' # results
        <4>1. /\ results[current] = "none" => Cardinality(Done') = Cardinality(Done) + 1
              /\ Cardinality(Done') >= Cardinality(Done) /\ Cardinality(Done') \in Nat
          BY <3>2, <3>5, DoneGrows
        <4>3. index + 1 <= Cardinality(Done') + reentries
          <5>1. CASE results[current] = "none"
            BY <1>2, <1>3, <3>1, <4>1, <5>1 DEF TypeOK
          <5>2. CASE results[current] = "done"
            BY <1>1, <1>2, <2>1, <3>1, <4>1, <5>2 DEF Paced, TypeOK
          <5> QED
            BY <3>2, <5>1, <5>2
        <4> QED
          BY <2>1, <3>1, <3>3, <4>1, <4>3 DEF Paced, TypeOK
      <3> QED
        BY <3>4, <3>5
    <2> QED
      BY <1>12, <2>2, <2>3, <2>4 DEF Worker
  <1>13. CASE Progress
    <2>1. /\ node = "progress" /\ index' = index + 1 /\ node' \in {"end", "budget_check"}
          /\ UNCHANGED <<results, reentries, current>>
      BY <1>13, RoutesInNodes DEF Progress, NextIndex, At
    <2>2. Done' = Done
      BY <2>1 DEF Done
    <2>3. CASE current # NoTask
      <3>1. index + 1 <= Cardinality(Done) + reentries
        BY <1>1, <2>1, <2>3 DEF Paced
      <3>2. Pace'
        BY <1>2, <2>1, <2>2, <3>1 DEF TypeOK
      <3> QED
        BY <1>5, <2>1, <3>2 DEF InTask
    <2>4. CASE current = NoTask
      <3>1. completed' /\ ~completed
        <4>1. plan.tasks \subseteq Done
          BY <1>1, <2>1, <2>4 DEF Paced, InTask, Nodes
        <4>2. Done \subseteq plan.tasks
          BY DEF Done, Completion, ResultsOfPlan
        <4>3. PhaseComplete
          BY <1>1, <4>1, <4>2 DEF PhaseComplete, Clean
        <4>4. ~completed
          BY <2>1 DEF Completion, CompletedAtEnd
        <4> QED
          BY <1>13, <4>3, <4>4, Zenon DEF Progress
      <3>2. Pace'
        BY <1>2, <1>3, <2>1, <2>2, <3>1 DEF TypeOK
      <3> QED
        BY <1>5, <2>1, <3>2 DEF InTask
    <2> QED
      BY <2>3, <2>4
  <1>14. CASE BudgetInterrupt \/ LimitReached \/ UNCHANGED vars
    <2>1. UNCHANGED <<index, results, reentries, completed, current, node, plan>>
      BY <1>14 DEF BudgetInterrupt, LimitReached, planVars, vars
    <2> QED
      BY <1>1, <2>1 DEF Paced, Done
  <1>15. CASE IncreaseBudget \/ AcceptResults \/ CancelWorkflow
    <2>1. /\ UNCHANGED <<index, results, reentries, completed, current>> /\ prompt = "budget"
          /\ node' = AfterAnswer /\ skipped' = (skipped \/ node = "worker")
      BY <1>15 DEF IncreaseBudget, AcceptResults, CancelWorkflow, Resume
    <2>2. node # "worker"
      BY <2>1, Zenon DEF Clean
    <2>3. CASE node = "critique"
      BY <1>6, <2>1, <2>3, AnswerPlaces, RoutesInNodes DEF InTask, Nodes
    <2>4. CASE node \in {"gap", "task_research"}
      BY <1>6, <2>1, <2>4, AnswerPlaces DEF InTask, Nodes
    <2>5. CASE node = "budget_check"
      BY <1>4, <1>5, <2>1, <2>5, AnswerPlaces DEF InTask, Nodes
    <2> QED
      BY <2>1, <2>2, <2>3, <2>4, <2>5 DEF Control, PromptPlace
  <1>16. CASE AnswerTaskContext
    BY <1>6, <1>16 DEF AnswerTaskContext, Control, PromptPlace, InTask, Nodes
  <1>17. CASE Reenter
    <2>1. /\ node' = "budget_check" /\ UNCHANGED <<index, results>>
          /\ reentries' = reentries + 1
      BY <1>17 DEF Reenter
    <2>2. Done' = Done
      BY <2>1 DEF Done
    <2>3. index <= Cardinality(Done) + reentries + 1
      BY <1>2, <1>3 DEF TypeOK
    <2>4. Pace'
      BY <1>2, <2>1, <2>2, <2>3 DEF TypeOK
    <2> QED
      BY <1>5, <2>1, <2>4 DEF InTask
  <1> QED
    BY <1>7, <1>8, <1>9, <1>10, <1>11, <1>12, <1>13, <1>14, <1>15, <1>16, <1>17
       DEF Next, NodeStep, UserStep, Ended

LEMMA StepEndHasReason ==
  ASSUME TypeOK, Control, Completion, Paced, EndHasReason, reentries <= MaxReentries,
         EnoughCycles, [Next]_vars
  PROVE  EndHasReason' /\ reentries' <= MaxReentries
  <1> USE DEF loopVars, taskVars, userVars, selectVars, planVars, budgetVars
  <1>1. reentries' <= MaxReentries
    <2>1. CASE Reenter
      BY <2>1, ConstantsAssumption DEF Reenter, TypeOK, ConstantsAssumption
    <2>2. CASE UNCHANGED reentries
      BY <2>2
    <2>3. UNCHANGED reentries \/ Reenter
      BY DEF Next, NodeStep, UserStep, Ended, BudgetCheck, TaskSelector,
         FetchContext, TaskContextInput, Gap, TaskResearch, ToolPlan, Dispatch, PassThrough,
         Worker, Critique, Progress, BudgetInterrupt, IncreaseBudget,
         AcceptResults, CancelWorkflow, Resume, AnswerTaskContext, LimitReached, vars
    <2> QED
      BY <2>1, <2>2, <2>3
  <1>2. SUFFICES EndHasReason'
    BY <1>1
  <1>3. CASE node' # "end"
    BY <1>3 DEF EndHasReason
  <1>4. CASE UNCHANGED vars
    BY <1>4 DEF vars, EndHasReason
  <1>5. CASE BudgetCheck
    <2>1. node' = RouteAfterBudget(status, remaining) /\ UNCHANGED <<status, remaining>>
      BY <1>5 DEF BudgetCheck
    <2> QED
      BY <2>1 DEF RouteAfterBudget, EndHasReason
  <1>6. CASE Progress
    <2>1. /\ node' = RouteAfterProgress(allComplete', breaker', index') /\ index' = index + 1
          /\ node = "progress"
          /\ UNCHANGED <<status, remaining, blocked, skipped, plan, results, current>>
      BY <1>6 DEF Progress, NextIndex, At
    <2>2. SUFFICES ASSUME node' = "end", ~completed', status # "budget_exhausted", ~breaker',
                          ~blocked, ~skipped, plan.tasks # {},
                          \A t \in plan.tasks : results[t] # "failed"
                   PROVE  FALSE
      BY <2>1 DEF EndHasReason
    <2>3. ~completed /\ ~allComplete'
      BY <1>6, <2>2, Zenon DEF Progress
    <2>4. index + 1 >= MaxLoop
      BY <2>1, <2>2, <2>3 DEF RouteAfterProgress
    <2>5. Clean
      BY <2>2 DEF Clean
    <2>6. CASE current # NoTask
      <3>1. index + 1 <= Cardinality(Done) + reentries
        BY <2>1, <2>5, <2>6 DEF Paced
      <3>2. Cardinality(Done) + reentries < MaxLoop
        BY DoneFinite, ConstantsAssumption DEF EnoughCycles, TypeOK, ConstantsAssumption
      <3> QED
        BY <2>4, <3>1, <3>2, DoneFinite, ConstantsAssumption DEF TypeOK, ConstantsAssumption
    <2>7. CASE current = NoTask
      <3>1. plan.tasks \subseteq Done
        BY <2>1, <2>5, <2>7 DEF Paced, InTask, Nodes
      <3>2. Done \subseteq plan.tasks
        BY DEF Done, Completion, ResultsOfPlan, EnoughCycles
      <3>3. PhaseComplete
        BY <2>2, <3>1, <3>2 DEF PhaseComplete
      <3> QED
        BY <1>6, <2>3, <3>3, Zenon DEF Progress
    <2> QED
      BY <2>6, <2>7
  <1>7. CASE IncreaseBudget \/ AcceptResults \/ CancelWorkflow
    <2>1. prompt = "budget" /\ node' = AfterAnswer
      BY <1>7 DEF IncreaseBudget, AcceptResults, CancelWorkflow, Resume
    <2>2. CASE node = "budget_check"
      <3>1. node' = RouteAfterBudget(status', remaining')
        BY <2>1, <2>2 DEF AfterAnswer
      <3> QED
        BY <3>1 DEF RouteAfterBudget, EndHasReason
    <2>3. CASE node # "budget_check"
      BY <1>3, <2>1, <2>3, AnswerPlaces, RoutesInNodes DEF Control, PromptPlace
    <2> QED
      BY <2>2, <2>3
  <1>8. CASE TaskSelector \/ FetchContext \/ TaskContextInput \/ Gap \/ TaskResearch
             \/ ToolPlan \/ Dispatch \/ Worker \/ Critique
    BY <1>3, <1>8, RoutesInNodes DEF TaskSelector, FetchContext, TaskContextInput, Gap,
       TaskResearch, ToolPlan, Dispatch, Worker, Critique, PassThrough, At
  <1>9. CASE BudgetInterrupt \/ LimitReached \/ AnswerTaskContext \/ Reenter
    BY <1>3, <1>9 DEF BudgetInterrupt, LimitReached, AnswerTaskContext, Reenter, Control,
       PromptPlace
  <1> QED
    BY <1>4, <1>5, <1>6, <1>7, <1>8, <1>9 DEF Next, NodeStep, UserStep, Ended

LEMMA StepReasons ==
  ASSUME TypeOK, Control, DependenciesFirst, Completion, Reasons, EnoughCycles, [Next]_vars
  PROVE  Reasons'
  BY StepSelected, StepPaced, StepEndHasReason DEF Reasons, EnoughCycles

\* When the phase ends without being complete, the user can be told why: with more cycles
\* than tasks and entries the bound on the cycles is never what stopped it (ProgressNode,
\* _route_after_progress, MAX_TASK_LOOP_ITERATIONS).
THEOREM EndsForReason == EnoughCycles /\ Spec => []EndHasReason
  <1> SUFFICES ASSUME EnoughCycles PROVE Spec => []EndHasReason
    OBVIOUS
  <1>1. Init => Control /\ Completion /\ Reasons
    <2>1. ASSUME Init PROVE Control /\ Completion
      BY <2>1 DEF Init, Control, PromptPlace, ReviewCount, MAX_CRITIQUE_ITERATIONS, Completion,
         ResultsOfPlan, CompletedAtEnd, CompletedMeansDone
    <2>2. ASSUME Init PROVE Reasons
      <3>1. TypeOK
        BY <2>2, InitTypeOK
      <3>2. Cardinality(Done) \in Nat /\ MaxReentries \in Nat
        BY <3>1, DoneFinite, ConstantsAssumption DEF ConstantsAssumption
      <3> QED
        BY <2>2, <3>2 DEF Init, Reasons, Selected, Paced, EndHasReason, InTask, Nodes
    <2> QED
      BY <2>1, <2>2
  <1>2. TypeOK /\ Control /\ DependenciesFirst /\ Completion /\ Reasons /\ [Next]_vars
          => Reasons'
    BY StepReasons
  <1>3. Reasons => EndHasReason
    BY DEF Reasons
  <1> QED
    BY <1>1, <1>2, <1>3, StepControl, StepCompletion, OrderKept, TypeCorrect, PTL
       DEF Spec

=============================================================================
