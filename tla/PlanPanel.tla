----------------------------- MODULE PlanPanel ------------------------------
(***************************************************************************)
(* The panel that shows a plan in the dashboard: a fold of the events of the      *)
(* workflow (plan_events.py) in the browser (WebSocketContext.tsx), which misses      *)
(* those sent while it is not connected and is given a snapshot of the parent        *)
(* graph's checkpoint when it reconnects (plan_dispatcher.py, planStateHydration.ts). *)
(*                                                                          *)
(* The phases are numbers in their order.  One of them has tasks; its subgraph       *)
(* keeps their results to itself until it ends.  Navigation is not modelled here.    *)
(***************************************************************************)
EXTENDS Integers, FiniteSets

CONSTANTS
  LastPhase,   \* the number of phases
  TaskPhase,   \* the phase that has tasks (orchestrate)
  PlanTasks,   \* the tasks of the plan
  MaxBreaks    \* bound of the model on lost connections, failures and revisions

ASSUME PanelAssumption == TaskPhase \in 1..LastPhase /\ LastPhase \in Nat /\ MaxBreaks \in Nat

VARIABLES
  phase,      \* the phase the workflow is in, LastPhase + 1 at the end
  step,       \* what the phase's subgraph does: entering, working, asking, closing, failed
  live,       \* the tasks in the state of the subgraph
  dagSent,    \* its dag_emitted
  saved,      \* the parent's checkpoint: phases completed, and whether it has the results
  announced,  \* plan.complete has been sent
  here,       \* the browser is connected
  known,      \* and has the id of the session, which comes with a prompt
  request,    \* its plan.reconnect, with the snapshot once that was read
  panel,      \* the panel: whether there is one, its phases, its tasks
  inSync,     \* no event was missed since the panel had the tasks
  unbroken,   \* no event was missed at all
  stale,      \* a snapshot was shown that is older than what the panel showed
  breaks      \* lost connections, failures and revisions so far

panelVars == <<phase, step, live, dagSent, saved, announced, here, known, request,
               panel, inSync, unbroken, stale, breaks>>
Server    == <<phase, step, live, dagSent, saved, announced>>

Phases   == 1..LastPhase
Finished == LastPhase + 1
NoTasks  == [t \in PlanTasks |-> "none"]
Settled  == {"done", "failed"}

Request(state, done, results, failed) == [state |-> state, done |-> done, results |-> results, failed |-> failed]
NoRequest == Request("none", 0, FALSE, FALSE)

PanelTypeOK ==
  /\ phase \in 1..Finished /\ step \in {"entering", "working", "asking", "closing", "failed"}
  /\ live \in [PlanTasks -> {"pending", "started", "revising", "approved"} \cup Settled]
  /\ saved \in [done : 0..LastPhase, results : BOOLEAN]
  /\ {dagSent, announced, here, known, inSync, unbroken, stale} \subseteq BOOLEAN
  /\ request \in [state : {"none", "asked", "read"}, done : 0..LastPhase, results : BOOLEAN, failed : BOOLEAN]
  /\ panel \in [shown  : BOOLEAN,
                phases : [Phases -> {"pending", "in_progress", "complete", "error"}],
                tasks  : [PlanTasks -> {"none", "pending", "in_progress", "critiquing", "complete", "failed"}]]
  /\ breaks \in 0..MaxBreaks

PanelInit ==
  /\ phase = 1 /\ step = "entering" /\ live = [t \in PlanTasks |-> "pending"] /\ dagSent = FALSE
  /\ saved = [done |-> 0, results |-> FALSE] /\ announced = FALSE
  /\ here = TRUE /\ known = FALSE /\ request = NoRequest
  /\ panel = [shown |-> FALSE, phases |-> [p \in Phases |-> "pending"], tasks |-> NoTasks]
  /\ inSync = FALSE /\ unbroken = TRUE /\ stale = FALSE /\ breaks = 0

Break == breaks < MaxBreaks /\ breaks' = breaks + 1

-----------------------------------------------------------------------------
(***************************************************************************)
(* What the panel does with an event.  Most are ignored while there is none.       *)
(***************************************************************************)

SetPhase(p, status) == [panel EXCEPT !.phases[p] = status]
SetTask(t, status)  == [panel EXCEPT !.tasks[t] = status]
IfShown(next)       == IF panel.shown THEN next ELSE panel

\* A prompt ends the phase that was in progress and starts its own.
OnPrompt(p) ==
  [panel EXCEPT !.shown = TRUE,
                !.phases = [q \in Phases |-> IF q = p THEN "in_progress"
                                             ELSE IF @[q] = "in_progress" /\ panel.shown THEN "complete" ELSE @[q]]]
OnEnter(p)         == IfShown(SetPhase(p, "in_progress"))
OnPhaseComplete(p) == IfShown(SetPhase(p, "complete"))
OnDag              == IfShown([panel EXCEPT !.tasks = [t \in PlanTasks |-> "pending"]])
OnTaskStart(t)     == IfShown(SetTask(t, "in_progress"))

\* Mutant: every critique counts as passed.
OnCritiqueAny(t, passed) == IfShown(SetTask(t, "complete"))

OnCritique(t, passed)       == IfShown(SetTask(t, IF passed THEN "complete" ELSE "critiquing"))
OnTaskComplete(t, approved) == IfShown(SetTask(t, IF approved THEN "complete" ELSE "failed"))
OnPlanComplete  == [panel EXCEPT !.shown = TRUE, !.phases = [p \in Phases |-> "complete"]]
OnError(p)      == [panel EXCEPT !.shown = TRUE, !.phases[p] = "error"]

\* The tasks of a snapshot: without the results of the subgraph they are all pending.
TasksSnapshot(snap) ==
  IF snap.done + 1 < TaskPhase THEN panel.tasks
  ELSE [t \in PlanTasks |-> IF ~snap.results THEN "pending" ELSE IF live[t] = "done" THEN "complete" ELSE "failed"]

\* The current phase is the first that is not complete, the last if all are.
CurrentPhase(snap) == IF snap.done = LastPhase THEN LastPhase ELSE snap.done + 1

OnState(snap) ==
  [shown  |-> TRUE,
   phases |-> [p \in Phases |-> IF p <= snap.done THEN "complete"
                                ELSE IF p = CurrentPhase(snap) THEN "in_progress" ELSE "pending"],
   tasks  |-> TasksSnapshot(snap)]

\* An event reaches a connected browser and is lost on another; one that finds no panel
\* in the middle of a phase has been missed too.
Emit(next) ==
  /\ panel' = IF here THEN next ELSE panel
  /\ unbroken' = (unbroken /\ here /\ (step = "entering" \/ next.shown))
  /\ UNCHANGED <<here, request, stale>>
Track == inSync' = (inSync /\ here)

-----------------------------------------------------------------------------
(***************************************************************************)
(* The workflow.                                                              *)
(***************************************************************************)

EnterPhase ==
  /\ phase # Finished /\ step = "entering" /\ step' = "working"
  /\ Emit(OnEnter(phase)) /\ Track
  /\ UNCHANGED <<known, phase, live, dagSent, saved, announced, breaks>>

\* A phase waits for an answer: the first one for its form before anything else.
Prompt ==
  /\ phase # Finished /\ step = "working" /\ (phase = TaskPhase => \A t \in PlanTasks : live[t] \in {"pending"} \cup Settled)
  /\ Break /\ step' = "asking" /\ Emit(OnPrompt(phase)) /\ Track /\ known' = (known \/ here)
  /\ UNCHANGED <<phase, live, dagSent, saved, announced>>

AnswerPrompt ==
  /\ step = "asking" /\ step' = "working"
  /\ UNCHANGED <<phase, live, dagSent, saved, announced, here, known, request, panel, inSync, unbroken, stale, breaks>>

InTasks == phase = TaskPhase /\ step = "working"
Running == {t \in PlanTasks : live[t] \notin {"pending"} \cup Settled}

\* The task selector sends the tasks once.
SendDag ==
  /\ InTasks /\ ~dagSent /\ dagSent' = TRUE /\ Emit(OnDag) /\ inSync' = (here /\ panel.shown)
  /\ UNCHANGED <<known, phase, step, live, saved, announced, breaks>>

StartTask(t) ==
  /\ InTasks /\ dagSent /\ Running = {} /\ live[t] = "pending"
  /\ live' = [live EXCEPT ![t] = "started"] /\ Emit(OnTaskStart(t)) /\ Track
  /\ UNCHANGED <<known, phase, step, dagSent, saved, announced, breaks>>

CritiqueTask(t, passed) ==
  /\ InTasks /\ live[t] \in {"started", "revising"}
  /\ live' = [live EXCEPT ![t] = IF passed THEN "approved" ELSE "revising"]
  /\ IF passed THEN UNCHANGED breaks ELSE Break
  /\ Emit(OnCritique(t, passed)) /\ Track
  /\ UNCHANGED <<known, phase, step, dagSent, saved, announced>>

\* A task that is not approved after its last revision has failed.
CompleteTask(t) ==
  /\ InTasks /\ live[t] \in {"approved", "revising"}
  /\ live' = [live EXCEPT ![t] = IF @ = "approved" THEN "done" ELSE "failed"]
  /\ Emit(OnTaskComplete(t, live[t] = "approved")) /\ Track
  /\ UNCHANGED <<known, phase, step, dagSent, saved, announced, breaks>>

CompletePhase ==
  /\ phase # Finished /\ step = "working"
  /\ phase = TaskPhase => dagSent /\ \A t \in PlanTasks : live[t] \in Settled
  /\ step' = "closing" /\ Emit(OnPhaseComplete(phase)) /\ Track
  /\ UNCHANGED <<known, phase, live, dagSent, saved, announced, breaks>>

\* The subgraph has ended and the parent's checkpoint takes what it did over.
SavePhase ==
  /\ step = "closing" /\ step' = "entering" /\ phase' = phase + 1
  /\ saved' = [done |-> phase, results |-> phase >= TaskPhase]
  /\ UNCHANGED <<live, dagSent, announced, here, known, request, panel, inSync, unbroken, stale, breaks>>

FailPhase ==
  /\ phase # Finished /\ step = "working" /\ Break /\ step' = "failed"
  /\ Emit(OnError(phase)) /\ Track
  /\ UNCHANGED <<known, phase, live, dagSent, saved, announced>>

\* The subgraph is entered again, with what it had.
RetryPhase ==
  /\ step = "failed" /\ step' = "entering"
  /\ UNCHANGED <<phase, live, dagSent, saved, announced, here, known, request, panel, inSync, unbroken, stale, breaks>>

AnnounceComplete ==
  /\ phase = Finished /\ ~announced /\ announced' = TRUE /\ Emit(OnPlanComplete) /\ Track
  /\ UNCHANGED <<known, phase, step, live, dagSent, saved, breaks>>

-----------------------------------------------------------------------------
(***************************************************************************)
(* The connection.                                                            *)
(***************************************************************************)

LoseConnection ==
  /\ here /\ Break /\ here' = FALSE
  /\ UNCHANGED <<Server, known, request, panel, inSync, unbroken, stale>>

\* A connected socket asks for the plan whose session it knows.
Reopen ==
  /\ ~here /\ request = NoRequest /\ here' = TRUE
  /\ request' = IF known THEN Request("asked", 0, FALSE, FALSE) ELSE NoRequest
  /\ UNCHANGED <<Server, known, panel, inSync, unbroken, stale, breaks>>

ReadSnapshot ==
  /\ request.state = "asked"
  /\ request' = Request("read", saved.done, saved.results, step = "failed")
  /\ UNCHANGED <<Server, here, known, panel, inSync, unbroken, stale, breaks>>

\* A finished plan is announced again, a failed one too; any other is shown as read.
OnSnapshot(snap) ==
  IF snap.done = LastPhase THEN OnPlanComplete
  ELSE IF snap.failed THEN OnError(snap.done + 1) ELSE OnState(snap)

\* The session row is written between the reading and the sending; a question that is
\* open at the sending comes after the snapshot.
WithPrompt(next) ==
  IF step = "asking"
  THEN [next EXCEPT !.phases = [q \in Phases |-> IF q = phase THEN "in_progress"
                                                 ELSE IF @[q] = "in_progress" THEN "complete" ELSE @[q]]]
  ELSE next
Recovered(snap) == IF snap.done < LastPhase /\ ~snap.failed THEN WithPrompt(OnSnapshot(snap)) ELSE OnSnapshot(snap)

SendSnapshot ==
  /\ request.state = "read" /\ request' = NoRequest
  /\ panel' = IF here THEN Recovered(request) ELSE panel
  /\ unbroken' = FALSE
  /\ inSync' = (here /\ request.results /\ (inSync \/ panel'.tasks = TasksSnapshot(request)))
  /\ stale' = (here /\ request.done < saved.done)
  /\ UNCHANGED <<Server, here, known, breaks>>

PanelNext ==
  \/ EnterPhase \/ Prompt \/ AnswerPrompt \/ SendDag \/ CompletePhase \/ SavePhase \/ FailPhase
  \/ RetryPhase \/ AnnounceComplete \/ LoseConnection \/ Reopen \/ ReadSnapshot \/ SendSnapshot
  \/ \E t \in PlanTasks : \/ StartTask(t) \/ CompleteTask(t)
                          \/ \E passed \in BOOLEAN : CritiqueTask(t, passed)

PanelSpec == PanelInit /\ [][PanelNext]_panelVars

-----------------------------------------------------------------------------
(***************************************************************************)
(* Properties.                                                               *)
(***************************************************************************)

Shown(status) ==
  CASE status = "pending" -> "pending" [] status = "started" -> "in_progress"
    [] status = "revising" -> "critiquing" [] status \in {"approved", "done"} -> "complete"
    [] status = "failed" -> "failed"

\* The panel shows of each task what the workflow has of it, as long as no event was
\* missed since the panel had the tasks, or since a snapshot that had their results
\* (the handlers of plan.tasks.dag, plan.task.* and plan.state in WebSocketContext.tsx).
PanelAgrees == inSync => \A t \in PlanTasks : panel.tasks[t] = Shown(live[t])

\* A panel that missed nothing shows at most one phase in progress, and as complete
\* exactly the phases before it (the handlers of plan.phase.*).
PhasesShowProgress ==
  unbroken /\ panel.shown /\ ~announced =>
    \A p \in Phases : panel.phases[p] = "complete" <=> p < phase \/ (p = phase /\ step = "closing")

\* A plan that has been announced is shown as complete on a connected panel that does
\* not wait for a snapshot, however many connections were lost before, unless a
\* snapshot came that was older than the announcement (handle_reconnect).
FinishedIsShown ==
  announced /\ here /\ known /\ request = NoRequest /\ ~stale => \A p \in Phases : panel.phases[p] = "complete"

\* What the panel shows of the plan, through lost connections and snapshots.
PanelInv == PanelTypeOK /\ PanelAgrees /\ PhasesShowProgress /\ FinishedIsShown

=============================================================================
