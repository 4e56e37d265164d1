---------------------------- MODULE PlanLifecycle ----------------------------
(***************************************************************************)
(* What the plan workflow promises about its five phases, without its nodes:  *)
(* they run one after the other, only the phase that runs can be completed,   *)
(* the next one starts when it is, and only a navigation of the user changes  *)
(* that order or takes a completion back.  PlanWorkflow implements this       *)
(* specification.                                                             *)
(***************************************************************************)
EXTENDS PlanPhases

VARIABLES
  at,          \* the phase the workflow is in
  completed,   \* the phases marked complete
  outcome,     \* running, halted or finished
  moves        \* how often the user has navigated

lifecycleVars == <<at, completed, outcome, moves>>

LifecycleInit == at = "context" /\ completed = {} /\ outcome = "running" /\ moves = 0

NextPhase == at' \in Phases /\ Follows(at, at')

\* The phase is done; the next one may start in the same step.
Complete ==
  /\ outcome = "running"
  /\ completed' = completed \cup {at}
  /\ at' = at \/ NextPhase
  /\ UNCHANGED <<outcome, moves>>

\* A later phase starts only when its predecessor is complete.
Advance ==
  /\ outcome = "running" /\ at \in completed /\ NextPhase
  /\ UNCHANGED <<completed, outcome, moves>>

\* The workflow stops early: a rejection, a failure, the budget.
Halt ==
  /\ outcome = "running" /\ outcome' = "halted"
  /\ completed' \in {completed, completed \cup {at}}
  /\ UNCHANGED <<at, moves>>

\* A halted workflow is tried again, in the phase it stopped in or after it.
Resume ==
  /\ outcome = "halted" /\ outcome' = "running"
  /\ at' = at \/ (at \in completed /\ NextPhase)
  /\ UNCHANGED <<completed, moves>>

\* The plan finishes, or an approved document is taken for its end.
Finish ==
  /\ outcome # "finished" /\ outcome' = "finished"
  /\ "assembly" \in completed
  /\ UNCHANGED <<at, completed, moves>>

\* The user moves to a phase, which is open again, and so is what follows it
\* unless the phase's data have not changed.
Navigate ==
  /\ at' \in Phases
  /\ completed' \in {completed \ {at'}, completed \ From(at')}
  /\ outcome' = "running"
  /\ moves' = moves + 1

LifecycleNext == Complete \/ Advance \/ Halt \/ Resume \/ Finish \/ Navigate

Lifecycle == LifecycleInit /\ [][LifecycleNext]_lifecycleVars

=============================================================================
