------------------------------ MODULE PlanPhases ------------------------------
(***************************************************************************)
(* The five phases of the plan workflow and their order (PlanPhase and        *)
(* CASCADE_MAP of flows/v3/state/plan_state.py).                              *)
(***************************************************************************)
EXTENDS Naturals

Phases == {"context", "research", "planning", "orchestrate", "assembly"}

Position == [context |-> 1, research |-> 2, planning |-> 3, orchestrate |-> 4, assembly |-> 5]

Before(p) == {q \in Phases : Position[q] < Position[p]}

\* The phase and its entry in CASCADE_MAP.
From(p) == {q \in Phases : Position[q] >= Position[p]}

Follows(p, q) == Position[q] = Position[p] + 1

=============================================================================
