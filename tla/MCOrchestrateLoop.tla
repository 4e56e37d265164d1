-------------------------- MODULE MCOrchestrateLoop --------------------------
(***************************************************************************)
(* Instances of OrchestrateLoop for TLC.  Task 2 is of high priority, the    *)
(* others of medium priority, so the order of the list is not the order of   *)
(* execution.                                                                *)
(***************************************************************************)
EXTENDS OrchestrateLoop

MCPriority == [t \in Ids |-> IF t = 2 THEN 0 ELSE 1]

Plan(tasks, edges) == [tasks |-> tasks, edges |-> edges]

Chain2 == Plan({1, 2}, {<<1, 2>>})
Other2 == Plan({2, 3}, {<<2, 3>>})
Fork3  == Plan({1, 2, 3}, {<<1, 2>>, <<1, 3>>})
Join3  == Plan({1, 2, 3}, {<<1, 3>>, <<2, 3>>})
Tail3  == Plan({1, 2, 3}, {<<1, 2>>, <<2, 3>>, <<3, 2>>})

OneChain == {Chain2}

\* Three tasks: a fork, a join, and a task in front of a cycle.
ThreeTaskPlans == {Fork3, Join3, Tail3}

\* Two plans a user may approve one after the other; they share task 2.
ReplanPlans == {Chain2, Other2}

=============================================================================
