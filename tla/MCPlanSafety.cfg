SPECIFICATION Spec
CONSTANTS
  t1 = t1
  t2 = t2
  Tasks = {t1}
  MaxNavigations = 1
  MaxRounds = 0
INVARIANTS PlanInv PhaseOrder
PROPERTIES ImplementsLifecycle
