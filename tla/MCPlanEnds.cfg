SPECIFICATION FairSpec
CONSTANTS
  t1 = t1
  t2 = t2
  Tasks = {t1, t2}
  MaxNavigations = 0
  MaxRounds = 1
PROPERTIES ResultsKept PlanEnds
