SPECIFICATION FairSpec
CONSTANTS
  a = a
  b = b
  c = c
  Repos <- MCRepos
  Topologies <- MCTopologies
  Limit = 2
  MaxRetries = 1
INVARIANTS ResearchInv
PROPERTIES Terminates
