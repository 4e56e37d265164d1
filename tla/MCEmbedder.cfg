SPECIFICATION FairSpec
CONSTANTS
  N = 5
  MAX_OOM_RETRIES = 2
INVARIANTS NoVectorTwice
PROPERTIES LagIsTimeouts EmbedderEnds
