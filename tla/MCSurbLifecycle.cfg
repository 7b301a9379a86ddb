CONSTANTS
  MaxCtx <- MCMaxCtx
  MaxTime <- MCMaxTime
  MaxDelta <- MCMaxDelta
  Slack <- MCSlack
  DistinctEtas = TRUE
SPECIFICATION LifecycleSpec
INVARIANT TypeOK
INVARIANT StoreIndexBijection
INVARIANT BijectionInv
PROPERTY TokensRefinement
