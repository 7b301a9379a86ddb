CONSTANTS
  MaxCtx <- MCMaxCtx
  MaxTime <- MCMaxTime
  MaxDelta <- MCMaxDelta
  Slack <- MCSlack
  DistinctEtas = FALSE
SPECIFICATION LifecycleSpec
INVARIANT StoreIndexBijection
