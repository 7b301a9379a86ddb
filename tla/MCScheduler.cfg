CONSTANTS
  MaxCtx <- MCMaxCtx
  MaxTime <- MCMaxTime
  MaxDelta <- MCMaxDelta
  Slack <- MCSlack
  DistinctEtas = TRUE
  MaxEpoch <- MCMaxEpoch
  MaxDocs <- MCMaxDocs
  SendDecoyTraffic = TRUE
  IsProvider = FALSE
  NowCanFail = FALSE
SPECIFICATION SchedSpec
CHECK_DEADLOCK FALSE
INVARIANT SchedTypeOK
 
INVARIANT NoStaleTick
INVARIANT TimerInv
PROPERTY KeepsSending
PROPERTY ExpiredEventuallySwept
PROPERTY HaltObserved
