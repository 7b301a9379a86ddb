CONSTANTS
  MaxCtx <- MCMaxCtx
  MaxTime <- MCMaxTime
  MaxDelta <- MCMaxDelta
  Slack <- MCSlack
  DistinctEtas = TRUE
  MaxEpoch <- MCMaxEpoch
  MaxDocs <- MCMaxDocs
  SendDecoyTraffic = TRUE
  IsProvider = FALSE
  NowCanFail = TRUE
SPECIFICATION SchedSpec
CHECK_DEADLOCK FALSE
PROPERTY KeepsSending
