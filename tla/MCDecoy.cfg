CONSTANTS
  MaxCtx <- MCMaxCtx
  MaxTime <- MCMaxTime
  MaxDelta <- MCMaxDelta
  Slack <- MCSlack
  Bases <- MCBases
  MaxCopies <- MCMaxCopies
  DistinctEtas = FALSE
SPECIFICATION Spec
INVARIANT DecoyTypeOK
INVARIANT AcceptedAtMostOnce
INVARIANT ReplyHasToken
INVARIANT DecoyInv
PROPERTY DroppedOnlyWhenDue
