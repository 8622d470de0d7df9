CONSTANTS
  m1 = m1
  main = main
  x1 = x1
  w1 = w1
  w2 = w2
  None = None
  Actors <- OneMember
  Clients <- OnlyMain
  Main <- main
  Extras <- OneExtra
  Workers <- TwoWorkers
  NumWorkers = 2
  Passes <- OwnOnly
  MaxSends <- Shares
  MaxInAll = 3
CHECK_DEADLOCK FALSE
SPECIFICATION FairSpec
INVARIANTS
  GroupTypeOK
  OneWorkerPerMember
  GroupCallerIsHeld
  TakenInOrder
PROPERTIES
  PoisonedNeverRuns
  GroupCallReturnsUnlessHopeless
  WaitHeldUpByCallersOnly
