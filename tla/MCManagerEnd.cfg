CONSTANTS
  a1 = a1
  a2 = a2
  main = main
  None = None
  Actors <- TwoActors
  Clients <- OnlyMain
  Stoppable <- Nobody
  ClientKinds <- AllKinds
  Passes <- OwnOnly
  MaxSends <- Mixed
  Main <- main
  Names = {"x"}
  MaxCalls = 3
CHECK_DEADLOCK FALSE
SPECIFICATION FairManagerSpec
PROPERTY WaitReturns
