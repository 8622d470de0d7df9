CONSTANTS
  a1 = a1
  main = main
  t1 = t1
  None = None
  Actors <- OneActor
  Clients <- MainAndOne
  Timers <- OneTimer
  Stoppable <- OneActor
  ClientKinds <- BothKinds
  Passes <- OwnOnly
  MaxSends <- Twice
CHECK_DEADLOCK FALSE
SPECIFICATION FairTimerSpec
PROPERTY DroppedTimerStillFires
