CONSTANTS
  a1 = a1
  a2 = a2
  c1 = c1
  None = None
  Actors <- TwoActors
  Clients <- OneClient
  Stoppable <- OnlyA1
  ClientKinds <- UserOnly
  Passes <- AnyoneToA1
  MaxSends <- OneEach
CHECK_DEADLOCK FALSE
SPECIFICATION Spec
INVARIANT EndAfterAllMessages
