CONSTANTS
  client = client
  server = server
  asker = asker
  answerer = answerer
  Reject = "Reject"
  None = None
  NoType = NoType
  Procs <- Both
  Actors <- OnePerSide
  Types <- AllTypes
  Names <- AllTypes
  NameOf <- Itself
  Readable <- Alike
  AtStart <- Nothing
  Later <- Nothing
  Home <- ItsOwn
  Listed <- ItsOwn
  Targets <- Nothing
  Onward <- Nothing
  MaxFrames = 0
  MaxStarts = 1
  MaxUpsets = 1
CHECK_DEADLOCK FALSE
SPECIFICATION FairExamplesSpec
INVARIANTS
  PingPongInStep
  RejectPrecedesPong
  StopLosesNothing
PROPERTY ClientGetsThrough
