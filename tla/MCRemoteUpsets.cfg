CONSTANTS
  p = p
  q = q
  a = a
  b = b
  Ping = Ping
  Ping2 = Ping2
  Reject = Reject
  None = None
  NoType = NoType
  Procs <- Two
  Actors <- BothNames
  Types <- AllTypes
  Names = {"Ping", "Reject"}
  NameOf <- NamedAlike
  Readable <- OnlyItself
  AtStart <- NothingYet
  Later <- AllLater
  Home <- OnlyA
  Listed <- OnlyA
  Targets <- AToA
  Onward <- Nothing
  MaxFrames = 2
  MaxStarts = 2
  MaxUpsets = 2
CHECK_DEADLOCK FALSE
SPECIFICATION RemoteSpec
INVARIANTS
  OneMessageAfterStop
  TakenDownForACause
PROPERTY
  PoisonIsForLife
