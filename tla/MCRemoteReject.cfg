CONSTANTS
  p = p
  q = q
  a = a
  b = b
  Ping = Ping
  Ping2 = Ping2
  Reject = Reject
  None = None
  NoType = NoType
  Procs <- Two
  Actors <- BothNames
  Types <- AllTypes
  Names = {"Ping", "Reject"}
  NameOf <- NamedAlike
  Readable <- OnlyItself
  AtStart <- TwoVersions
  Later <- Nothing
  Home <- Homes
  Listed <- OnlyA
  Targets <- PToQ
  Onward <- QToB
  MaxFrames = 2
  MaxStarts = 1
  MaxUpsets = 1
CHECK_DEADLOCK FALSE
SPECIFICATION RemoteSpec
PROPERTY RejectsWhatItCannotRead
