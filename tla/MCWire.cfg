INIT WsInit
NEXT WsNext
CONSTANTS
  Base = 32
  None = None
  Err = Err
  Cut = Cut
  Empty = Empty
  BadUtf8 = BadUtf8
  a = a
  b = b
  set = set
  long = long
  LongNames = {long}
  LongAfter = {long}
  MaxDepth = 2
  MaxItems = 3
  MaxLevel = 10
  ReasonCode = ReasonCode
  LastApplErr = LastApplErr
  MaxDetailBits = 8
  DayMs = 10
  Epoch1984 = 20
  SelectorMax = 16
  ConnectUserDataMax = 190
  MinPduSize = 64
  MaxPduSize = 500
  MaxOutstanding = 5
  DefaultLevel = 6
  GooseDepth = 2
  MaxAsdus = 2
  UnknownTags = {158, 190}
  Texts = {a, b}
  Messages <- MCMessages
  NoVlan = NoVlan
  BadFrame = BadFrame
  LengthMax = 900
  SvIds = {a, b}
  SvDataSets = {None, set}
  SvFrameMax = 110
  DestCheck = TRUE
  SvTransit = 2
  CntMax = 9
  Second = 10
  Period = 3
  Samples <- MCSamples
  Times <- MCTimes
  Identities <- MCTimes
  SvConfs <- MCSvConfs
  SvComm <- MCSvComm
  SvScenarios <- MCSvScenarios
  c1 = c1
  c2 = c2
  RpConns = {c1, c2}
  Attributes = {"x", "q", "y", "t", "w"}
  ReasonOf <- MCReasonOf
  RpDataSets <- MCRpDataSets
  Unqualified <- MCUnqualified
  Length <- MCLength
  ValueLen <- MCValueLen
  Reference <- MCReference
  ChannelCap = 2
  SqNums = 4
  ConfRevs = 256
  SubSeqMax = 65535
  RpScenarios <- MCRpScenarios
INVARIANTS RoundTrip NeverMisread BufferIsEncoding CountsAreExact StreamInOrder DecodedIsEncoded QuietIsCurrent
PROPERTIES FinishedIsConfigured
CHECK_DEADLOCK FALSE
