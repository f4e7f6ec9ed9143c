INIT MdInit
NEXT MdNext
CONSTANTS
  Base = 256
  None = None
  Err = Err
  Cut = Cut
  Empty = Empty
  BadUtf8 = BadUtf8
  LongNames = {}
  LongAfter = {}
  MaxDepth = 3
  MaxItems = 3
  MaxLevel = 10
  ReasonCode = ReasonCode
  LastApplErr = LastApplErr
  Unread = Unread
  Numerals <- MCNumerals
  Floats <- MCFloats
  Base64 <- MCBase64
  Moments <- MCMoments
  FractionUnits = 16
  MaxFractionDigits = 3
  MaxTypeNesting = 3
  MaxExpandedNodes = 40
  NamePaths <- MCNamePaths
  ParameterTypes <- MCParameterTypes
  MaxGroups = 255
  MaxInstances = 99
  MaxResvTms = 65535
  NameOrder <- MCNameOrder
  CvLd = CvLd
  CvName = CvName
  MaxDetailBits = 8
  DayMs = 10
  Epoch1984 = 20
  MaxLeaves = 100
  SecondSpan = 8
  FractionSpan = 16
  MsPerSecond = 10
  ByteSpan = 4
  ControlCases <- MCControlCases
  AddressTexts <- MCAddressTexts
  MacOctets = 2
  IpOctets = 2
  Ipv6Groups = 3
  SelectorOctets <- MCSelector
  U32Max = 659999
  U32Digits = 6
  SclDocuments <- MCSclDocuments
  DurationMax = 777
INVARIANTS CommandsUnderstood AddressFormsAgree ParsedIsDocument ValuesAreTexts BuiltIsSound CodegenAgrees
CHECK_DEADLOCK FALSE
