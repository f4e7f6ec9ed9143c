INIT SdInit
NEXT SdNext
CONSTANTS
  Base = 32
  None = None
  Err = Err
  Cut = Cut
  Empty = Empty
  BadUtf8 = BadUtf8
  LongNames = {}
  MaxDepth = 8
  NoLimit = 100000
  DaScenarios <- AllScenarios
  LcbNames <- MCNames
  LogScenarios <- MCLogScenarios
  LogDataSets <- MCDataSets
  LogLeaves = {"x", "y"}
  Journals = {"j1", "j2"}
  JournalCapacity <- MCCapacity
  SgConns = {a1, a2}
  NumOfSG = 2
  Leaves = {l1}
  SgValues = {v1, v2}
  SgApp = app
  SgNone = none
SYMMETRY SgSymmetry
INVARIANTS NoTornRead ValuesConform EveryChangeLogged ReadExact EditBufferIsSession ActiveBufferLoaded
