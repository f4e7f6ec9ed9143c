CONSTANTS
  Conns = {c1, c2}
  NoConn = NoConn
  Params = {p1}
  NoParams = NoParams
  BadOrigin = {}
  NotServed = {}
  NoSettings = NoSettings
  Configs <- MixedConfigs
  Cmds = {k1, k2}
  TimerTasks = {t1}
  AppThreads = {a1}
  NoCmd = NoCmd
  MaxRequests = 3
SYMMETRY Symmetry
SPECIFICATION Spec
INVARIANTS OneCommand ReleasedHoldsNothing ResponseOrder SelectionLedger
CHECK_DEADLOCK FALSE
