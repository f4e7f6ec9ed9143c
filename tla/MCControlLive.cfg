CONSTANTS
  Conns = {c1, c2}
  NoConn = NoConn
  Params = {p1}
  NoParams = NoParams
  BadOrigin = {}
  NotServed = {}
  NoSettings = NoSettings
  Configs <- EnhancedConfigs
  Cmds = {k1, k2}
  TimerTasks = {t1}
  AppThreads = {a1}
  NoCmd = NoCmd
  MaxRequests = 2
SPECIFICATION FairSpec
PROPERTIES ObjectIsFreed
CHECK_DEADLOCK FALSE
