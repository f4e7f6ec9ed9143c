SPECIFICATION LvSpec
CONSTANTS
  c1 = c1
  c2 = c2
  ip1 = ip1
  ip2 = ip2
  Conns = {c1, c2}
  NoConn = NoConn
  NoIp = NoIp
  IpOf <- IpOfConst
  ClientReservation = NoIp
  Requests = {"Enable", "Disable", "DatSet", "GI", "Reserve", "Release"}
  Capacity = 1
  Strategy = "DropOldest"
  ChannelCap = 1
  Segments = {2}
  MaxEvents = 3
INVARIANTS LossIsFlagged
PROPERTIES PendingIsSent
