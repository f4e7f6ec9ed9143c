SPECIFICATION BrSpec
CONSTANTS
  c1 = c1
  c2 = c2
  ip1 = ip1
  ip2 = ip2
  Conns = {c1}
  NoConn = NoConn
  NoIp = NoIp
  IpOf <- IpOfConst
  ClientReservation = NoIp
  Requests = {"EntryID", "PurgeBuf", "BufTm", "Enable", "Disable"}
  Capacity = 2
  Strategy = "DropOldest"
  ChannelCap = 1
  Segments = {0, 1}
  MaxEvents = 2
INVARIANTS NothingFromBeforePurge SentInOrder
