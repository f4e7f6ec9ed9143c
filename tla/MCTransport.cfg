CONSTANTS
  None = None
  CotpPlans <- MCPlans
  MinEncoded = 2
  MaxEncoded = 5
  Tsdus <- MCTsdus
  ForeignPackets <- MCForeign
  Nothing = Nothing
  McPlans <- MCMcPlans
  IdSpan = 8
  Pool = 2
  MaxAbandoned = 2
  LengthSpan = 9
  DefaultCalling = 2
  DefaultPduSize = 6
SPECIFICATION TpSpec
INVARIANTS CallsMatched
PROPERTIES ImplementsChannel CallsEnd
CHECK_DEADLOCK FALSE
