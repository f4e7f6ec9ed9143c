SPECIFICATION GbSpec
CONSTANTS
 A = A
 S = S
 Publishers = {A, S}
 Config <- MCConfig
 DataSets = {d1, d2}
 SubscriberConfs <- MCConfs
 Unset = Unset
 NoVlan = NoVlan
 BadFrame = BadFrame
 LengthMax = 100
 NumMax = 4
 PduSize = 20
 FrameMax = 60
 MaxTransit = 1
 GbScenarios <- MCScenarios
INVARIANTS StateAnnouncedOnce
PROPERTIES SilenceDetected
CHECK_DEADLOCK FALSE
