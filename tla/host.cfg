SPECIFICATION FairSpec
CONSTANTS
  RxFrames <- MCRxFrames
  TxFrames <- MCTxFrames
  Checks <- MCChecks
  MissedCap = 1
  HEARTBEAT_IGNITION_CNT_ON = 5
  HEARTBEAT_IGNITION_CNT_OFF = 2
  UNUSED_LIMIT = 3
  RECENT_CONTROL = 3
  SIREN = 2
INVARIANTS
  SilentHostLosesMode
  UnusedControlsExpire
  LostMeansPassive
PROPERTIES
  LossSounds
  IsDeadManSwitch
  DeadHostEndsPassive
