SPECIFICATION MCSpec
CONSTANTS
  RxFrames <- MCRxFrames
  TxFrames <- TxKinds
  Checks <- MCChecks
  MissedCap = 2
  SteerFrames <- MCSteerFrames
  Torques <- MCTorques
  Measures <- MCMeasures
  MaxTorque = 3
  RateUp = 1
  RateDown = 2
  MaxError = 1
  MaxRtDelta = 1
  RtInterval = 1
  TimerWrap = 4
  SampleSize = 2
  MaxAge = 3
PROPERTIES FollowsMeasured
