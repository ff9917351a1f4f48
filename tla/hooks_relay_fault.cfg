SPECIFICATION HooksSpec
CONSTANTS
  RxFrames <- MCRxFrames
  TxFrames <- TxKinds
  Checks <- MCChecks
  MissedCap = 1
PROPERTIES
  NoTorqueUnlessAllowed
