CONSTANTS
  Slots = 4
  AwUs = 4
  TuUs = 2
  Keep = 6
  Recent = 2
  Confirm = 3
  Trusted = 2
  HostMod = 4096
  Master = m
  PresenceModes <- Modes12
  CounterMod = 8
  PhyMod = 32
  Stamping = {TRUE, FALSE}
  ReportsLeft = TRUE
  Start = 33
  Horizon = 34
  Origins = {0, 9, 21}
  TsfEpochs = {0}
  Lateness = {1, 9, 15}
  OddSteps = {1, 5}
  MaxGlitches = 2
  MaxAnchors = 1
SPECIFICATION Spec
INVARIANTS
  TypeOK
  CounterPhaseIsAligned
  RecoversOnceSettled
  CentreForgivesHalfASlot
  WaitAgreesWithSlotAt
PROPERTY JumpNeedsConfirmation
CHECK_DEADLOCK FALSE
