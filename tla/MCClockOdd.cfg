CONSTANTS
  Slots = 4
  AwUs = 4
  TuUs = 1
  Keep = 6
  Recent = 2
  Confirm = 3
  Trusted = 2
  HostMod = 4096
  Master = m
  PresenceModes <- Modes4
  CounterMod = 32
  PhyMod = 128
  Stamping = {TRUE}
  ReportsLeft = FALSE
  Start = 70
  Horizon = 72
  Origins = {3, 21, 37}
  TsfEpochs = {5, 30}
  Lateness = {}
  OddSteps = {9}
  MaxGlitches = 2
  MaxAnchors = 0
SPECIFICATION Spec
PROPERTY OddCounterDoesNotThrowPhase
CHECK_DEADLOCK FALSE
