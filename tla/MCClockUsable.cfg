CONSTANTS
  Slots = 4
  AwUs = 4
  TuUs = 1
  Keep = 2
  Recent = 2
  Confirm = 3
  Trusted = 2
  HostMod = 4096
  Master = m
  PresenceModes <- Modes12
  CounterMod = 16
  PhyMod = 64
  Stamping = {FALSE}
  ReportsLeft = TRUE
  Start = 33
  Horizon = 35
  Origins = {0, 9, 21}
  TsfEpochs = {0}
  Lateness = {1, 9, 15}
  OddSteps = {1, 5}
  MaxGlitches = 3
  MaxAnchors = 1
SPECIFICATION Spec
INVARIANT UsableIsTrusted
CHECK_DEADLOCK FALSE
