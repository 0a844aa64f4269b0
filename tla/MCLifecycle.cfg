CONSTANTS
  BlindLimit = 2
  BlindMax = 3
  MaxFaults = 3
SPECIFICATION FairSpec
INVARIANTS
  TypeOK
  RunsOnAConfiguredRadio
  TapCarriesOurAddress
  SlotIsReleased
  HealthIsTheSessions
PROPERTIES
  StopReturns
  BlindnessEnds
