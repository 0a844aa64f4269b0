CONSTANTS
  a = a
  b = b
  c = c
  u = u
  Node = {a, b, c, u}
  None = None
  Self = u
  Metric = {0, 1, 2}
  Frames <- SomeFrames
  Slots = 2
  AwUs = 2
  TuUs = 1
  Keep = 1
  Recent = 2
  Confirm = 3
  Trusted = 2
  HostMod = 4096
  MaxPlausible = 2
  MaxAdopters = 2
  DistanceMax = 5
SPECIFICATION Spec
INVARIANTS
  TypeOK
  OneTimeline
  NeverOurOwnFollower
  RelayIsOfMaster
  UsableHasCounter
  AdoptersCapped
PROPERTIES
  YieldsOnlyToBetter
  ImplementsAllegiance
