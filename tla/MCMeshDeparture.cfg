CONSTANTS
  n1 = n1
  n2 = n2
  n3 = n3
  n4 = n4
  Node = {n1, n2, n3}
  None = None
  Target <- Metrics
  Decline = 1
  Floored = {}
  Tenure <- NoTenure
  Hears <- Everyone
  Hops <- HopsOfEveryone
  MaxStops = 1
  Timing <- Beat
  Slots = 1
  AwUs = 2
  TuUs = 1
  Keep = 1
  Recent = 1
  Confirm = 2
  Trusted = 1
  HostMod = 4096
  MaxPlausible = 3
  MaxAdopters = 0
  DistanceMax = 5
SPECIFICATION FairSpec
PROPERTY ConvergesOnTheLiving
