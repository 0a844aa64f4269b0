CONSTANTS
  n1 = n1
  n2 = n2
  n3 = n3
  n4 = n4
  Node = {n1, n2, n3, n4}
  None = None
  Target <- KiteMetrics
  Decline = 1
  Floored = {n1, n4}
  Tenure <- NoTenure
  Hears <- Kite
  Hops <- HopsOfKite
  MaxStops = 1
  Timing <- Beat
  Slots = 1
  AwUs = 2
  TuUs = 1
  Keep = 1
  Recent = 1
  Confirm = 2
  Trusted = 1
  HostMod = 4096
  MaxPlausible = 4
  MaxAdopters = 0
  DistanceMax = 6
SPECIFICATION FairSpec
INVARIANTS TypeOK PriceIsTheMasters FollowingGoesUp DistanceIsHonest
PROPERTY Converges
