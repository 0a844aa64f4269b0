CONSTANTS
  Modes <- ShimOnly
  Slots = 2
  SlotTicks = 3
  OwnSlots = {0}
  Home = 149
  Away = 6
  Views <- AllViews
  Phases = {1}
  BeaconGap = 2
  SlotGap = 1
  Liveness = 5
  PeerAwake = 1
  Throttle = 1
  Second = 8
  Nap = 1
  LockNap = 1
  PsfNap = 2
  QueueMax = 2
  Batch = 2
  PerWindow = 2
  DataRepeat = 1
  AckRepeat = 3
  SmallBurst = 1
  Allowance = 2
  AckLoops = 2
  SeqMod = 3
  TunMax = 1
  MaxLag = 1
SPECIFICATION Spec
INVARIANT SetupIsRepeated
