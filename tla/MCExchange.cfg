CONSTANTS
  p = p
  q = q
  r = r
  None = None
  Ours = {p, q}
  Theirs = {r}
  MacOf <- Macs
  Groups <- OneGroup
  Strangers <- OneStranger
  Foreign <- FromThem
  Profiles <- Configs
  EpochOf <- Started
  Instants <- Turns
  PsfPerMif = 2
  BeaconMinGap = 60000
  CounterMod = 64
  Latency = 600
  SeqMod = 4
  AwdlMod = 8
  QueueMax = 1
  Repeat = 2
  DialogMod = 256
  RadioMax = 2
  Dialled <- Dials
  MaxHeard <- Hearing
  Earlier = 6
  Budgets <- Talk
SPECIFICATION Spec
CHECK_DEADLOCK FALSE
INVARIANTS
  TypeOK
  PacketsAreAccounted
  NothingMisdelivered
  OrderKept
  SequencesNamePackets
  ProbeHearsNothing
  LearnedIsAdvertised
  AnnouncedInItsWindow
  FollowerKeepsTheTimeline
