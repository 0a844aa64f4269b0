------------------------------ MODULE Cluster -------------------------------
(***************************************************************************)
(* What a node has learned about the cluster around it: the Cluster of     *)
(* crates/tlink/src/follow.rs and the step of the session loop that feeds  *)
(* it one received AWDL frame.                                             *)
(*                                                                         *)
(* A cluster is a value, and the operators are the parts of observe_at in  *)
(* the order of the code.  ClusterTracker drives one cluster with every    *)
(* frame the air may carry; Mesh gives one to every node.                  *)
(*                                                                         *)
(* A frame is                                                              *)
(*   [src        the transmitter,                                          *)
(*    elect      its Election Parameters v2, or None:                      *)
(*               [master, master_metric, self_metric, distance,            *)
(*                master_counter],                                         *)
(*    sync       its Synchronization Parameters:                           *)
(*               [arrived_us, counter, remaining_tu, presence_mode,        *)
(*                phy_tx_time, channels], channels a schedule or None,     *)
(*    chanseq    the OpClass schedule of tag 18, or None].                 *)
(* A schedule maps a slot to a channel, 0 where the sender is absent.      *)
(*                                                                         *)
(* The statistics (adoption frame counts, master_changes) are left out.    *)
(* The "of" fields are history: the node a value was taken from.           *)
(***************************************************************************)
EXTENDS ClusterClock

CONSTANTS
  Node,          \* 48-bit addresses
  None,          \* Option::None
  MaxPlausible,  \* MAX_PLAUSIBLE_DISTANCE (32)
  MaxAdopters,   \* MAX_ADOPTERS (256)
  DistanceMax    \* u32::MAX, where saturating_add stops

ASSUME ClusterAssumption ==
  /\ None \notin Node
  /\ MaxPlausible \in Nat
  /\ MaxAdopters \in Nat
  /\ DistanceMax \in Nat /\ MaxPlausible < DistanceMax

-----------------------------------------------------------------------------
NoSchedule == [of |-> None, slots |-> {}, channels |-> <<>>]

(* Cluster::for_us: nothing heard.  Default leaves presence_mode 0.        *)
NewCluster ==
  [master |-> None, master_metric |-> None, schedule |-> NoSchedule,
   adopters |-> {}, root |-> None, relay_parent |-> None, master_counter |-> None,
   follow_distance |-> None, last_master_aw |-> None, clock |-> NewClock(0)]

(* Mutant: slots counted from one.                                         *)
ScheduleFromOne(node, channels) ==
  [of |-> node, slots |-> {i + 1 : i \in {j \in DOMAIN channels : channels[j] # 0}},
   channels |-> channels]

(* The slots a schedule occupies, and the channel of each.                 *)
ScheduleOf(node, channels) ==
  [of |-> node, slots |-> {i \in DOMAIN channels : channels[i] # 0},
   channels |-> channels]

-----------------------------------------------------------------------------
(* A peer that names us master is an outcome, not a cluster to follow:     *)
(* remembered, up to MaxAdopters addresses, and nothing else.              *)
(* Mutant: without the cap.                                                *)
CountEveryAdopter(c, src) == [c EXCEPT !.adopters = @ \cup {src}]

CountAdopter(c, src) ==
  IF src \in c.adopters \/ Cardinality(c.adopters) < MaxAdopters
  THEN [c EXCEPT !.adopters = @ \cup {src}]
  ELSE c

(* Mutant: the metric is the sender's own.                                 *)
ClaimedIsSenders(e, src) == e.self_metric

Plausible(e) == e.distance <= MaxPlausible

(* The metric the frame claims for the master it names.                    *)
Claimed(e, src) == IF e.master = src THEN e.self_metric ELSE e.master_metric

(* Mutants: an equal metric displaces; any claim displaces.                *)
SwitchesOnEqual(c, e, src) ==
  \/ c.master = None
  \/ c.master = e.master
  \/ c.master_metric = None
  \/ Claimed(e, src) >= c.master_metric
SwitchesAlways(c, e, src) == TRUE

(* A known master yields only to a strictly better claim.                  *)
Switches(c, e, src) ==
  \/ c.master = None
  \/ c.master = e.master
  \/ c.master_metric = None
  \/ Claimed(e, src) > c.master_metric

(* Mutant: the switch forgets to reset the clock.                          *)
ForgetKeepsClock(c) == [c EXCEPT !.schedule = NoSchedule, !.last_master_aw = None]
ForgetKeepsAw(c) == [c EXCEPT !.clock = ClockReset(@), !.schedule = NoSchedule]

(* Another cluster's timeline: every anchor held is meaningless.           *)
ForgetTimeline(c) ==
  [c EXCEPT !.clock = ClockReset(@), !.schedule = NoSchedule, !.last_master_aw = None]

(* A claim of 0 leaves the stored metric as it is.                         *)
NameMaster(c, e, src) ==
  [c EXCEPT !.master = e.master,
            !.master_metric = IF Claimed(e, src) = 0 THEN @ ELSE Claimed(e, src)]

Adopt(c, e, src) ==
  IF ~(Switches(c, e, src) /\ Plausible(e)) THEN c
  ELSE NameMaster(IF c.master = e.master THEN c ELSE ForgetTimeline(c), e, src)

(* Mutant: the distance is passed on as it was heard.                      *)
RelayedAsHeard(e) == e.distance

Relayed(e) == IF e.distance >= DistanceMax THEN DistanceMax ELSE e.distance + 1

(* Mutants: relay data is taken from any frame, or without the distance    *)
(* test.                                                                   *)
RelayAnything(c, e, src) ==
  [c EXCEPT !.root = e.master, !.relay_parent = src,
            !.master_counter = e.master_counter, !.follow_distance = Relayed(e)]
RelayImplausible(c, e, src) ==
  IF c.master = e.master THEN RelayAnything(c, e, src) ELSE c

(* What we would relay, from the latest frame that names our master.       *)
Relay(c, e, src) ==
  IF c.master = e.master /\ Plausible(e)
  THEN [c EXCEPT !.root = e.master, !.relay_parent = src,
                 !.master_counter = e.master_counter, !.follow_distance = Relayed(e)]
  ELSE c

SightingOf(f) ==
  [of |-> f.src, arrived_us |-> f.sync.arrived_us, counter |-> f.sync.counter,
   remaining_tu |-> f.sync.remaining_tu, presence_mode |-> f.sync.presence_mode,
   phy_tx_time |-> f.sync.phy_tx_time]

(* Mutant: every frame anchors the clock.                                  *)
AnchorAnyone(c, f) ==
  [c EXCEPT !.schedule = IF f.sync.channels = None THEN @
                         ELSE ScheduleOf(f.src, f.sync.channels),
            !.last_master_aw = [of |-> f.src, counter |-> f.sync.counter,
                                at |-> f.sync.arrived_us],
            !.clock = ClockObserve(@, SightingOf(f))]

(* Only the master's own frames anchor the clock and its schedule.         *)
Anchor(c, f) ==
  IF c.master # f.src THEN c
  ELSE [c EXCEPT !.schedule = IF f.sync.channels = None THEN @
                              ELSE ScheduleOf(f.src, f.sync.channels),
                 !.last_master_aw = [of |-> f.src, counter |-> f.sync.counter,
                                     at |-> f.sync.arrived_us],
                 !.clock = ClockObserve(@, SightingOf(f))]

(* Cluster::observe_at.                                                    *)
NamesUs(self, f) == f.elect # None /\ f.elect.master = self

Elect(c, f) ==
  IF f.elect = None THEN c ELSE Relay(Adopt(c, f.elect, f.src), f.elect, f.src)

(* Mutant: a peer naming us is a cluster like any other.                   *)
ObserveAnyMaster(c, self, f) == Anchor(Elect(c, f), f)

ObserveAt(c, self, f) ==
  IF NamesUs(self, f) THEN CountAdopter(c, f.src) ELSE Anchor(Elect(c, f), f)

-----------------------------------------------------------------------------
(* The session prefers the master's OpClass schedule over the one in its   *)
(* Sync Params: set_master_channels.                                       *)
PreferOpClass(c, f) ==
  IF c.master = f.src /\ f.chanseq # None
  THEN [c EXCEPT !.schedule = ScheduleOf(f.src, f.chanseq)]
  ELSE c

(* One AWDL frame through the session loop; our own echoes are skipped.    *)
HearFrame(c, self, f) ==
  IF f.src = self THEN c ELSE PreferOpClass(ObserveAt(c, self, f), f)

-----------------------------------------------------------------------------
(* What the session reads from a cluster.                                  *)

(* projected_master_counter, for the counter width of the caller.          *)
ProjectedCounter(c, now, width) ==
  (c.last_master_aw.counter + SatSub(now, c.last_master_aw.at) \div AwUs) % width

InMasterWindow(c, now) ==
  HasPhase(c.clock) /\ SlotAt(c.clock, now) \in c.schedule.slots

(* us_until_master_window: 0 inside a window of the master's, else the     *)
(* nearest centre of one; None without an estimate or a schedule.          *)
UsUntilMasterWindow(c, now) ==
  IF ~IsUsable(c.clock) \/ c.schedule.slots = {} THEN None
  ELSE IF InMasterWindow(c, now) THEN 0
  ELSE LET waits == {UsUntilSlotCentre(c.clock, now, s) : s \in c.schedule.slots}
       IN  CHOOSE w \in waits : \A v \in waits : w <= v

(* A master adopted and no usable clock: what BLIND_SECS measures.         *)
IsBlind(c) == c.master # None /\ ~IsUsable(c.clock)
=============================================================================
