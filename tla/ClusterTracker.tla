--------------------------- MODULE ClusterTracker ---------------------------
(***************************************************************************)
(* One node tracking the cluster around it, hearing every AWDL frame the   *)
(* air may carry: peers of any metric, at any distance, naming any master  *)
(* (ourselves included), in any order, lost or repeated.  A step is one    *)
(* frame through the receive part of the session loop.                     *)
(***************************************************************************)
EXTENDS Cluster

CONSTANTS
  Self,    \* our own address
  Metric,  \* election metrics
  Frames   \* the frames the air may carry

SyncParams ==
  [arrived_us : Nat, counter : Nat, remaining_tu : Nat, presence_mode : Nat,
   phy_tx_time : Nat, channels : [0..(Slots - 1) -> Nat] \cup {None}]

Election ==
  [master : Node, master_metric : Metric, self_metric : Metric, distance : 0..DistanceMax,
   master_counter : Nat]

ASSUME TrackerAssumption ==
  /\ Self \in Node
  /\ Metric \subseteq Nat
  /\ None \notin Nat
  /\ Frames \subseteq [src : Node, elect : Election \cup {None}, sync : SyncParams,
                       chanseq : [0..(Slots - 1) -> Nat] \cup {None}]
  /\ None \notin Election
  /\ None \notin [0..(Slots - 1) -> Nat]
  /\ None \notin [of : Node, counter : Nat, at : Nat]

VARIABLE cluster

Init == cluster = NewCluster

Hear(f) == cluster' = HearFrame(cluster, Self, f)

Next == \E f \in Frames : Hear(f)

Spec == Init /\ [][Next]_cluster

-----------------------------------------------------------------------------
Samples == [of : Node, us : Nat]

ClockType ==
  [offsets : Seq(Samples), presence_mode : Nat, pending : Seq(Samples),
   align_samples : Seq(Samples)]

ScheduleType ==
  [of : Node \cup {None}, slots : SUBSET (0..(Slots - 1)),
   channels : [0..(Slots - 1) -> Nat] \cup {<<>>}]

ClusterType ==
  [master : Node \cup {None},
   master_metric : Metric \cup {None},
   schedule : ScheduleType,
   adopters : SUBSET Node,
   root : Node \cup {None},
   relay_parent : Node \cup {None},
   master_counter : Nat \cup {None},
   follow_distance : Nat \cup {None},
   last_master_aw : [of : Node, counter : Nat, at : Nat] \cup {None},
   clock : ClockType]

(* The type invariant.  (follow.rs 434-477)                                *)
TypeOK == cluster \in ClusterType

(* The nodes our timing was measured from: anchors, held outliers,         *)
(* alignment samples, the schedule and the window counter.                 *)
Sources(seq) == {seq[i].of : i \in DOMAIN seq}
ClockSources(clock) ==
  Sources(clock.offsets) \cup Sources(clock.pending) \cup Sources(clock.align_samples)
MeasuredFrom(c) ==
  UNION {ClockSources(c.clock),
         {c.schedule.of} \ {None},
         IF c.last_master_aw = None THEN {} ELSE {c.last_master_aw.of}}

(* Everything known of when and where the master is awake was measured     *)
(* from the present master, through any sequence of re-elections: two      *)
(* timelines are never pooled.  (follow.rs 545-552 and 576-584, finding 55)*)
OneTimeline == MeasuredFrom(cluster) \subseteq {cluster.master}

(* We never follow or relay ourselves, however many peers name us, at any  *)
(* distance.  (follow.rs 525-540)                                          *)
NeverOurOwnFollower ==
  Self \notin {cluster.master, cluster.root, cluster.relay_parent} \cup cluster.adopters

(* What we would relay is of the master we follow and of one frame: the    *)
(* root is the master, one hop further out than a plausible distance.      *)
(* (follow.rs 556-602, session set_follow 1184-1209)                       *)
RelayIsOfMaster ==
  IF cluster.master = None
  THEN /\ {cluster.root, cluster.relay_parent} = {None}
       /\ {cluster.master_counter, cluster.follow_distance} = {None}
  ELSE /\ cluster.root = cluster.master
       /\ cluster.relay_parent # None
       /\ cluster.master_counter # None
       /\ cluster.follow_distance \in 1..(MaxPlausible + 1)

(* A usable clock comes with a window counter to project, so a follower    *)
(* never beacons a clock of its own while it is in the master's windows.   *)
(* (follow.rs 617-624 and 665-669, session 1184-1209)                      *)
UsableHasCounter == IsUsable(cluster.clock) <=> cluster.last_master_aw # None

(* The peers remembered for adopting us never outgrow the cap.             *)
(* (follow.rs 531-538)                                                     *)
AdoptersCapped == Cardinality(cluster.adopters) <= MaxAdopters

(* A master, once known, is left only for a strictly better claim than the *)
(* one it made: equal metrics and weaker clusters never displace it.       *)
(* (follow.rs 553-575)                                                     *)
YieldsOnlyToBetter ==
  [][/\ cluster.master # None
     /\ cluster'.master # cluster.master
     /\ cluster.master_metric # None
     => /\ cluster'.master # None
        /\ cluster'.master_metric > cluster.master_metric]_cluster

(* Tracking implements allegiance: one lord at a price, evidence of no     *)
(* other, and a lord is left only for a better one.                        *)
(* (follow.rs observe_at 516-626)                                          *)
Abstract == INSTANCE Allegiance WITH
  lord <- cluster.master,
  price <- cluster.master_metric,
  evidence <- MeasuredFrom(cluster)
ImplementsAllegiance == Abstract!Spec
=============================================================================
