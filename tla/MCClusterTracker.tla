-------------------------- MODULE MCClusterTracker --------------------------
(* Three peers, two of them candidates for master, and frames of every     *)
(* kind the tracker distinguishes: naming a peer, a third node or us;      *)
(* claims of 0, equal, better and worse; near, far and implausible; with   *)
(* and without a TSF; agreeing and disagreeing in phase.                   *)
EXTENDS ClusterTracker

CONSTANTS a, b, c, u

Peers == {a, b, c}
Awake0 == [i \in 0..(Slots - 1) |-> IF i = 0 THEN 6 ELSE 0]
AwakeAll == [i \in 0..(Slots - 1) |-> 149]

Elections ==
  {[master |-> m, master_metric |-> claims[1], self_metric |-> claims[2],
    distance |-> d, master_counter |-> 0] :
      m \in {a, b, u}, claims \in {<<0, 0>>, <<1, 1>>, <<1, 2>>}, d \in {0, 2, 3}}

Sync(counter, phy, channels) ==
  [arrived_us |-> 8, counter |-> counter, remaining_tu |-> 2, presence_mode |-> 1,
   phy_tx_time |-> phy, channels |-> channels]
Syncs == {Sync(0, 0, Awake0), Sync(1, 0, None), Sync(0, 3, None)}

SomeFrames ==
  [src : Peers, elect : Elections \cup {None}, sync : Syncs, chanseq : {None, AwakeAll}]
=============================================================================
