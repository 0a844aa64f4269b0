-------------------------------- MODULE Mesh --------------------------------
(***************************************************************************)
(* A cluster of nodes that all run this code: each one tracks the others   *)
(* with a Cluster of its own and advertises what it has learned, so that   *)
(* what one node says of a master it may have from another node, which had *)
(* it from a third.                                                        *)
(*                                                                         *)
(* A frame carries what its sender knows at the moment it is sent, and a   *)
(* frame that nobody hears changes nothing: sending and hearing are one    *)
(* action, and loss is an action not taken.  Frames of one sender are not  *)
(* reordered by the medium, and all of a station's frames pass one queue.  *)
(* A node may hear only some of the others.  Sessions stop and start, and  *)
(* a new session knows nothing (Cluster::for_us).                          *)
(***************************************************************************)
EXTENDS Cluster

CONSTANTS
  Target,       \* target_metric of each node's session
  Decline,      \* METRIC_DECLINE (65), announced while the metric floor holds
  Floored,      \* the nodes started with a metric floor
  Tenure,       \* counter each node advertises as a master
  Hears,        \* pairs <<n, m>>: n is within range of m
  Hops,         \* how far apart nodes are: see MeshAssumption
  MaxStops,     \* bound on sessions that end in a behaviour
  Timing        \* the Sync Params of a frame; the same for all

(* A node is no further from a root than one hop beyond anyone it hears.   *)
ASSUME MeshAssumption ==
  /\ Target \in [Node -> Nat]
  /\ Tenure \in [Node -> Nat]
  /\ Decline \in Nat
  /\ \A n \in Node : Decline <= Target[n]
  /\ Floored \subseteq Node
  /\ Hears \subseteq Node \X Node
  /\ Hops \in [Node -> [Node -> Nat]]
  /\ \A n \in Node : Hops[n][n] = 0
  /\ \A n, k, m \in Node : <<n, k>> \in Hears => Hops[n][m] <= Hops[k][m] + 1
  /\ MaxStops \in Nat
  /\ None \notin Nat

VARIABLES
  cluster,  \* what each node has learned
  up,       \* the nodes whose session runs
  stepped,  \* the nodes that announce their target metric
  stops,    \* history: sessions ended so far
  heard     \* history: <<n, m>> when the last step was n hearing m, else <<>>

vars == <<cluster, up, stepped, stops, heard>>

-----------------------------------------------------------------------------
OrElse(option, default) == IF option = None THEN default ELSE option

Announced(n) == IF n \in stepped THEN Target[n] ELSE Decline

(* Mutant: following whoever was heard, better than us or not.             *)
FollowsAnyone(n) == cluster[n].master # None

(* set_follow: a leader is a master with a better metric than our target.  *)
Follows(n) ==
  /\ cluster[n].master # None
  /\ cluster[n].master_metric # None
  /\ cluster[n].master # n
  /\ cluster[n].master_metric > Target[n]

(* ElectionParamsV2::following and ::claiming.  The parent goes out in the *)
(* field `other', which no receiver of this code reads.                    *)
Following(n) ==
  LET c == cluster[n]
  IN  [master |-> OrElse(c.root, c.master), master_metric |-> c.master_metric,
       self_metric |-> Announced(n), distance |-> OrElse(c.follow_distance, 1),
       master_counter |-> OrElse(c.master_counter, 0)]

Claiming(n) ==
  [master |-> n, master_metric |-> Announced(n), self_metric |-> Announced(n),
   distance |-> 0, master_counter |-> Tenure[n]]

Beacon(n) ==
  [src |-> n, elect |-> IF Follows(n) THEN Following(n) ELSE Claiming(n),
   sync |-> Timing, chanseq |-> None]

(* What a node tells the others.                                           *)
Named(n) == Beacon(n).elect.master
Parent(n) == IF Follows(n) THEN OrElse(cluster[n].relay_parent, cluster[n].master) ELSE n

-----------------------------------------------------------------------------
Init ==
  /\ cluster = [n \in Node |-> NewCluster]
  /\ up = Node
  /\ stepped = Node \ Floored
  /\ stops = 0
  /\ heard = <<>>

Hear(n, m) ==
  /\ n \in up /\ m \in up
  /\ <<n, m>> \in Hears
  /\ cluster' = [cluster EXCEPT ![n] = HearFrame(@, n, Beacon(m))]
  /\ heard' = <<n, m>>
  /\ UNCHANGED <<up, stepped, stops>>

(* The metric floor is lifted, once.                                       *)
Step(n) ==
  /\ n \in up \ stepped
  /\ stepped' = stepped \cup {n}
  /\ heard' = <<>>
  /\ UNCHANGED <<cluster, up, stops>>

Stop(n) ==
  /\ n \in up
  /\ stops < MaxStops
  /\ up' = up \ {n}
  /\ stops' = stops + 1
  /\ heard' = <<>>
  /\ UNCHANGED <<cluster, stepped>>

(* A new session: a new tracker, a new beacon.                             *)
Start(n) ==
  /\ n \notin up
  /\ up' = up \cup {n}
  /\ cluster' = [cluster EXCEPT ![n] = NewCluster]
  /\ stepped' = IF n \in Floored THEN stepped \ {n} ELSE stepped \cup {n}
  /\ heard' = <<>>
  /\ UNCHANGED stops

Next ==
  \/ \E n, m \in Node : Hear(n, m)
  \/ \E n \in Node : Step(n) \/ Stop(n) \/ Start(n)

Spec == Init /\ [][Next]_vars

(* Every node beacons for ever, and of two nodes that are up and in range  *)
(* neither stays deaf to the other; a floor is a timer.  Nothing makes a   *)
(* session stop, or start again.                                           *)
Fairness ==
  /\ \A pair \in Hears : []<>(heard = pair \/ ~({pair[1], pair[2]} \subseteq up))
  /\ \A n \in Floored : WF_vars(Step(n))

FairSpec == Spec /\ Fairness

-----------------------------------------------------------------------------
(* The type invariant, in the fields an election reads.                    *)
TypeOK ==
  /\ up \subseteq Node /\ stepped \subseteq Node /\ stops \in 0..MaxStops
  /\ heard \in Hears \cup {<<>>}
  /\ \A n \in Node :
       /\ cluster[n].master \in (Node \ {n}) \cup {None}
       /\ cluster[n].follow_distance \in 1..(MaxPlausible + 1) \cup {None}

(* The price a node knows for its master is one that master announced      *)
(* itself, whoever it was relayed by and however late.                     *)
(* (follow.rs 568 and 585-588, election.rs 98-111)                         *)
Announcements(m) == {Target[m]} \cup (IF m \in Floored THEN {Decline} ELSE {})
PriceIsTheMasters ==
  \A n \in Node : cluster[n].master # None =>
    cluster[n].master_metric \in Announcements(cluster[n].master) \cup {None}

(* Nobody claims to be closer to a root than radio range allows, through   *)
(* any chain of relays.  (follow.rs 591-601, session 1192-1207)            *)
DistanceIsHonest ==
  \A n \in Node : Follows(n) =>
    Hops[n][Named(n)] <= Beacon(n).elect.distance

(* Following goes up: a node follows only a node of a higher metric, so    *)
(* two nodes never follow each other, even on old news.                    *)
(* (session set_follow 1192)                                               *)
FollowingGoesUp == \A n \in Node : Follows(n) => Target[n] < Target[Named(n)]

-----------------------------------------------------------------------------
Strongest(n) == \A m \in Node : Target[m] <= Target[n]

(* "the cluster converges on the strongest claim" (election.rs 3-6): once  *)
(* all sessions run for good, every node ends up naming the node with the  *)
(* best metric -- through floors, restarts and relays that keep passing on *)
(* what used to be true.                                                   *)
Converges ==
  <>[](up = Node) => \A m \in Node : Strongest(m) => <>[](\A n \in Node : Named(n) = m)

(* The same of the nodes that are still there.  See findings: a master     *)
(* that leaves is named for ever.                                          *)
ConvergesOnTheLiving ==
  \A m \in Node :
    <>[](m \in up /\ \A n \in up : Target[n] <= Target[m])
      => <>[](\A n \in up : Named(n) = m)

(* The advertised parents form a tree: "without the check two nodes can    *)
(* name each other and the tree stops being one" (election.rs 385-389).    *)
(* See findings: the check is never made.                                  *)
ParentsFormATree ==
  \A n \in up : Parent(n) # n /\ Parent(n) \in up => Parent(Parent(n)) # n
=============================================================================
