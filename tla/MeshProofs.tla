----------------------------- MODULE MeshProofs ------------------------------
(* Proofs about Mesh, for every set of nodes, every topology in which      *)
(* hearing and distance agree, every assignment of metrics and every       *)
(* number of sessions that end: what relays of relays say stays true.      *)
EXTENDS Mesh, TLAPS

(* A cluster has the fields of one; the clock and the schedule are opaque  *)
(* here, since no election reads them.                                     *)
IsCluster(c) ==
  c = [master |-> c.master, master_metric |-> c.master_metric, schedule |-> c.schedule,
       adopters |-> c.adopters, root |-> c.root, relay_parent |-> c.relay_parent,
       master_counter |-> c.master_counter, follow_distance |-> c.follow_distance,
       last_master_aw |-> c.last_master_aw, clock |-> c.clock]

(* What node n has learned is true: it knows what its master announced     *)
(* itself, and a distance to it that radio range allows.                   *)
Informed(n, c) ==
  /\ IsCluster(c)
  /\ c.master \in (Node \ {n}) \cup {None}
  /\ c.master = None => c.master_metric = None /\ c.follow_distance = None
  /\ c.master # None =>
       /\ c.root = c.master
       /\ c.master_metric \in Announcements(c.master) \cup {None}
       /\ c.follow_distance \in 1..(MaxPlausible + 1)
       /\ Hops[n][c.master] <= c.follow_distance

(* What node m says in a frame is true.                                    *)
Truthful(m, e) ==
  /\ e.master \in Node
  /\ e.distance \in Nat
  /\ Hops[m][e.master] <= e.distance
  /\ Claimed(e, m) \in Announcements(e.master)

(* The inductive invariant.                                                *)
News ==
  /\ up \subseteq Node /\ stepped \subseteq Node /\ stops \in 0..MaxStops
  /\ heard \in Hears \cup {<<>>}
  /\ Node \ Floored \subseteq stepped
  /\ cluster = [n \in Node |-> cluster[n]]
  /\ \A n \in Node : Informed(n, cluster[n])

-----------------------------------------------------------------------------
(* What a node announces is one of two numbers.                            *)
LEMMA AnnouncementsAreMetrics ==
  ASSUME NEW n \in Node
  PROVE  Announcements(n) \subseteq Nat
BY MeshAssumption DEF Announcements

(* Hearing anybody adds at most a hop.                                     *)
LEMMA OneHopFurther ==
  ASSUME NEW n \in Node, NEW m \in Node, NEW r \in Node, <<n, m>> \in Hears,
         NEW d \in Nat, Hops[m][r] <= d
  PROVE  Hops[n][r] <= d + 1
<1>1. Hops[n][r] <= Hops[m][r] + 1
  BY MeshAssumption
<1>2. Hops[n][r] \in Nat /\ Hops[m][r] \in Nat
  BY MeshAssumption
<1> QED
  BY <1>1, <1>2

(* A new session has learned nothing, and nothing false.                   *)
LEMMA NewIsInformed ==
  ASSUME NEW n \in Node
  PROVE  Informed(n, NewCluster)
BY DEF Informed, IsCluster, NewCluster

(* An informed node that follows follows a better one, whose target metric *)
(* it knows: a floor is below everybody's target.                          *)
LEMMA FollowedIsBetter ==
  ASSUME News, NEW n \in Node, Follows(n)
  PROVE  /\ cluster[n].master \in Node \ {n}
         /\ cluster[n].root = cluster[n].master
         /\ cluster[n].master_metric = Target[cluster[n].master]
         /\ Target[n] < Target[cluster[n].master]
<1>1. /\ Informed(n, cluster[n])
      /\ cluster[n].master # None
      /\ cluster[n].master_metric # None
      /\ cluster[n].master_metric > Target[n]
  BY DEF News, Follows
<1>2. /\ cluster[n].master \in Node \ {n}
      /\ cluster[n].root = cluster[n].master
      /\ cluster[n].master_metric \in Announcements(cluster[n].master)
  BY <1>1 DEF Informed
<1>3. Decline \in Nat /\ Target[n] \in Nat /\ Decline <= Target[n]
  BY MeshAssumption
<1>4. cluster[n].master_metric = Target[cluster[n].master]
  BY <1>1, <1>2, <1>3 DEF Announcements
<1> QED
  BY <1>1, <1>2, <1>4

(* What an informed node beacons is true.                                  *)
LEMMA BeaconIsTruthful ==
  ASSUME News, NEW m \in Node
  PROVE  /\ Truthful(m, Beacon(m).elect)
         /\ Beacon(m).src = m
<1>1. Beacon(m).src = m
  BY DEF Beacon
<1>2. CASE Follows(m)
  <2> DEFINE c == cluster[m]
  <2>1. /\ c.master \in Node \ {m}
        /\ c.root = c.master
        /\ c.master_metric = Target[c.master]
    BY <1>2, FollowedIsBetter
  <2>2. /\ c.follow_distance \in 1..(MaxPlausible + 1)
        /\ Hops[m][c.master] <= c.follow_distance
        /\ c.follow_distance # None
        /\ c.root # None
    <3>1. Informed(m, c)
      BY DEF News
    <3>2. c.master # None /\ c.root # None
      BY <2>1, ClusterAssumption
    <3>3. None \notin 1..(MaxPlausible + 1)
      BY MeshAssumption, ClusterAssumption
    <3> QED
      BY <3>1, <3>2, <3>3 DEF Informed
  <2>3. /\ Following(m).master = c.master
        /\ Following(m).distance = c.follow_distance
        /\ Following(m).master_metric = Target[c.master]
    BY <2>1, <2>2 DEF Following, OrElse
  <2>4. Claimed(Following(m), m) \in Announcements(c.master)
    BY <2>1, <2>3 DEF Claimed, Announcements
  <2> QED
    BY <1>1, <1>2, <2>1, <2>2, <2>3, <2>4, ClusterAssumption DEF Truthful, Beacon
<1>3. CASE ~Follows(m)
  <2>1. Announced(m) \in Announcements(m)
    BY DEF Announced, Announcements, News
  <2>2. /\ Claiming(m).master = m
        /\ Claiming(m).distance = 0
        /\ Claimed(Claiming(m), m) = Announced(m)
    BY DEF Claiming, Claimed
  <2>3. Hops[m][m] <= 0
    BY MeshAssumption
  <2> QED
    BY <1>1, <1>3, <2>1, <2>2, <2>3 DEF Truthful, Beacon
<1> QED
  BY <1>2, <1>3

-----------------------------------------------------------------------------
(* A cluster with other fields than those an election reads.               *)
SameElection(c, d) ==
  /\ IsCluster(d)
  /\ d.master = c.master /\ d.master_metric = c.master_metric
  /\ d.root = c.root /\ d.follow_distance = c.follow_distance

LEMMA FieldsApart ==
  ASSUME NEW c, IsCluster(c), NEW s, NEW a, NEW w, NEW k
  PROVE  /\ SameElection(c, [c EXCEPT !.schedule = s])
         /\ SameElection(c, [c EXCEPT !.adopters = a])
         /\ SameElection(c, [c EXCEPT !.schedule = s, !.last_master_aw = w, !.clock = k])
         /\ SameElection(c, [c EXCEPT !.clock = k, !.schedule = s, !.last_master_aw = w])
<1> DEFINE Variants ==
       [master : {c.master}, master_metric : {c.master_metric},
        schedule : {c.schedule, s}, adopters : {c.adopters, a}, root : {c.root},
        relay_parent : {c.relay_parent}, master_counter : {c.master_counter},
        follow_distance : {c.follow_distance},
        last_master_aw : {c.last_master_aw, w}, clock : {c.clock, k}]
<1>1. c \in Variants
  BY DEF IsCluster
<1>2. \A d \in Variants : SameElection(c, d)
  BY DEF SameElection, IsCluster
<1>3. [c EXCEPT !.schedule = s] \in Variants
  BY <1>1
<1>4. [c EXCEPT !.adopters = a] \in Variants
  BY <1>1
<1>5. [c EXCEPT !.schedule = s, !.last_master_aw = w, !.clock = k] \in Variants
  BY <1>1
<1>6. [c EXCEPT !.clock = k, !.schedule = s, !.last_master_aw = w] \in Variants
  BY <1>1
<1> QED
  BY <1>2, <1>3, <1>4, <1>5, <1>6

(* Anchoring the clock and replacing the schedule leave an informed node   *)
(* informed.                                                               *)
LEMMA TimingIsNotNews ==
  ASSUME NEW n \in Node, NEW c, Informed(n, c), NEW f
  PROVE  /\ Informed(n, Anchor(c, f))
         /\ Informed(n, PreferOpClass(c, f))
         /\ Informed(n, CountAdopter(c, f.src))
<1>1. IsCluster(c)
  BY DEF Informed
<1>2. \A d : SameElection(c, d) => Informed(n, d)
  BY DEF Informed, SameElection
<1>3. \A s, a, k : Informed(n, [c EXCEPT !.schedule = s, !.last_master_aw = a, !.clock = k])
  BY <1>1, <1>2, FieldsApart
<1>4. \A s : Informed(n, [c EXCEPT !.schedule = s])
  BY <1>1, <1>2, FieldsApart
<1>5. \A s : Informed(n, [c EXCEPT !.adopters = s])
  BY <1>1, <1>2, FieldsApart
<1> QED
  BY <1>3, <1>4, <1>5 DEF Anchor, PreferOpClass, CountAdopter

(* Adopting on a true claim, and relaying from it.                         *)
LEMMA ElectionIsTruthful ==
  ASSUME NEW n \in Node, NEW m \in Node, <<n, m>> \in Hears,
         NEW c, Informed(n, c), NEW e, Truthful(m, e), e.master # n
  PROVE  Informed(n, Relay(Adopt(c, e, m), e, m))
<1> DEFINE adopted == Adopt(c, e, m)
           claim == Claimed(e, m)
<1>1. /\ IsCluster(c)
      /\ claim \in Nat
      /\ claim \in Announcements(e.master)
      /\ e.master \in Node \ {n}
      /\ e.master # None
  BY AnnouncementsAreMetrics, ClusterAssumption DEF Informed, Truthful
<1>2. Plausible(e) => /\ Relayed(e) = e.distance + 1
                      /\ Relayed(e) \in 1..(MaxPlausible + 1)
                      /\ Hops[n][e.master] <= Relayed(e)
  <2>1. Hops[n][e.master] <= e.distance + 1
    BY OneHopFurther DEF Truthful
  <2> QED
    BY <2>1, ClusterAssumption DEF Plausible, Relayed, Truthful
<1>3. CASE ~Plausible(e)
  BY <1>3 DEF Adopt, Relay
<1>4. CASE Plausible(e) /\ ~Switches(c, e, m)
  <2>1. adopted = c
    BY <1>4 DEF Adopt
  <2>2. c.master # e.master
    BY <1>4 DEF Switches
  <2> QED
    BY <2>1, <2>2 DEF Relay
<1>5. CASE Plausible(e) /\ Switches(c, e, m)
  <2>1. /\ IsCluster(adopted)
        /\ adopted.master = e.master
        /\ adopted.master_metric = IF claim = 0 THEN c.master_metric ELSE claim
    <3>1. adopted = NameMaster(IF c.master = e.master THEN c ELSE ForgetTimeline(c), e, m)
      BY <1>5 DEF Adopt
    <3>2. CASE c.master = e.master
      BY <1>1, <3>1, <3>2 DEF NameMaster, IsCluster
    <3>3. CASE c.master # e.master
      <4> DEFINE d == ForgetTimeline(c)
      <4>1. IsCluster(d) /\ d.master_metric = c.master_metric
        <5>1. SameElection(c, d)
          BY <1>1, FieldsApart DEF ForgetTimeline
        <5> QED
          BY <5>1 DEF SameElection
      <4> HIDE DEF d
      <4>2. adopted = NameMaster(d, e, m)
        BY <3>1, <3>3 DEF d
      <4> QED
        BY <4>1, <4>2 DEF NameMaster, IsCluster
    <3> QED
      BY <3>2, <3>3
  <2>2. adopted.master_metric \in Announcements(e.master) \cup {None}
    <3>1. CASE claim # 0
      BY <1>1, <2>1, <3>1
    <3>2. CASE claim = 0
      <4>1. c.master = None => c.master_metric = None
        BY DEF Informed
      <4>2. c.master # None => c.master_metric \in Announcements(c.master) \cup {None}
        BY DEF Informed
      <4>3. c.master # None => c.master \in Node
        BY DEF Informed
      <4>4. c.master = e.master \/ c.master_metric = None
        <5>1. SUFFICES ASSUME c.master # e.master, c.master_metric # None
                       PROVE  FALSE
          OBVIOUS
        <5>2. c.master_metric \in Nat
          BY <4>1, <4>2, <4>3, <5>1, AnnouncementsAreMetrics
        <5>3. 0 > c.master_metric
          BY <1>5, <3>2, <4>1, <5>1 DEF Switches
        <5> QED
          BY <5>2, <5>3
      <4> QED
        BY <1>1, <2>1, <3>2, <4>2, <4>4
    <3> QED
      BY <3>1, <3>2
  <2> HIDE DEF adopted, claim
  <2> DEFINE told == Relay(adopted, e, m)
  <2>3. /\ IsCluster(told)
        /\ told.master = e.master
        /\ told.master_metric = adopted.master_metric
        /\ told.root = e.master
        /\ told.follow_distance = Relayed(e)
    BY <1>5, <2>1 DEF Relay, IsCluster
  <2> HIDE DEF told
  <2> QED
    BY <1>1, <1>2, <1>5, <2>2, <2>3 DEF Informed, adopted, told
<1> QED
  BY <1>3, <1>4, <1>5

(* A frame of an informed node informs.                                    *)
LEMMA HearingInforms ==
  ASSUME News, NEW n \in Node, NEW m \in Node, <<n, m>> \in Hears
  PROVE  Informed(n, HearFrame(cluster[n], n, Beacon(m)))
<1> DEFINE c == cluster[n]
           f == Beacon(m)
<1>1. Informed(n, c) /\ Truthful(m, f.elect) /\ f.src = m
  BY BeaconIsTruthful DEF News
<1> HIDE DEF c, f
<1>2. Informed(n, CountAdopter(c, f.src))
  BY <1>1, TimingIsNotNews
<1>3. ASSUME ~NamesUs(n, f)
      PROVE  Informed(n, Elect(c, f))
  <2>1. CASE f.elect = None
    BY <1>1, <2>1 DEF Elect
  <2>2. CASE f.elect # None
    <3>1. f.elect.master # n
      BY <1>3, <2>2 DEF NamesUs
    <3>2. Elect(c, f) = Relay(Adopt(c, f.elect, m), f.elect, m)
      BY <1>1, <2>2 DEF Elect
    <3> QED
      BY <1>1, <3>1, <3>2, ElectionIsTruthful
  <2> QED
    BY <2>1, <2>2
<1>4. Informed(n, ObserveAt(c, n, f))
  BY <1>2, <1>3, TimingIsNotNews DEF ObserveAt
<1>5. Informed(n, PreferOpClass(ObserveAt(c, n, f), f))
  BY <1>4, TimingIsNotNews
<1> QED
  BY <1>1, <1>5 DEF HearFrame, c, f

-----------------------------------------------------------------------------
LEMMA NewsAtFirst == Init => News
<1> SUFFICES ASSUME Init PROVE News
  OBVIOUS
<1>1. 0 \in 0..MaxStops
  BY MeshAssumption
<1> QED
  BY <1>1, NewIsInformed DEF Init, News

LEMMA NewsSpreads == News /\ [Next]_vars => News'
<1> SUFFICES ASSUME News, [Next]_vars
             PROVE  News'
  OBVIOUS
<1>1. CASE UNCHANGED vars
  BY <1>1 DEF vars, News
<1>2. ASSUME NEW n \in Node, NEW m \in Node, Hear(n, m)
      PROVE  News'
  <2>1. Informed(n, cluster'[n])
    BY <1>2, HearingInforms DEF Hear, News
  <2>2. \A k \in Node \ {n} : cluster'[k] = cluster[k]
    BY <1>2 DEF Hear, News
  <2> QED
    BY <1>2, <2>1, <2>2 DEF Hear, News
<1>3. ASSUME NEW n \in Node, Step(n)
      PROVE  News'
  BY <1>3 DEF Step, News
<1>4. ASSUME NEW n \in Node, Stop(n)
      PROVE  News'
  <2>1. MaxStops \in Nat /\ stops \in 0..MaxStops /\ stops < MaxStops
    BY <1>4, MeshAssumption DEF Stop, News
  <2>2. stops + 1 \in 0..MaxStops
    BY <2>1
  <2> QED
    BY <1>4, <2>2 DEF Stop, News
<1>5. ASSUME NEW n \in Node, Start(n)
      PROVE  News'
  <2>1. Informed(n, cluster'[n])
    BY <1>5, NewIsInformed DEF Start, News
  <2>2. \A k \in Node \ {n} : cluster'[k] = cluster[k]
    BY <1>5 DEF Start, News
  <2> QED
    BY <1>5, <2>1, <2>2 DEF Start, News
<1> QED
  BY <1>1, <1>2, <1>3, <1>4, <1>5 DEF Next

(* Whatever the relays, the floors and the restarts, what every node       *)
(* believes of its master is true: the inductive invariant.                *)
(* (follow.rs 553-602, session set_follow 1181-1209)                       *)
THEOREM NewsIsTrue == Spec => []News
BY NewsAtFirst, NewsSpreads, PTL DEF Spec

(* The types of a mesh.                                                    *)
THEOREM MeshTypes == Spec => []TypeOK
<1>1. News => TypeOK
  BY DEF News, Informed, TypeOK
<1> QED
  BY <1>1, NewsIsTrue, PTL

(* A node knows its master at a price that master announced itself, at any *)
(* number of hops.  (follow.rs 568 and 585-588)                            *)
THEOREM PricesAreTrue == Spec => []PriceIsTheMasters
<1>1. News => PriceIsTheMasters
  BY DEF News, Informed, PriceIsTheMasters
<1> QED
  BY <1>1, NewsIsTrue, PTL

(* No chain of relays claims to be nearer a root than radio range allows.  *)
(* (follow.rs 591-601)                                                     *)
THEOREM DistancesAreHonest == Spec => []DistanceIsHonest
<1>1. ASSUME News, NEW n \in Node, Follows(n)
      PROVE  Hops[n][Named(n)] <= Beacon(n).elect.distance
  BY <1>1, BeaconIsTruthful DEF Truthful, Named
<1>2. News => DistanceIsHonest
  BY <1>1 DEF DistanceIsHonest
<1> QED
  BY <1>2, NewsIsTrue, PTL

(* Nobody ever follows a node that is not better, so no two nodes follow   *)
(* each other and no ring of followers forms.  (session 1192)              *)
THEOREM FollowersGoUp == Spec => []FollowingGoesUp
<1>1. ASSUME News, NEW n \in Node, Follows(n)
      PROVE  Target[n] < Target[Named(n)]
  <2>1. /\ cluster[n].root = cluster[n].master
        /\ cluster[n].master \in Node
        /\ Target[n] < Target[cluster[n].master]
    BY <1>1, FollowedIsBetter
  <2>2. Named(n) = cluster[n].master
    BY <1>1, <2>1, ClusterAssumption DEF Named, Beacon, Following, OrElse
  <2> QED
    BY <2>1, <2>2
<1>2. News => FollowingGoesUp
  BY <1>1 DEF FollowingGoesUp
<1> QED
  BY <1>2, NewsIsTrue, PTL
=============================================================================
