------------------------ MODULE ClusterTrackerProofs ------------------------
(* Proofs about ClusterTracker, for every set of nodes, metrics and frames *)
(* and every value of the clock's parameters.                              *)
EXTENDS ClusterTracker, SequenceTheorems, FiniteSetTheorems, TLAPS

SightingType ==
  [of : Node, arrived_us : Nat, counter : Nat, remaining_tu : Nat,
   presence_mode : Nat, phy_tx_time : Nat]

-----------------------------------------------------------------------------
(* A cycle lasts a positive time, whatever presence mode is advertised.    *)
LEMMA CycleIsPositive ==
  ASSUME NEW pm \in Nat
  PROVE  CycleUs(pm) \in Nat \ {0}
<1>1. AtLeastOne(pm) \in Nat \ {0}
  BY DEF AtLeastOne
<1>2. \A x, y \in Nat \ {0} : x * y \in Nat \ {0}
  OBVIOUS
<1>3. EawUs(pm) \in Nat \ {0}
  BY <1>1, <1>2, ClockAssumption DEF EawUs
<1> QED
  BY <1>2, <1>3, ClockAssumption DEF CycleUs

(* Forgetting the oldest invents nothing, and keeps something of what      *)
(* there is.                                                               *)
LEMMA NewestIsSuffix ==
  ASSUME NEW S, NEW seq \in Seq(S), NEW n \in Nat \ {0}
  PROVE  /\ Newest(seq, n) \in Seq(S)
         /\ seq # <<>> => Newest(seq, n) # <<>>
         /\ \A i \in DOMAIN Newest(seq, n) :
              \E j \in DOMAIN seq : Newest(seq, n)[i] = seq[j]
<1>1. CASE Len(seq) <= n
  BY <1>1 DEF Newest
<1>2. CASE ~(Len(seq) <= n)
  <2> DEFINE tail == SubSeq(seq, Len(seq) - n + 1, Len(seq))
  <2>1. /\ Len(seq) - n + 1 \in 1..Len(seq)
        /\ Len(seq) \in Nat
    BY <1>2
  <2>2. /\ tail \in Seq(S)
        /\ Len(tail) = n
        /\ \A i \in 1..n : tail[i] = seq[Len(seq) - n + i]
    BY <2>1
  <2>3. Newest(seq, n) = tail
    BY <1>2 DEF Newest
  <2>4. \A i \in DOMAIN tail : i \in 1..n /\ Len(seq) - n + i \in DOMAIN seq
    BY <2>1, <2>2
  <2> QED
    BY <2>2, <2>3, <2>4
<1> QED
  BY <1>1, <1>2

(* Pushing a sample adds its source, and dropping the oldest adds none.    *)
LEMMA PushedSources ==
  ASSUME NEW seq \in Seq(Samples), NEW x \in Samples
  PROVE  /\ Newest(Append(seq, x), Keep) \in Seq(Samples) \ {<<>>}
         /\ Sources(Newest(Append(seq, x), Keep)) \subseteq Sources(seq) \cup {x.of}
         /\ Append(seq, x) \in Seq(Samples) \ {<<>>}
         /\ Sources(Append(seq, x)) \subseteq Sources(seq) \cup {x.of}
<1>1. /\ Append(seq, x) \in Seq(Samples)
      /\ Append(seq, x) # <<>>
      /\ \A i \in DOMAIN Append(seq, x) :
           \/ i \in DOMAIN seq /\ Append(seq, x)[i] = seq[i]
           \/ Append(seq, x)[i] = x
  OBVIOUS
<1>2. Keep \in Nat \ {0}
  BY ClockAssumption
<1>3. Sources(Append(seq, x)) \subseteq Sources(seq) \cup {x.of}
  BY <1>1 DEF Sources
<1> DEFINE longer == Append(seq, x)
<1> HIDE DEF longer
<1>4. /\ Newest(longer, Keep) \in Seq(Samples)
      /\ Newest(longer, Keep) # <<>>
      /\ \A i \in DOMAIN Newest(longer, Keep) :
           \E j \in DOMAIN longer : Newest(longer, Keep)[i] = longer[j]
  BY <1>1, <1>2, NewestIsSuffix DEF longer
<1>5. Sources(Newest(longer, Keep)) \subseteq Sources(longer)
  BY <1>4 DEF Sources
<1> QED
  BY <1>1, <1>3, <1>4, <1>5 DEF longer

(* One sighting through the clock: it is still a clock, it has an anchor,  *)
(* and it has samples of no node but the sighting's and those it had.      *)
LEMMA ObservedClock ==
  ASSUME NEW old \in ClockType, NEW s \in SightingType
  PROVE  /\ ClockObserve(old, s) \in ClockType
         /\ ClockObserve(old, s).offsets # <<>>
         /\ ClockSources(ClockObserve(old, s)) \subseteq ClockSources(old) \cup {s.of}
<1> DEFINE ruled  == Ruled(old, s)
           sample == Sample(s.of, Offered(ruled, s))
           clock  == Aligned(ruled, s)
<1>1. /\ ruled \in ClockType
      /\ ClockSources(ruled) \subseteq ClockSources(old)
  <2>1. AtLeastOne(s.presence_mode) \in Nat
    BY DEF AtLeastOne, SightingType
  <2>2. <<>> \in Seq(Samples)
    OBVIOUS
  <2>3. Sources(<<>>) = {}
    BY DEF Sources
  <2> QED
    BY <2>1, <2>2, <2>3 DEF Ruled, Cleared, ClockType, ClockSources
<1>2. Cycle(ruled) \in Nat \ {0}
  BY <1>1, CycleIsPositive DEF Cycle, ClockType
<1>3. \A x \in Int : x % Cycle(ruled) \in Nat
  BY <1>2
<1>4. /\ CycleOriginUs(s) \in Nat
      /\ CycleOriginPhy(s) \in Nat
  <2>1. \A x, y \in Int : x * y \in Int
    OBVIOUS
  <2>2. \A x \in Nat, y \in Int : SatSub(x, y) \in Int
    BY DEF SatSub
  <2>3. \A x \in Nat, y \in Nat : SatSub(x, y) \in Nat
    BY DEF SatSub
  <2>4. \A x, y \in Nat : x * y \in Nat
    OBVIOUS
  <2>5. /\ s.arrived_us \in Nat /\ s.counter \in Nat /\ s.remaining_tu \in Nat
        /\ s.presence_mode \in Nat /\ s.phy_tx_time \in Nat
    BY DEF SightingType
  <2>6. AtLeastOne(s.presence_mode) \in Nat \ {0}
    BY <2>5 DEF AtLeastOne
  <2>7. \A x \in Nat, m \in Nat \ {0} : x % m \in Nat /\ x \div m \in Nat
    OBVIOUS
  <2>8. SlotOf(s) \in Nat
    BY <2>5, <2>6, <2>7, ClockAssumption DEF SlotOf
  <2>9. IntoSlotUs(s) \in Nat
    <3>1. (s.counter % AtLeastOne(s.presence_mode)) * AwUs \in Nat
      BY <2>4, <2>5, <2>6, <2>7, ClockAssumption
    <3>2. SatSub(AwUs, s.remaining_tu * TuUs) \in Nat
      BY <2>3, <2>4, <2>5, ClockAssumption
    <3> QED
      BY <3>1, <3>2 DEF IntoSlotUs
  <2>10. SlotOf(s) * EawUs(s.presence_mode) \in Nat
    BY <2>4, <2>6, <2>8, ClockAssumption DEF EawUs
  <2>11. CycleOriginUs(s) \in Nat
    BY <2>3, <2>5, <2>9, <2>10 DEF CycleOriginUs
  <2>12. s.phy_tx_time % CycleUs(s.presence_mode) \in Nat
    BY <2>5, <2>7, CycleIsPositive
  <2>13. CycleOriginPhy(s) \in Nat
    BY <2>5, <2>12, ClockAssumption DEF CycleOriginPhy, WrapSub
  <2> QED
    BY <2>11, <2>13
<1>5. sample \in Samples /\ sample.of = s.of
  BY <1>3, <1>4 DEF Sample, Samples, Offered, PhyOff, CounterOff, SightingType
<1>6. /\ clock \in ClockType
      /\ ClockSources(clock) \subseteq ClockSources(ruled) \cup {s.of}
      /\ clock.offsets = ruled.offsets
  <2>1. CASE ~HasPhy(s)
    BY <1>1, <2>1 DEF Aligned
  <2>2. CASE HasPhy(s)
    <3> DEFINE gap  == (CounterOff(ruled, s) + Cycle(ruled) - PhyOff(ruled, s))
                         % Cycle(ruled)
               kept == Newest(Append(ruled.align_samples, Sample(s.of, gap)), Keep)
    <3>1. /\ CounterOff(ruled, s) \in Nat
          /\ PhyOff(ruled, s) \in Nat
      BY <1>3, <1>4 DEF CounterOff, PhyOff
    <3>2. gap \in Nat
      BY <1>2, <1>3, <3>1
    <3>3. Sample(s.of, gap) \in Samples /\ Sample(s.of, gap).of = s.of
      BY <3>2 DEF Sample, Samples, SightingType
    <3>4. ruled.align_samples \in Seq(Samples)
      BY <1>1 DEF ClockType
    <3>5. /\ kept \in Seq(Samples)
          /\ Sources(kept) \subseteq Sources(ruled.align_samples) \cup {s.of}
      BY <3>3, <3>4, PushedSources
    <3>6. clock = [ruled EXCEPT !.align_samples = kept]
      BY <2>2 DEF Aligned
    <3> HIDE DEF kept, clock, ruled
    <3> QED
      BY <1>1, <3>5, <3>6 DEF ClockType, ClockSources
  <2> QED
    BY <2>1, <2>2
<1> DEFINE next == ClockObserve(old, s)
<1> HIDE DEF ruled, sample, clock
<1>7. /\ Sources(<<sample>>) = {s.of}
      /\ Sources(<<>>) = {}
      /\ <<sample>> \in Seq(Samples) /\ <<sample>> # <<>>
      /\ <<>> \in Seq(Samples)
  BY <1>5 DEF Sources
<1>8. CASE IsOutlier(clock, sample.us)
  <2>1. clock.offsets # <<>>
    BY <1>8 DEF IsOutlier
  <2>2. next = HoldOutlier(clock, sample)
    BY <1>8 DEF ClockObserve, ruled, sample, clock
  <2>3. /\ Append(clock.pending, sample) \in Seq(Samples)
        /\ Sources(Append(clock.pending, sample)) \subseteq Sources(clock.pending) \cup {s.of}
    BY <1>5, <1>6, PushedSources DEF ClockType
  <2>4. \/ next = [clock EXCEPT !.pending = <<sample>>]
        \/ next = [clock EXCEPT !.offsets = <<sample>>, !.pending = <<>>]
        \/ next = [clock EXCEPT !.pending = Append(clock.pending, sample)]
    BY <2>2 DEF HoldOutlier
  <2>5. next \in ClockType /\ next.offsets # <<>>
    BY <1>6, <1>7, <2>1, <2>3, <2>4 DEF ClockType
  <2>6. ClockSources(next) \subseteq ClockSources(clock) \cup {s.of}
    BY <1>6, <1>7, <2>3, <2>4 DEF ClockType, ClockSources
  <2> QED
    BY <1>1, <1>6, <2>5, <2>6
<1>9. CASE ~IsOutlier(clock, sample.us)
  <2>1. next = Accept(clock, sample)
    BY <1>9 DEF ClockObserve, ruled, sample, clock
  <2> DEFINE kept == Newest(Append(clock.offsets, sample), Keep)
  <2>2. /\ kept \in Seq(Samples) /\ kept # <<>>
        /\ Sources(kept) \subseteq Sources(clock.offsets) \cup {s.of}
    BY <1>5, <1>6, PushedSources DEF ClockType
  <2>3. \/ next = [clock EXCEPT !.offsets = kept, !.pending = clock.pending]
        \/ next = [clock EXCEPT !.offsets = kept, !.pending = <<>>]
    BY <2>1 DEF Accept
  <2> HIDE DEF kept
  <2>4. next \in ClockType /\ next.offsets # <<>>
    BY <1>6, <1>7, <2>2, <2>3 DEF ClockType
  <2>5. ClockSources(next) \subseteq ClockSources(clock) \cup {s.of}
    BY <1>6, <1>7, <2>2, <2>3 DEF ClockType, ClockSources
  <2> QED
    BY <1>1, <1>6, <2>4, <2>5
<1> QED
  BY <1>8, <1>9
-----------------------------------------------------------------------------
(* The inductive invariant, as a predicate of a cluster: every safety      *)
(* property of ClusterTracker, and that the adopters are finitely many.    *)
Sound(c) ==
  /\ c \in ClusterType
  /\ MeasuredFrom(c) \subseteq {c.master}
  /\ Self \notin {c.master, c.root, c.relay_parent} \cup c.adopters
  /\ c.master = None => {c.root, c.relay_parent, c.master_counter, c.follow_distance} = {None}
  /\ c.master # None =>
       /\ c.root = c.master
       /\ c.relay_parent # None
       /\ c.master_counter # None
       /\ c.follow_distance \in 1..(MaxPlausible + 1)
  /\ c.clock.offsets # <<>> <=> c.last_master_aw # None
  /\ IsFiniteSet(c.adopters) /\ Cardinality(c.adopters) <= MaxAdopters

SameStanding(c, d) ==
  d.master = c.master /\ d.master_metric = c.master_metric

(* How one frame may change whom we follow, and at what price.             *)
SameLord(c, d) ==
  /\ d.master = c.master
  /\ d.master_metric \in {c.master_metric} \cup Nat
  /\ c.master = None => d.master_metric = c.master_metric

NewLord(c, d) ==
  /\ d.master # c.master
  /\ d.master # None
  /\ \/ c.master = None \/ c.master_metric = None
     \/ /\ d.master_metric # None
        /\ d.master_metric > c.master_metric
  /\ d.master_metric = None => c.master_metric = None

-----------------------------------------------------------------------------
LEMMA FrameType ==
  ASSUME NEW f \in Frames
  PROVE  /\ f.src \in Node
         /\ f.elect # None =>
              /\ f.elect.master \in Node
              /\ f.elect.master_metric \in Metric
              /\ f.elect.self_metric \in Metric
              /\ f.elect.distance \in 0..DistanceMax
              /\ f.elect.master_counter \in Nat
         /\ SightingOf(f) \in SightingType
         /\ SightingOf(f).of = f.src
         /\ f.sync.counter \in Nat /\ f.sync.arrived_us \in Nat
         /\ f.sync.channels # None => f.sync.channels \in [0..(Slots - 1) -> Nat]
         /\ f.chanseq # None => f.chanseq \in [0..(Slots - 1) -> Nat]
<1>1. f \in [src : Node, elect : Election \cup {None}, sync : SyncParams,
             chanseq : [0..(Slots - 1) -> Nat] \cup {None}]
  BY TrackerAssumption
<1>2. f.elect # None => f.elect \in Election
  BY <1>1
<1>3. f.sync \in SyncParams
  BY <1>1
<1> QED
  BY <1>1, <1>2, <1>3 DEF Election, SyncParams, SightingOf, SightingType

(* A channel sequence becomes a schedule of the node that sent it.         *)
LEMMA ScheduleIsTyped ==
  ASSUME NEW n \in Node, NEW channels \in [0..(Slots - 1) -> Nat]
  PROVE  ScheduleOf(n, channels) \in ScheduleType /\ ScheduleOf(n, channels).of = n
BY DEF ScheduleOf, ScheduleType

LEMMA NewClusterIsSound == Sound(NewCluster)
<1>1. /\ <<>> \in Seq(Samples)
      /\ Sources(<<>>) = {}
  BY DEF Sources
<1>2. NewCluster \in ClusterType
  BY <1>1 DEF NewCluster, ClusterType, ClockType, NewClock, NoSchedule, ScheduleType
<1>3. MeasuredFrom(NewCluster) = {}
  BY <1>1 DEF NewCluster, MeasuredFrom, ClockSources, NewClock, NoSchedule
<1>4. IsFiniteSet({}) /\ Cardinality({}) = 0
  BY FS_EmptySet
<1>5. /\ NewCluster.master = None /\ NewCluster.root = None
      /\ NewCluster.relay_parent = None /\ NewCluster.adopters = {}
      /\ NewCluster.master_counter = None /\ NewCluster.follow_distance = None
      /\ NewCluster.clock.offsets = <<>> /\ NewCluster.last_master_aw = None
  BY DEF NewCluster, NewClock
<1>6. Self # None /\ MaxAdopters >= 0
  BY ClusterAssumption, TrackerAssumption
<1> QED
  BY <1>2, <1>3, <1>4, <1>5, <1>6 DEF Sound

(* Being named master is remembered, within the cap, and changes no more.  *)
LEMMA CountAdopterIsSound ==
  ASSUME NEW c, Sound(c), NEW src \in Node, src # Self
  PROVE  /\ Sound(CountAdopter(c, src))
         /\ SameLord(c, CountAdopter(c, src))
         /\ MeasuredFrom(CountAdopter(c, src)) = MeasuredFrom(c)
<1> DEFINE d == CountAdopter(c, src)
<1>1. /\ d \in ClusterType
      /\ d = [c EXCEPT !.adopters = d.adopters]
      /\ d.adopters \in {c.adopters, c.adopters \cup {src}}
  BY DEF Sound, ClusterType, CountAdopter
<1>2. IsFiniteSet(d.adopters) /\ Cardinality(d.adopters) <= MaxAdopters
  <2>1. CASE d.adopters = c.adopters
    BY <2>1 DEF Sound
  <2>2. CASE d.adopters # c.adopters
    <3>1. /\ d.adopters = c.adopters \cup {src}
          /\ src \notin c.adopters
          /\ Cardinality(c.adopters) < MaxAdopters
      BY <1>1, <2>2 DEF CountAdopter, Sound, ClusterType
    <3>2. /\ IsFiniteSet(d.adopters)
          /\ Cardinality(d.adopters) = Cardinality(c.adopters) + 1
      <4>1. IsFiniteSet(c.adopters)
        BY DEF Sound
      <4>2. /\ IsFiniteSet(c.adopters \cup {src})
            /\ Cardinality(c.adopters \cup {src}) =
                 IF src \in c.adopters THEN Cardinality(c.adopters)
                 ELSE Cardinality(c.adopters) + 1
        BY <4>1, FS_AddElement
      <4> HIDE DEF d
      <4> QED
        BY <3>1, <4>2
    <3>3. Cardinality(c.adopters) \in Nat
      BY FS_CardinalityType DEF Sound
    <3> QED
      BY <3>1, <3>2, <3>3, ClusterAssumption
  <2> QED
    BY <2>1, <2>2
<1> HIDE DEF d
<1>3. /\ d.master = c.master /\ d.master_metric = c.master_metric
      /\ d.root = c.root /\ d.relay_parent = c.relay_parent
      /\ d.master_counter = c.master_counter /\ d.follow_distance = c.follow_distance
      /\ d.clock = c.clock /\ d.schedule = c.schedule
      /\ d.last_master_aw = c.last_master_aw
  BY <1>1 DEF Sound, ClusterType
<1>4. MeasuredFrom(d) = MeasuredFrom(c)
  BY <1>3 DEF MeasuredFrom
<1>5. Self \notin d.adopters
  BY <1>1 DEF Sound
<1>6. Sound(d)
  BY <1>1, <1>2, <1>3, <1>4, <1>5 DEF Sound
<1> QED
  BY <1>3, <1>4, <1>6 DEF SameLord, d

(* An election that does not name us: the lord stays or yields to a better *)
(* one, the timeline is forgotten with the lord it belonged to, and the    *)
(* relay data is of the lord named last.                                   *)
LEMMA ElectIsSound ==
  ASSUME NEW c, Sound(c), NEW f \in Frames, f.src # Self, ~NamesUs(Self, f)
  PROVE  /\ Sound(Elect(c, f))
         /\ SameLord(c, Elect(c, f)) \/ NewLord(c, Elect(c, f))
<1> DEFINE e == f.elect
           a == Adopt(c, e, f.src)
           d == Elect(c, f)
<1>1. CASE e = None
  BY <1>1 DEF Elect, SameLord
<1>2. CASE e # None
  <2>1. /\ e.master \in Node /\ e.master # Self /\ e.master # None
        /\ Claimed(e, f.src) \in Metric /\ Claimed(e, f.src) \in Nat
        /\ e.distance \in 0..DistanceMax /\ e.master_counter \in Nat
        /\ f.src \in Node /\ f.src # None
    BY <1>2, FrameType, ClusterAssumption, TrackerAssumption DEF NamesUs, Claimed
  <2>2. d = Relay(a, e, f.src)
    BY <1>2 DEF Elect
  <2>3. None \notin Nat /\ None \notin Node /\ MaxPlausible \in Nat
    BY ClusterAssumption, TrackerAssumption
  \* The adoption, before the relay data is brought into line.
  <2>4. /\ a \in ClusterType
        /\ MeasuredFrom(a) \subseteq {a.master}
        /\ a.clock.offsets # <<>> <=> a.last_master_aw # None
        /\ a.adopters = c.adopters
        /\ \/ /\ a.master = c.master /\ a.root = c.root
              /\ a.relay_parent = c.relay_parent
              /\ a.master_counter = c.master_counter
              /\ a.follow_distance = c.follow_distance
           \/ a.master = e.master /\ Plausible(e)
        /\ SameLord(c, a) \/ NewLord(c, a)
    <3>1. CASE ~(Switches(c, e, f.src) /\ Plausible(e))
      <4>1. a = c
        BY <3>1 DEF Adopt
      <4> HIDE DEF a
      <4> QED
        BY <4>1 DEF Sound, SameLord
    <3>2. CASE Switches(c, e, f.src) /\ Plausible(e) /\ c.master = e.master
      <4>1. a = NameMaster(c, e, f.src)
        BY <3>2 DEF Adopt
      <4>2. /\ a \in ClusterType
            /\ a.master = c.master /\ a.clock = c.clock /\ a.schedule = c.schedule
            /\ a.last_master_aw = c.last_master_aw /\ a.adopters = c.adopters
            /\ a.master_metric \in {c.master_metric} \cup Nat
        BY <2>1, <3>2, <4>1 DEF NameMaster, Sound, ClusterType
      <4> HIDE DEF a
      <4>3. MeasuredFrom(a) = MeasuredFrom(c)
        BY <4>2 DEF MeasuredFrom
      <4> QED
        BY <2>1, <3>2, <4>2, <4>3 DEF Sound, SameLord
    <3>3. CASE Switches(c, e, f.src) /\ Plausible(e) /\ c.master # e.master
      <4> DEFINE b == ForgetTimeline(c)
      <4>1. a = NameMaster(b, e, f.src)
        BY <3>3 DEF Adopt
      <4>2. /\ <<>> \in Seq(Samples)
            /\ Sources(<<>>) = {}
        BY DEF Sources
      <4>3. /\ b \in ClusterType
            /\ b.master_metric = c.master_metric /\ b.adopters = c.adopters
            /\ b.clock.offsets = <<>> /\ b.clock.pending = <<>>
            /\ b.clock.align_samples = <<>>
            /\ b.schedule = NoSchedule /\ b.last_master_aw = None
        BY <4>2 DEF ForgetTimeline, ClockReset, Cleared, Sound, ClusterType, ClockType,
                    NoSchedule, ScheduleType
      <4> HIDE DEF b
      <4>4. /\ a \in ClusterType
            /\ a.master = e.master /\ a.clock = b.clock /\ a.schedule = b.schedule
            /\ a.last_master_aw = None /\ a.adopters = c.adopters
            /\ a.master_metric = IF Claimed(e, f.src) = 0 THEN c.master_metric
                                 ELSE Claimed(e, f.src)
        BY <2>1, <4>1, <4>3 DEF NameMaster, ClusterType
      <4> HIDE DEF a
      <4>5. MeasuredFrom(a) = {}
        BY <4>2, <4>3, <4>4 DEF MeasuredFrom, ClockSources, NoSchedule
      <4>6. \/ c.master = None \/ c.master_metric = None
            \/ Claimed(e, f.src) > c.master_metric
        BY <3>3 DEF Switches
      <4>7. c.master_metric # None => c.master_metric \in Nat
        BY TrackerAssumption DEF Sound, ClusterType
      <4>8. NewLord(c, a)
        <5>1. a.master # c.master /\ a.master # None
          BY <2>1, <3>3, <4>4
        <5>2. a.master_metric = None => c.master_metric = None
          BY <2>1, <2>3, <4>4
        <5>3. ASSUME c.master # None, c.master_metric # None
              PROVE  a.master_metric # None /\ a.master_metric > c.master_metric
          <6>1. Claimed(e, f.src) > c.master_metric /\ c.master_metric \in Nat
            BY <4>6, <4>7, <5>3
          <6>2. a.master_metric = Claimed(e, f.src)
            BY <2>1, <4>4, <6>1
          <6> QED
            BY <2>1, <2>3, <6>1, <6>2
        <5> QED
          BY <5>1, <5>2, <5>3 DEF NewLord
      <4> QED
        BY <3>3, <4>3, <4>4, <4>5, <4>8
    <3> QED
      BY <3>1, <3>2, <3>3
  <2> HIDE DEF a
  <2>5. CASE a.master = e.master /\ Plausible(e)
    <3>1. d = [a EXCEPT !.root = e.master, !.relay_parent = f.src,
                        !.master_counter = e.master_counter, !.follow_distance = Relayed(e)]
      BY <2>2, <2>5 DEF Relay
    <3>2. Relayed(e) \in 1..(MaxPlausible + 1)
      BY <2>1, <2>5, ClusterAssumption DEF Plausible, Relayed
    <3> DEFINE far == Relayed(e)
    <3> HIDE DEF d, far
    <3>6. far \in Nat
      BY <2>3, <3>2 DEF far
    <3>7. d = [a EXCEPT !.root = e.master, !.relay_parent = f.src,
                        !.master_counter = e.master_counter, !.follow_distance = far]
      BY <3>1 DEF far
    <3>3. /\ d \in ClusterType
          /\ d.master = a.master /\ d.master_metric = a.master_metric
          /\ d.clock = a.clock /\ d.schedule = a.schedule
          /\ d.last_master_aw = a.last_master_aw /\ d.adopters = a.adopters
          /\ d.root = e.master /\ d.relay_parent = f.src
          /\ d.master_counter = e.master_counter /\ d.follow_distance = far
      BY <2>1, <2>4, <3>6, <3>7 DEF ClusterType
    <3>4. MeasuredFrom(d) = MeasuredFrom(a)
      BY <3>3 DEF MeasuredFrom
    <3>5. Sound(d)
      BY <2>1, <2>3, <2>4, <2>5, <3>2, <3>3, <3>4 DEF Sound, far
    <3> QED
      BY <2>4, <3>3, <3>5 DEF SameLord, NewLord, d
  <2>6. CASE ~(a.master = e.master /\ Plausible(e))
    <3>1. d = a
      BY <2>2, <2>6 DEF Relay
    <3> HIDE DEF d
    <3> QED
      BY <2>4, <2>6, <3>1 DEF Sound, d
  <2> QED
    BY <2>5, <2>6
<1> QED
  BY <1>1, <1>2

(* What only the master's own frame may touch -- the clock, its schedule   *)
(* and its window counter -- changed to something measured from it.        *)
LEMMA TimedByMasterIsSound ==
  ASSUME NEW c, Sound(c), NEW d,
         d \in ClusterType,
         d = [c EXCEPT !.clock = d.clock, !.schedule = d.schedule,
                       !.last_master_aw = d.last_master_aw],
         MeasuredFrom(d) \subseteq {c.master},
         d.clock.offsets # <<>> <=> d.last_master_aw # None
  PROVE  Sound(d) /\ SameStanding(c, d)
<1>1. /\ d.master = c.master /\ d.master_metric = c.master_metric
      /\ d.root = c.root /\ d.relay_parent = c.relay_parent
      /\ d.master_counter = c.master_counter /\ d.follow_distance = c.follow_distance
      /\ d.adopters = c.adopters
  BY DEF Sound, ClusterType
<1> QED
  BY <1>1 DEF Sound, SameStanding

(* The master's frame anchors its timeline and nobody else's.              *)
LEMMA AnchorIsSound ==
  ASSUME NEW c, Sound(c), NEW f \in Frames
  PROVE  Sound(Anchor(c, f)) /\ SameStanding(c, Anchor(c, f))
<1>1. CASE c.master # f.src
  BY <1>1 DEF Anchor, SameStanding
<1>2. CASE c.master = f.src
  <2> DEFINE d     == Anchor(c, f)
             clock == ClockObserve(c.clock, SightingOf(f))
             sched == IF f.sync.channels = None THEN c.schedule
                      ELSE ScheduleOf(f.src, f.sync.channels)
             aw    == [of |-> f.src, counter |-> f.sync.counter, at |-> f.sync.arrived_us]
  <2>1. d = [c EXCEPT !.schedule = sched, !.last_master_aw = aw, !.clock = clock]
    BY <1>2 DEF Anchor, Sound, ClusterType
  <2>2. /\ clock \in ClockType
        /\ clock.offsets # <<>>
        /\ ClockSources(clock) \subseteq ClockSources(c.clock) \cup {f.src}
    BY FrameType, ObservedClock DEF Sound, ClusterType
  <2>3. sched \in ScheduleType /\ sched.of \in {c.schedule.of, f.src}
    BY FrameType, ScheduleIsTyped DEF Sound, ClusterType
  <2>4. aw \in [of : Node, counter : Nat, at : Nat] /\ aw.of = f.src
    BY FrameType
  <2>5. aw # None
    BY <2>4, TrackerAssumption
  <2> HIDE DEF clock, sched, aw
  <2>6. /\ d \in ClusterType
        /\ d.clock = clock /\ d.schedule = sched /\ d.last_master_aw = aw
        /\ d = [c EXCEPT !.clock = d.clock, !.schedule = d.schedule,
                         !.last_master_aw = d.last_master_aw]
    BY <2>1, <2>2, <2>3, <2>4 DEF Sound, ClusterType
  <2> HIDE DEF d
  <2>7. MeasuredFrom(d) \subseteq {c.master}
    BY <1>2, <2>2, <2>3, <2>4, <2>6 DEF MeasuredFrom, Sound
  <2> QED
    BY <2>2, <2>5, <2>6, <2>7, TimedByMasterIsSound DEF d
<1> QED
  BY <1>1, <1>2

LEMMA PreferOpClassIsSound ==
  ASSUME NEW c, Sound(c), NEW f \in Frames
  PROVE  Sound(PreferOpClass(c, f)) /\ SameStanding(c, PreferOpClass(c, f))
<1>1. CASE ~(c.master = f.src /\ f.chanseq # None)
  BY <1>1 DEF PreferOpClass, SameStanding
<1>2. CASE c.master = f.src /\ f.chanseq # None
  <2> DEFINE d     == PreferOpClass(c, f)
             sched == ScheduleOf(f.src, f.chanseq)
  <2>1. d = [c EXCEPT !.schedule = sched]
    BY <1>2 DEF PreferOpClass
  <2>2. sched \in ScheduleType /\ sched.of = f.src
    BY <1>2, FrameType, ScheduleIsTyped
  <2> HIDE DEF sched
  <2>3. /\ d \in ClusterType
        /\ d.clock = c.clock /\ d.last_master_aw = c.last_master_aw /\ d.schedule = sched
        /\ d = [c EXCEPT !.clock = d.clock, !.schedule = d.schedule,
                         !.last_master_aw = d.last_master_aw]
    BY <2>1, <2>2 DEF Sound, ClusterType
  <2> HIDE DEF d
  <2>4. MeasuredFrom(d) \subseteq {c.master}
    BY <1>2, <2>2, <2>3 DEF MeasuredFrom, Sound
  <2>5. d.clock.offsets # <<>> <=> d.last_master_aw # None
    BY <2>3 DEF Sound
  <2> QED
    BY <2>3, <2>4, <2>5, TimedByMasterIsSound DEF d
<1> QED
  BY <1>1, <1>2

(* One frame through the session keeps a cluster sound, and keeps its lord *)
(* or takes a better one.                                                  *)
LEMMA HearFrameIsSound ==
  ASSUME NEW c, Sound(c), NEW f \in Frames
  PROVE  /\ Sound(HearFrame(c, Self, f))
         /\ SameLord(c, HearFrame(c, Self, f)) \/ NewLord(c, HearFrame(c, Self, f))
<1> DEFINE o == ObserveAt(c, Self, f)
           d == PreferOpClass(o, f)
<1>1. CASE f.src = Self
  BY <1>1 DEF HearFrame, SameLord
<1>2. CASE f.src # Self
  <2>1. Sound(o) /\ (SameLord(c, o) \/ NewLord(c, o))
    <3>1. CASE NamesUs(Self, f)
      <4>1. o = CountAdopter(c, f.src)
        BY <3>1 DEF ObserveAt
      <4> QED
        BY <1>2, <4>1, FrameType, CountAdopterIsSound
    <3>2. CASE ~NamesUs(Self, f)
      <4> DEFINE a == Elect(c, f)
      <4>1. o = Anchor(a, f)
        BY <3>2 DEF ObserveAt
      <4>2. Sound(a) /\ (SameLord(c, a) \/ NewLord(c, a))
        BY <1>2, <3>2, ElectIsSound
      <4> HIDE DEF a
      <4>3. Sound(o) /\ SameStanding(a, o)
        BY <4>1, <4>2, AnchorIsSound
      <4> QED
        BY <4>2, <4>3 DEF SameLord, NewLord, SameStanding
    <3> QED
      BY <3>1, <3>2
  <2> HIDE DEF o
  <2>2. Sound(d) /\ SameStanding(o, d)
    BY <2>1, PreferOpClassIsSound
  <2>3. HearFrame(c, Self, f) = d
    BY <1>2 DEF HearFrame, o
  <2> HIDE DEF d
  <2> QED
    BY <2>1, <2>2, <2>3 DEF SameLord, NewLord, SameStanding
<1> QED
  BY <1>1, <1>2

-----------------------------------------------------------------------------
(* The cluster is sound in every reachable state.                          *)
THEOREM Soundness == Spec => []Sound(cluster)
<1>1. Init => Sound(cluster)
  BY NewClusterIsSound DEF Init
<1>2. Sound(cluster) /\ [Next]_cluster => Sound(cluster)'
  <2> SUFFICES ASSUME Sound(cluster), [Next]_cluster
               PROVE  Sound(cluster')
    OBVIOUS
  <2>1. ASSUME NEW f \in Frames, Hear(f)
        PROVE  Sound(cluster')
    BY <2>1, HearFrameIsSound DEF Hear
  <2>2. CASE UNCHANGED cluster
    BY <2>2
  <2> QED
    BY <2>1, <2>2 DEF Next
<1> QED
  BY <1>1, <1>2, PTL DEF Spec

(* The type invariant of the tracker holds, for any frames on the air.     *)
(* (follow.rs 434-477)                                                     *)
THEOREM TypeCorrect == Spec => []TypeOK
<1>1. Sound(cluster) => TypeOK
  BY DEF Sound, TypeOK
<1> QED
  BY <1>1, Soundness, PTL

(* Timing is never pooled from two masters, through any re-elections.      *)
(* (follow.rs 545-552 and 576-584)                                         *)
THEOREM TimelinesAreNotPooled == Spec => []OneTimeline
<1>1. Sound(cluster) => OneTimeline
  BY DEF Sound, OneTimeline
<1> QED
  BY <1>1, Soundness, PTL

(* No peer can make us our own master, root, parent or adopter.            *)
(* (follow.rs 525-540)                                                     *)
THEOREM NeverFollowsItself == Spec => []NeverOurOwnFollower
<1>1. Sound(cluster) => NeverOurOwnFollower
  BY DEF Sound, NeverOurOwnFollower
<1> QED
  BY <1>1, Soundness, PTL

(* What we relay is of our master, at a plausible distance.                *)
(* (follow.rs 556-602)                                                     *)
THEOREM RelaysItsMaster == Spec => []RelayIsOfMaster
<1>1. Sound(cluster) => RelayIsOfMaster
  BY DEF Sound, RelayIsOfMaster
<1> QED
  BY <1>1, Soundness, PTL

(* An estimate is acted on exactly when there is a window counter to relay *)
(* with it.  (follow.rs 617-624 and 665-669)                               *)
THEOREM UsableIsRelayable == Spec => []UsableHasCounter
<1>1. ASSUME Sound(cluster)
      PROVE  UsableHasCounter
  <2>1. cluster.clock.offsets \in Seq(Samples)
    BY <1>1 DEF Sound, ClusterType, ClockType
  <2>2. Observations(cluster.clock) >= 1 <=> cluster.clock.offsets # <<>>
    BY <2>1 DEF Observations
  <2>3. IsTrusted(cluster.clock) => Observations(cluster.clock) >= 1
    BY <2>1, ClockAssumption DEF IsTrusted, Observations
  <2> QED
    BY <1>1, <2>2, <2>3 DEF IsUsable, UsableHasCounter, Sound
<1> QED
  BY <1>1, Soundness, PTL

(* However many addresses name us master, the table of them is bounded.    *)
(* (follow.rs 531-538)                                                     *)
THEOREM AdopterTableIsBounded == Spec => []AdoptersCapped
<1>1. Sound(cluster) => AdoptersCapped
  BY DEF Sound, AdoptersCapped
<1> QED
  BY <1>1, Soundness, PTL

-----------------------------------------------------------------------------
(* Timing comes from nodes: without a master there is none.                *)
LEMMA MeasuredFromNodes ==
  ASSUME NEW c \in ClusterType
  PROVE  MeasuredFrom(c) \subseteq Node
<1>1. ASSUME NEW seq \in Seq(Samples)
      PROVE  Sources(seq) \subseteq Node
  <2>1. \A i \in DOMAIN seq : seq[i] \in Samples
    OBVIOUS
  <2>2. \A x \in Samples : x.of \in Node
    BY DEF Samples
  <2> QED
    BY <2>1, <2>2 DEF Sources
<1>2. ClockSources(c.clock) \subseteq Node
  BY <1>1 DEF ClusterType, ClockType, ClockSources
<1>3. {c.schedule.of} \ {None} \subseteq Node
  BY DEF ClusterType, ScheduleType
<1>4. c.last_master_aw # None => c.last_master_aw.of \in Node
  BY DEF ClusterType
<1> QED
  BY <1>2, <1>3, <1>4 DEF MeasuredFrom

(* Every step keeps the lord or takes a better one.                        *)
LEMMA StepKeepsOrBetters ==
  Sound(cluster) /\ [Next]_cluster =>
    SameLord(cluster, cluster') \/ NewLord(cluster, cluster')
<1> SUFFICES ASSUME Sound(cluster), [Next]_cluster
             PROVE  SameLord(cluster, cluster') \/ NewLord(cluster, cluster')
  OBVIOUS
<1>1. ASSUME NEW f \in Frames, Hear(f)
      PROVE  SameLord(cluster, cluster') \/ NewLord(cluster, cluster')
  BY <1>1, HearFrameIsSound DEF Hear
<1>2. CASE UNCHANGED cluster
  BY <1>2 DEF SameLord
<1> QED
  BY <1>1, <1>2 DEF Next

(* A master is left only for a strictly better claim.                      *)
(* (follow.rs 553-575)                                                     *)
THEOREM OnlyBetterMasters == Spec => YieldsOnlyToBetter
<1>1. Sound(cluster) /\ [Next]_cluster =>
        (cluster.master # None /\ cluster'.master # cluster.master
           /\ cluster.master_metric # None
         => cluster'.master # None /\ cluster'.master_metric > cluster.master_metric)
  BY StepKeepsOrBetters DEF SameLord, NewLord
<1> QED
  BY <1>1, Soundness, PTL DEF Spec, YieldsOnlyToBetter

(* Tracking implements allegiance.  (follow.rs observe_at 516-626)         *)
THEOREM Refinement == Spec => ImplementsAllegiance
<1>1. Init => Abstract!Init
  <2>1. Sources(<<>>) = {}
    BY DEF Sources
  <2> QED
    BY <2>1 DEF Init, Abstract!Init, NewCluster, NewClock, NoSchedule, MeasuredFrom,
                ClockSources
<1>2. Sound(cluster) /\ Sound(cluster)' /\ [Next]_cluster =>
        [Abstract!Next]_(Abstract!allegiance)
  <2> SUFFICES ASSUME Sound(cluster), Sound(cluster'), [Next]_cluster
               PROVE  [Abstract!Next]_(Abstract!allegiance)
    OBVIOUS
  <2>1. /\ MeasuredFrom(cluster) \subseteq {cluster.master}
        /\ MeasuredFrom(cluster') \subseteq {cluster'.master}
    BY DEF Sound
  <2>2. /\ cluster'.master \in Node \cup {None}
        /\ cluster'.master_metric \in Nat \cup {None}
        /\ None \notin Node
    BY ClusterAssumption, TrackerAssumption DEF Sound, ClusterType
  <2>3. CASE NewLord(cluster, cluster')
    <3>1. Abstract!Join(cluster'.master)
      BY <2>1, <2>2, <2>3 DEF NewLord, Abstract!Join
    <3> QED
      BY <2>2, <2>3, <3>1 DEF NewLord, Abstract!Next
  <2>4. CASE SameLord(cluster, cluster') /\ cluster.master # None
    <3>1. Abstract!Stay
      BY <2>1, <2>4 DEF SameLord, Abstract!Stay
    <3> QED
      BY <3>1 DEF Abstract!Next
  <2>5. CASE SameLord(cluster, cluster') /\ cluster.master = None
    <3>1. MeasuredFrom(cluster) = {} /\ MeasuredFrom(cluster') = {}
      BY <2>1, <2>2, <2>5, MeasuredFromNodes DEF SameLord, Sound
    <3> QED
      BY <2>5, <3>1 DEF SameLord, Abstract!allegiance
  <2> QED
    BY <2>3, <2>4, <2>5, StepKeepsOrBetters
<1> QED
  BY <1>1, <1>2, Soundness, PTL DEF Spec, ImplementsAllegiance, Abstract!Spec
=============================================================================
