---------------------------- MODULE ClusterClock ----------------------------
(***************************************************************************)
(* The cluster clock of crates/tlink/src/follow.rs: an estimate of where a *)
(* master's sixteen-slot cycle begins on our own clock, built from the     *)
(* frames the master sends.                                                *)
(*                                                                         *)
(* The module is the pure part: a clock is a value, and every operator     *)
(* below is one method of Sighting or ClusterClock.  ClockTracking drives  *)
(* it with a master; Cluster holds one per node.                           *)
(*                                                                         *)
(* A sample is a phase in microseconds together with the node it was       *)
(* measured from.  The code stores the number only: the field "of" is      *)
(* history, read by properties and by no operator here.                    *)
(***************************************************************************)
EXTENDS Integers, Sequences, FiniteSets

CONSTANTS
  Slots,        \* slots in a cycle: 16 in the code
  AwUs,         \* one availability window, AW_US (16384 us)
  TuUs,         \* one time unit, TU_US (1024 us)
  Keep,         \* anchors kept, KEEP and ALIGN_KEEP (64)
  Recent,       \* anchors the spread is read from, RECENT (8)
  Confirm,      \* agreeing outliers that make a re-anchor (3)
  Trusted,      \* anchors that pass the strict bar of is_usable (4)
  HostMod       \* u64 wrap-around of the receiver's clock (2^64)

ASSUME ClockAssumption ==
  /\ Slots \in Nat \ {0}
  /\ AwUs \in Nat \ {0}
  /\ TuUs \in Nat \ {0}
  /\ Keep \in Nat \ {0}
  /\ Recent \in Nat \ {0}
  /\ Confirm \in Nat \ {0}
  /\ Trusted \in Nat \ {0}
  /\ HostMod \in Nat \ {0}

-----------------------------------------------------------------------------
(* Arithmetic of the source: u64::saturating_sub, max(1), wrapping_sub.    *)

SatSub(a, b) == IF a >= b THEN a - b ELSE 0
AtLeastOne(pm) == IF pm = 0 THEN 1 ELSE pm
WrapSub(a, b) == (a - b) % HostMod

(* A slot is an extended window: presence_mode availability windows.       *)
EawUs(pm) == AtLeastOne(pm) * AwUs
CycleUs(pm) == Slots * EawUs(pm)

-----------------------------------------------------------------------------
(* One sighting: [of, arrived_us, counter, remaining_tu, presence_mode,    *)
(* phy_tx_time].                                                           *)

\* Mutant: a slot is one availability window.
SlotIsOneWindow(s) == s.counter % Slots

SlotOf(s) == (s.counter \div AtLeastOne(s.presence_mode)) % Slots

\* Mutant: the position within the window, not within the slot.
IntoWindowOnly(s) == SatSub(AwUs, s.remaining_tu * TuUs)

IntoSlotUs(s) ==
  (s.counter % AtLeastOne(s.presence_mode)) * AwUs
    + SatSub(AwUs, s.remaining_tu * TuUs)

(* Where the cycle began, from the counter.  Both subtractions saturate at *)
(* the receiver's time zero.                                               *)
CycleOriginUs(s) ==
  SatSub(SatSub(s.arrived_us, IntoSlotUs(s)), SlotOf(s) * EawUs(s.presence_mode))

(* The same from the sender's TSF; only meaningful when phy_tx_time # 0.   *)
CycleOriginPhy(s) == WrapSub(s.arrived_us, s.phy_tx_time % CycleUs(s.presence_mode))

HasPhy(s) == s.phy_tx_time # 0

-----------------------------------------------------------------------------
CircularDist(a, b, cycle) ==
  LET d == (a + cycle - (b % cycle)) % cycle
  IN  IF d <= cycle - d THEN d ELSE cycle - d

(* Vec::drain(..excess): forget the oldest, keep at most n.                *)
\* Mutant: off by one.
NewestPlusOne(seq, n) ==
  IF Len(seq) <= n + 1 THEN seq ELSE SubSeq(seq, Len(seq) - n, Len(seq))

Newest(seq, n) ==
  IF Len(seq) <= n THEN seq ELSE SubSeq(seq, Len(seq) - n + 1, Len(seq))

NewestOf(seq) == seq[Len(seq)]

Sample(node, us) == [of |-> node, us |-> us]

(* ClusterClock::new; Cluster::default() starts with presence_mode 0.      *)
NewClock(pm) ==
  [offsets |-> <<>>, presence_mode |-> pm, pending |-> <<>>, align_samples |-> <<>>]

Cleared(clock) ==
  [clock EXCEPT !.offsets = <<>>, !.pending = <<>>, !.align_samples = <<>>]

SlotUs(clock) == EawUs(clock.presence_mode)
Cycle(clock) == CycleUs(clock.presence_mode)
Tolerance(clock) == SlotUs(clock) \div 2
Observations(clock) == Len(clock.offsets)

-----------------------------------------------------------------------------
(* ClusterClock::observe, in the order of the code.                        *)

(* A changed presence mode is a changed ruler: start over.                 *)
Ruled(clock, s) ==
  IF AtLeastOne(s.presence_mode) = clock.presence_mode
  THEN clock
  ELSE [Cleared(clock) EXCEPT !.presence_mode = AtLeastOne(s.presence_mode)]

CounterOff(clock, s) == CycleOriginUs(s) % Cycle(clock)
PhyOff(clock, s) == CycleOriginPhy(s) % Cycle(clock)

(* The anchor this sighting offers, and the alignment sample it leaves     *)
(* behind -- before, and whatever, the outlier test below decides.         *)
Offered(clock, s) == IF HasPhy(s) THEN PhyOff(clock, s) ELSE CounterOff(clock, s)

Aligned(clock, s) ==
  IF ~HasPhy(s) THEN clock
  ELSE LET gap == (CounterOff(clock, s) + Cycle(clock) - PhyOff(clock, s)) % Cycle(clock)
       IN  [clock EXCEPT !.align_samples = Newest(Append(@, Sample(s.of, gap)), Keep)]

IsOutlier(clock, off) ==
  /\ clock.offsets # <<>>
  /\ CircularDist(off, NewestOf(clock.offsets).us, Cycle(clock)) > Tolerance(clock)

IsConfirmed(clock, off) ==
  /\ clock.pending # <<>>
  /\ CircularDist(off, NewestOf(clock.pending).us, Cycle(clock)) <= Tolerance(clock)

(* An outlier is held: it restarts the streak when it disagrees with the   *)
(* one before it, and becomes the anchor when Confirm of them agree.       *)
HoldOutlier(clock, sample) ==
  IF ~IsConfirmed(clock, sample.us)
  THEN [clock EXCEPT !.pending = <<sample>>]
  ELSE IF Len(clock.pending) + 1 >= Confirm
       THEN [clock EXCEPT !.offsets = <<sample>>, !.pending = <<>>]
       ELSE [clock EXCEPT !.pending = Append(@, sample)]

\* Mutant: a frame that agrees leaves the held outliers in place.
AcceptKeepsPending(clock, sample) ==
  [clock EXCEPT !.offsets = Newest(Append(@, sample), Keep)]

Accept(clock, sample) ==
  [clock EXCEPT !.offsets = Newest(Append(@, sample), Keep),
                !.pending = IF clock.offsets = <<>> THEN @ ELSE <<>>]

ClockObserve(old, s) ==
  LET ruled  == Ruled(old, s)
      sample == Sample(s.of, Offered(ruled, s))
      clock  == Aligned(ruled, s)
  IN  IF IsOutlier(clock, sample.us) THEN HoldOutlier(clock, sample)
                                     ELSE Accept(clock, sample)

(* ClusterClock::reset, called when the master changes.                    *)
ClockReset(clock) == Cleared(clock)

-----------------------------------------------------------------------------
(* What is read from a clock.                                              *)

(* v[len/2] of the sorted samples: the element with at most len/2 samples  *)
(* below it and more than len/2 at or below it.                            *)
UpperMedian(seq) ==
  LET below(x) == {i \in DOMAIN seq : seq[i].us < x}
      upTo(x)  == {i \in DOMAIN seq : seq[i].us <= x}
      middle   == CHOOSE i \in DOMAIN seq :
                    /\ Cardinality(below(seq[i].us)) <= Len(seq) \div 2
                    /\ Cardinality(upTo(seq[i].us)) > Len(seq) \div 2
  IN  seq[middle].us

AlignDelta(clock) ==
  IF clock.align_samples = <<>> THEN 0 ELSE UpperMedian(clock.align_samples)

HasPhase(clock) == clock.offsets # <<>>

(* The newest anchor wins, shifted onto the window by the median gap.      *)
PhaseUs(clock) == (NewestOf(clock.offsets).us + AlignDelta(clock)) % Cycle(clock)

(* The narrowest arc of the ring that holds the recent anchors.            *)
SpreadUs(clock) ==
  LET recent == Newest(clock.offsets, Recent)
      arc(cut) == {(recent[i].us + Cycle(clock) - recent[cut].us) % Cycle(clock) :
                     i \in DOMAIN recent}
      width(cut) == CHOOSE w \in arc(cut) : \A v \in arc(cut) : v <= w
      widths == {width(cut) : cut \in DOMAIN recent}
  IN  CHOOSE w \in widths : \A v \in widths : w <= v

IsTrusted(clock) ==
  /\ Observations(clock) >= Trusted
  /\ Observations(clock) >= 2
  /\ SpreadUs(clock) \div 2 < Tolerance(clock)

(* Trusted, or provisionally synced: one anchor is enough.                 *)
IsUsable(clock) == IsTrusted(clock) \/ Observations(clock) >= 1

\* Mutant: the boundary of the slot, not its centre.
UsUntilSlot(clock, now, slot) ==
  LET target == (PhaseUs(clock) + (slot % Slots) * SlotUs(clock)) % Cycle(clock)
  IN  (target + Cycle(clock) - (now % Cycle(clock))) % Cycle(clock)

(* Mutant: a slot measured as one availability window.                     *)
SlotAtByWindow(clock, now) ==
  (((now + Cycle(clock) - PhaseUs(clock)) % Cycle(clock)) \div AwUs) % Slots

SlotAt(clock, now) ==
  ((now + Cycle(clock) - PhaseUs(clock)) % Cycle(clock)) \div SlotUs(clock)

UsUntilSlotCentre(clock, now, slot) ==
  LET target == (PhaseUs(clock) + (slot % Slots) * SlotUs(clock) + Tolerance(clock))
                  % Cycle(clock)
  IN  (target + Cycle(clock) - (now % Cycle(clock))) % Cycle(clock)
=============================================================================
