---------------------------- MODULE ClockTracking ---------------------------
(***************************************************************************)
(* One receiver's cluster clock fed by one master.                         *)
(*                                                                         *)
(* The master is the environment: a timeline that began at `origin' of our *)
(* time and advances one availability window every AwUs.  Its frames reach *)
(* us exactly, late (the receiver's socket backlog), or carrying an odd    *)
(* counter -- the two glitches the code names -- and its timeline may be   *)
(* re-anchored.  The receiver does what follow.rs does with each frame.    *)
(*                                                                         *)
(* What is asked: which sequences of frames may move the phase, and how    *)
(* soon a disturbed phase is the master's again.                           *)
(***************************************************************************)
EXTENDS ClusterClock

CONSTANTS
  Master,         \* the node that sends
  PresenceModes,  \* presence modes the master may advertise
  CounterMod,     \* u16 wrap-around of aw_counter (2^16)
  PhyMod,         \* u32 wrap-around of phy_tx_time (2^32)
  Stamping,       \* may the master stamp phy_tx_time, may it not?
  ReportsLeft,    \* does it fill in aw_remaining?  An iPhone leaves 0
  Start,          \* our clock when the session begins
  Horizon,        \* bound on our clock
  Origins,        \* where the master's timeline may begin
  TsfEpochs,      \* where its TSF may have begun
  Lateness,       \* how late a backlog may stamp a frame
  OddSteps,       \* by how much an odd counter is off
  MaxGlitches,    \* bound on glitches in a behaviour
  MaxAnchors      \* bound on how often the master re-anchors

ASSUME TrackingAssumption ==
  /\ Confirm > 1
  /\ PresenceModes \subseteq 1..255
  /\ \A pm \in PresenceModes : CycleUs(pm) <= HostMod
  /\ CounterMod \in Nat \ {0} /\ PhyMod \in Nat \ {0}
  /\ Start \in Nat /\ Horizon \in Nat /\ Start <= Horizon
  /\ Origins \subseteq 0..Start /\ TsfEpochs \subseteq 0..Start
  /\ Lateness \subseteq Nat /\ OddSteps \subseteq Nat
  /\ MaxGlitches \in Nat /\ MaxAnchors \in Nat
  /\ Stamping \subseteq BOOLEAN /\ ReportsLeft \in BOOLEAN

VARIABLES
  now,        \* our clock
  origin,     \* when the master's counter was 0, on our clock
  tsfEpoch,   \* when its TSF was 0, on our clock
  mode,       \* the presence mode it advertises
  stamps,     \* does it stamp phy_tx_time?
  clock,      \* our ClusterClock
  exactRun,   \* history: exact frames since the last disturbance
  streak,     \* history: latest offers that each agree with the one before
  lastOffer,  \* history: the phase the last frame offered, -1 before any
  glitches,   \* history: glitches so far
  anchors     \* history: re-anchorings so far

vars == <<now, origin, tsfEpoch, mode, stamps, clock, exactRun, streak, lastOffer,
          glitches, anchors>>
master == <<origin, tsfEpoch, mode, stamps>>

(* Exact frames that must follow a disturbance before the phase is right:  *)
(* Confirm replace a wrong anchor; with phy_tx_time the alignment is the   *)
(* median of the last Keep samples, so more than half of them are needed.  *)
Settle ==
  IF stamps /\ Keep \div 2 + 1 > Confirm THEN Keep \div 2 + 1 ELSE Confirm

-----------------------------------------------------------------------------
(* The master's timeline.                                                  *)

CounterAt(t) == ((t - origin) \div AwUs) % CounterMod
LeftAt(t) == IF ReportsLeft THEN (AwUs - ((t - origin) % AwUs)) \div TuUs ELSE 0
PhyAt(t) == IF stamps THEN (t - tsfEpoch) % PhyMod ELSE 0
TrueSlot(t) == ((t - origin) \div EawUs(mode)) % Slots

(* The frame the master sent at time t, stamped `stamp' when it arrived,   *)
(* its counter off by `odd'.                                               *)
Frame(t, stamp, odd) ==
  [of |-> Master, arrived_us |-> stamp, counter |-> (CounterAt(t) + odd) % CounterMod,
   remaining_tu |-> LeftAt(t), presence_mode |-> mode, phy_tx_time |-> PhyAt(t)]

(* Fold a frame in, and remember how it relates to the one before it.      *)
Receive(s) ==
  LET ruled == Ruled(clock, s)
      off   == Offered(ruled, s)
      agrees == /\ lastOffer # -1
                /\ ruled.presence_mode = clock.presence_mode
                /\ CircularDist(off, lastOffer, Cycle(ruled)) <= Tolerance(ruled)
  IN  /\ clock' = ClockObserve(clock, s)
      /\ lastOffer' = off
      /\ streak' = IF agrees THEN (IF streak < Confirm THEN streak + 1 ELSE streak)
                   ELSE 1

Init ==
  /\ now = Start
  /\ origin \in Origins
  /\ tsfEpoch \in TsfEpochs
  /\ mode \in PresenceModes
  /\ stamps \in Stamping
  /\ clock = NewClock(0)
  /\ exactRun = 0
  /\ streak = 0
  /\ lastOffer = -1
  /\ glitches = 0
  /\ anchors = 0

Tick ==
  /\ now < Horizon
  /\ now' = now + 1
  /\ UNCHANGED <<master, clock, exactRun, streak, lastOffer, glitches, anchors>>

HearExact ==
  /\ Receive(Frame(now, now, 0))
  /\ exactRun' = IF exactRun < Settle THEN exactRun + 1 ELSE exactRun
  /\ UNCHANGED <<now, master, glitches, anchors>>

HearLate(d) ==
  /\ glitches < MaxGlitches
  /\ Receive(Frame(now - d, now, 0))
  /\ exactRun' = 0
  /\ glitches' = glitches + 1
  /\ UNCHANGED <<now, master, anchors>>

HearOdd(k) ==
  /\ glitches < MaxGlitches
  /\ Receive(Frame(now, now, k))
  /\ exactRun' = 0
  /\ glitches' = glitches + 1
  /\ UNCHANGED <<now, master, anchors>>

(* The master restarts its schedule, or changes what a slot is.            *)
Reanchor(o, pm) ==
  /\ anchors < MaxAnchors
  /\ <<o, pm>> # <<origin, mode>>
  /\ origin' = o
  /\ mode' = pm
  /\ anchors' = anchors + 1
  /\ exactRun' = 0
  /\ UNCHANGED <<now, tsfEpoch, stamps, clock, streak, lastOffer, glitches>>

Next ==
  \/ Tick
  \/ HearExact
  \/ \E d \in Lateness : HearLate(d)
  \/ \E k \in OddSteps : HearOdd(k)
  \/ \E o \in Origins, pm \in PresenceModes : Reanchor(o, pm)

Spec == Init /\ [][Next]_vars

-----------------------------------------------------------------------------
ClockType ==
  LET IsHistory(seq, bound) ==
        /\ Len(seq) <= bound
        /\ \A i \in DOMAIN seq : seq[i] \in [of : {Master}, us : 0..(Cycle(clock) - 1)]
  IN  /\ clock.presence_mode \in {0} \cup PresenceModes
      /\ IsHistory(clock.offsets, Keep)
      /\ IsHistory(clock.align_samples, Keep)
      /\ IsHistory(clock.pending, Confirm - 1)
      /\ clock.offsets = <<>> => clock.pending = <<>>

(* The type invariant: every sample is a phase within the cycle, no        *)
(* history outgrows its bound, and outliers are held against an anchor.    *)
(* (follow.rs 143-164)                                                     *)
TypeOK ==
  /\ now \in Start..Horizon
  /\ origin \in Origins /\ tsfEpoch \in TsfEpochs /\ mode \in PresenceModes
  /\ stamps \in Stamping
  /\ exactRun \in 0..Settle /\ streak \in 0..Confirm
  /\ lastOffer \in -1..(HostMod - 1)
  /\ glitches \in 0..MaxGlitches /\ anchors \in 0..MaxAnchors
  /\ ClockType

(* The counter of an exact frame places the cycle to within one window of  *)
(* the truth, at every counter value and presence mode.                    *)
(* (follow.rs cycle_origin_us 116-127: "correctly aligned to the master's  *)
(* awake window"; see findings for the first cycle of our clock)           *)
TruePhase == origin % CycleUs(mode)
CounterPhaseIsAligned ==
  ~stamps /\ exactRun >= 1 => CircularDist(lastOffer, TruePhase, CycleUs(mode)) < AwUs

AimsTrue ==
  \A slot \in 0..(Slots - 1) :
    TrueSlot(now + UsUntilSlotCentre(clock, now, slot)) = slot

(* The gap from the master's TSF epoch to its counter's, as frames show it *)
(* (to the time unit below), is on one side of the end of the ring.        *)
GapIsOffTheSeam ==
  LET gap == (origin + (CycleUs(mode) - (tsfEpoch % CycleUs(mode)))) % CycleUs(mode)
  IN  gap >= TuUs - 1

(* After Settle exact frames in a row the clock is the master's: waiting   *)
(* for the centre of any slot ends in that slot of the master's schedule.  *)
(* Late frames, odd counters, held outliers, a re-anchored timeline and a  *)
(* changed presence mode before them leave nothing behind.  Samples of a   *)
(* gap that straddles the end of the ring are excepted: the code takes     *)
(* their median on a line; see findings.                                   *)
(* (follow.rs observe 246-273, us_until_slot_centre 413-417)               *)
RecoversOnceSettled ==
  exactRun >= Settle /\ (stamps => GapIsOffTheSeam) => AimsTrue

(* Aiming at the centre forgives half a slot: whenever the newest anchor   *)
(* is less than half a slot off the true phase, every slot aimed for is    *)
(* the slot reached.  (follow.rs is_usable 367-371)                        *)
CentreForgivesHalfASlot ==
  /\ HasPhase(clock)
  /\ clock.presence_mode = mode
  /\ CircularDist(PhaseUs(clock), TruePhase, Cycle(clock)) < Tolerance(clock)
  => AimsTrue

(* The clock answers "which slot is it" and "how long until that slot"     *)
(* about one timeline: having waited for a slot's centre it reads itself   *)
(* to be in that slot.  (follow.rs slot_at 427-430)                        *)
WaitAgreesWithSlotAt ==
  HasPhase(clock) =>
    \A slot \in 0..(Slots - 1) :
      SlotAt(clock, now + UsUntilSlotCentre(clock, now, slot)) = slot

(* The newest anchor moves by more than half a slot only on the word of    *)
(* Confirm frames in a row that agree with each other.                     *)
(* (follow.rs observe 240-267: "One-off outliers are dropped")             *)
Jumps ==
  /\ HasPhase(clock) /\ clock'.offsets # <<>>
  /\ clock'.presence_mode = clock.presence_mode
  /\ CircularDist(NewestOf(clock'.offsets).us, NewestOf(clock.offsets).us, Cycle(clock))
       > Tolerance(clock)
JumpNeedsConfirmation == [][Jumps => streak' >= Confirm]_vars

(* A frame whose counter is odd does not throw the phase by half a slot    *)
(* when the frame before it was exact.  What follow.rs promises at 153-155 *)
(* and 240-245; where a frame carries a TSF, the outlier test (248) does   *)
(* not see its counter, which shifts the median all the same: findings.    *)
OddCounterDoesNotThrowPhase ==
  [][/\ exactRun >= 1
     /\ clock'.presence_mode = clock.presence_mode
     /\ glitches' > glitches
     => CircularDist(PhaseUs(clock)', PhaseUs(clock), Cycle(clock)) <= Tolerance(clock)]_vars

(* An estimate that is acted on passed the strict bar.  What the tests of  *)
(* follow.rs say; see findings for what is_usable does.                    *)
UsableIsTrusted == IsUsable(clock) => IsTrusted(clock)
=============================================================================
