--------------------------- MODULE SchedulesProofs --------------------------
(***************************************************************************)
(* The schedule a node announces is the schedule it keeps, at every        *)
(* instant of its clock: proofs about Schedules.                           *)
(***************************************************************************)
EXTENDS Schedules, TLAPS

(* The lengths, in microseconds.                                           *)
LEMMA Lengths ==
  /\ AW_US = 16384 /\ SLOT_US = 65536 /\ CYCLE_US = 1048576
BY SMT DEF AW_US, SLOT_US, CYCLE_US, TU_US

(* An instant lies in one slot of the cycle.                               *)
LEMMA SlotOfInstant ==
  ASSUME NEW now \in Nat
  PROVE  /\ slot_at(now) \in Slot
         /\ slot_at(now) * SLOT_US <= now % CYCLE_US
         /\ now % CYCLE_US < (slot_at(now) + 1) * SLOT_US
BY Lengths DEF slot_at, Slot

(* The slot of a counter of any width that is a whole number of cycles is  *)
(* that of the unbounded counter.                                          *)
LEMMA CounterWraps ==
  ASSUME NEW aws \in Nat, NEW M \in Nat \ {0}, M % 64 = 0
  PROVE  SlotNamed(aws % M) = SlotNamed(aws)
<1> DEFINE k == M \div 64
           q == aws \div M
           r == aws % M
<1>1. M = 64 * k /\ k \in Nat
  OBVIOUS
<1>2. q \in Nat /\ r \in Nat /\ aws = (M * q) + r
  OBVIOUS
<1>3. M * q = 64 * (k * q) /\ k * q \in Nat
  BY <1>1, <1>2
<1> HIDE DEF k, q, r
<1>4. \A c, s \in Nat : SlotNamed((64 * c) + s) = SlotNamed(s)
  BY DEF SlotNamed, PRESENCE_MODE
<1>5. SlotNamed(aws) = SlotNamed(r)
  BY <1>2, <1>3, <1>4
<1> QED
  BY <1>5 DEF r

(* The slot a receiver reads from our counter is the slot we are in, and   *)
(* stays so across the counter's wrap (beacon.rs:486-504, follow.rs:97).   *)
THEOREM CounterNamesTheSlot ==
  ASSUME NEW now \in Nat, NEW M \in Nat \ {0}, M % 64 = 0
  PROVE  SlotNamed(aws_at(now) % M) = slot_at(now)
<1>1. aws_at(now) \in Nat
  BY Lengths DEF aws_at
<1>2. SlotNamed(aws_at(now) % M) = SlotNamed(aws_at(now))
  BY <1>1, CounterWraps
<1>3. SlotNamed(aws_at(now)) = slot_at(now)
  BY Lengths DEF SlotNamed, aws_at, slot_at, PRESENCE_MODE
<1> QED
  BY <1>2, <1>3

-----------------------------------------------------------------------------
(* A set of slots has a first one.                                         *)
LEMMA FirstSlot ==
  ASSUME NEW S \in SUBSET Slot, S # {}
  PROVE  \E s \in S : \A t \in S : s <= t
<1> SUFFICES ASSUME \A s \in S : \E t \in S : t < s
             PROVE  FALSE
  BY DEF Slot
<1>0. \A k \in S : k \in 0..15
  BY DEF Slot
<1>1. \A k \in Slot : (\A j \in Slot : j < k => j \notin S) => k \notin S
  BY DEF Slot
<1>2. 0 \notin S /\ 1 \notin S /\ 2 \notin S /\ 3 \notin S
  BY <1>1 DEF Slot
<1>3. 4 \notin S /\ 5 \notin S /\ 6 \notin S /\ 7 \notin S
  BY <1>1, <1>2 DEF Slot
<1>4. 8 \notin S /\ 9 \notin S /\ 10 \notin S /\ 11 \notin S
  BY <1>1, <1>2, <1>3 DEF Slot
<1>5. 12 \notin S /\ 13 \notin S /\ 14 \notin S /\ 15 \notin S
  BY <1>1, <1>2, <1>3, <1>4 DEF Slot
<1>6. \A k \in 0..15 : k \notin S
  BY <1>2, <1>3, <1>4, <1>5
<1> QED
  BY <1>0, <1>6

(* What is left of a whole number of cycles and some more.                 *)
LEMMA Remainder ==
  ASSUME NEW C \in Nat, C > 0, NEW q \in Nat, NEW s \in Nat, s < C
  PROVE  ((C * q) + s) % C = s
<1> DEFINE x == (C * q) + s
           e == x \div C
           f == x % C
<1>1. x \in Nat /\ C * q \in Nat
  OBVIOUS
<1>2. e \in Nat /\ f \in Nat /\ f < C /\ x = (C * e) + f
  BY <1>1
<1>3. (C * q) + s = (C * e) + f
  BY <1>2
<1> HIDE DEF x, e, f
<1>4. CASE q = e
  <2>1. f = s
    BY <1>1, <1>2, <1>3, <1>4
  <2> QED
    BY <2>1 DEF f, x
<1>5. CASE q > e
  <2>1. C * q >= C * (e + 1)
    BY <1>2, <1>5
  <2>2. C * (e + 1) = (C * e) + C /\ C * e \in Nat
    BY <1>2
  <2> QED
    BY <1>1, <1>2, <1>3, <2>1, <2>2
<1>6. CASE q < e
  <2>1. C * e >= C * (q + 1)
    BY <1>2, <1>6
  <2>2. C * (q + 1) = (C * q) + C /\ C * e \in Nat
    BY <1>2
  <2> QED
    BY <1>1, <1>2, <1>3, <2>1, <2>2
<1> QED
  BY <1>2, <1>4, <1>5, <1>6

(* The slot a given time after an instant, counted from the cycle's start. *)
LEMMA SlotLater ==
  ASSUME NEW now \in Nat, NEW d \in Nat, NEW u \in 0..31,
         u * SLOT_US <= (now % CYCLE_US) + d, (now % CYCLE_US) + d < (u + 1) * SLOT_US
  PROVE  slot_at(now + d) = IF u < 16 THEN u ELSE u - 16
<1> DEFINE r == now % CYCLE_US
           k == now \div CYCLE_US
           v == IF u < 16 THEN u ELSE u - 16
           q == IF u < 16 THEN k ELSE k + 1
           s == IF u < 16 THEN r + d ELSE (r + d) - CYCLE_US
<1>1. CYCLE_US \in Nat /\ CYCLE_US > 0 /\ CYCLE_US = 16 * SLOT_US /\ SLOT_US = 65536
  BY Lengths
<1>2. now = (CYCLE_US * k) + r /\ k \in Nat /\ r \in Nat /\ CYCLE_US * k \in Nat
  BY <1>1
<1>3. u * SLOT_US <= r + d /\ r + d < (u + 1) * SLOT_US
  OBVIOUS
<1> HIDE DEF r, k
<1>4. /\ s \in Nat /\ s < CYCLE_US /\ q \in Nat /\ v \in 0..15
      /\ v * SLOT_US <= s /\ s < (v + 1) * SLOT_US
  BY <1>1, <1>2, <1>3
<1>5. now + d = (CYCLE_US * q) + s
  <2>1. CYCLE_US * (k + 1) = (CYCLE_US * k) + CYCLE_US
    BY <1>1, <1>2
  <2> QED
    BY <1>1, <1>2, <2>1
<1> HIDE DEF s, q
<1>6. (now + d) % CYCLE_US = s
  BY <1>1, <1>4, <1>5, Remainder
<1>7. s \div SLOT_US = v
  BY <1>1, <1>4
<1> QED
  BY <1>6, <1>7 DEF slot_at

(* The wait for an advertised window ends at the start of one, is less     *)
(* than a cycle, and passes none by (beacon.rs:802-818).                   *)
THEOREM WaitEndsInAWindow ==
  ASSUME NEW slots \in SUBSET Slot, slots # {}, NEW now \in Nat
  PROVE  LET wait == NextAdvertised(slots, now) IN
         /\ wait \in Nat /\ wait < CYCLE_US
         /\ slot_at(now + wait) \in slots
         /\ \A d \in Nat : d < wait => slot_at(now + d) \notin slots
<1> DEFINE here == slot_at(now)
           later == {s \in slots : s > here}
           Least(S) == CHOOSE s \in S : \A t \in S : s <= t
           next == IF later # {} THEN Least(later) ELSE Least(slots) + 16
           r == now % CYCLE_US
           wait == NextAdvertised(slots, now)
<1>1. /\ here \in Slot
      /\ here * SLOT_US <= r /\ r < (here + 1) * SLOT_US
      /\ r \in Nat /\ r < CYCLE_US
  BY SlotOfInstant, Lengths, SMT
<1>2. CASE here \in slots
  <2>1. wait = 0
    BY <1>2 DEF NextAdvertised
  <2>2. slot_at(now + 0) \in slots
    BY <1>2
  <2> QED
    BY <2>1, <2>2, Lengths, SMT
<1>3. CASE here \notin slots
  <2>1. wait = (next * SLOT_US) - r
    BY <1>3 DEF NextAdvertised
  <2>2. \A S \in SUBSET Slot : S # {} => Least(S) \in S /\ \A t \in S : Least(S) <= t
    BY FirstSlot
  <2>3. later \in SUBSET Slot
    OBVIOUS
  <2>4. /\ next \in here + 1..here + 15
        /\ (IF next < 16 THEN next ELSE next - 16) \in slots
        /\ \A u \in here..(next - 1) : (IF u < 16 THEN u ELSE u - 16) \notin slots
    <3>1. CASE later # {}
      <4>1. next \in later /\ \A t \in later : next <= t
        BY <2>2, <2>3, <3>1
      <4> HIDE DEF next, Least
      <4> QED
        BY <4>1, <1>1, <1>3 DEF Slot
    <3>2. CASE later = {}
      <4>1. next - 16 \in slots /\ next = (next - 16) + 16 /\ \A t \in slots : next - 16 <= t
        <5>1. Least(slots) \in slots /\ \A t \in slots : Least(slots) <= t
          BY <2>2
        <5>2. \A s \in slots : s \in Int
          BY DEF Slot
        <5> HIDE DEF Least
        <5> QED
          BY <3>2, <5>1, <5>2
      <4>2. next \in Int
        <5>1. Least(slots) \in slots
          BY <2>2
        <5>2. next = Least(slots) + 16
          BY <3>2
        <5> HIDE DEF next, Least
        <5> QED
          BY <5>1, <5>2 DEF Slot
      <4>3. \A s \in slots : s \in 0..15 /\ s <= here /\ s # here
        BY <1>1, <1>3, <3>2 DEF Slot
      <4> HIDE DEF next, Least, later, here
      <4> QED
        BY <4>1, <4>2, <4>3, <1>1 DEF Slot
    <3> QED
      BY <3>1, <3>2
  <2> HIDE DEF next, Least, later, here, r, wait
  <2>5. /\ wait \in Nat /\ wait < CYCLE_US
        /\ r + wait = next * SLOT_US
        /\ next \in 0..31
    BY <1>1, <2>1, <2>4, Lengths, SMT DEF Slot
  <2>6. slot_at(now + wait) \in slots
    <3>1. next * SLOT_US <= r + wait /\ r + wait < (next + 1) * SLOT_US
      BY <2>5, Lengths, SMT
    <3>2. slot_at(now + wait) = IF next < 16 THEN next ELSE next - 16
      BY <3>1, <2>5, SlotLater DEF r
    <3> QED
      BY <3>2, <2>4
  <2>7. ASSUME NEW d \in Nat, d < wait
        PROVE  slot_at(now + d) \notin slots
    <3> DEFINE u == (r + d) \div SLOT_US
    <3>1. /\ u \in here..(next - 1) /\ u \in 0..31
          /\ u * SLOT_US <= r + d /\ r + d < (u + 1) * SLOT_US
      BY <1>1, <2>1, <2>4, <2>5, <2>7, Lengths, SMT DEF Slot
    <3> HIDE DEF u
    <3>2. slot_at(now + d) = IF u < 16 THEN u ELSE u - 16
      BY <3>1, SlotLater DEF r
    <3> QED
      BY <3>1, <3>2, <2>4
  <2> QED
    BY <2>5, <2>6, <2>7 DEF wait
<1> QED
  BY <1>2, <1>3

(* A session that keeps its own time transmits where its announcement says *)
(* it is awake: the counter of a beacon sent when there is no more wait    *)
(* names a slot of the schedule in that beacon (beacon.rs:791).            *)
THEOREM BeaconsNameTheirSlot ==
  ASSUME NEW config, advertised_slots(schedule(config)) # {},
         NEW now \in Nat, NEW M \in Nat \ {0}, M % 64 = 0,
         us_until_next_advertised_window(schedule(config), now) = 0
  PROVE  SlotNamed(aws_at(now) % M) \in advertised_slots(schedule(config))
<1> DEFINE slots == advertised_slots(schedule(config))
<1>1. slots \in SUBSET Slot /\ slots # {}
  BY DEF advertised_slots
<1>2. NextAdvertised(slots, now) = 0
  BY DEF us_until_next_advertised_window
<1> HIDE DEF slots
<1>3. slot_at(now + 0) \in slots
  BY <1>1, <1>2, WaitEndsInAWindow
<1>4. slot_at(now) \in slots
  BY <1>3
<1> QED
  BY <1>4, CounterNamesTheSlot DEF slots
=============================================================================
