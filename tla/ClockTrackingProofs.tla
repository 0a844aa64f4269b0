------------------------- MODULE ClockTrackingProofs ------------------------
(***************************************************************************)
(* What holds of a clock that tracks a master, for every length of window, *)
(* slot and cycle, every bar of the estimate and every sequence of frames. *)
(*                                                                         *)
(* Four arguments.  A clock stays a clock, and what it holds of outliers   *)
(* is the end of a run of frames that agree.  The instant waited for is,   *)
(* but for whole cycles, the phase, the slots before and half a slot; so   *)
(* it is in the slot, by the clock's reckoning and by that of any timeline *)
(* less than half a slot away.  A counter says where the cycle began.  And *)
(* exact frames replace the anchor and outvote, in the median, every       *)
(* sample before them.                                                     *)
(***************************************************************************)
EXTENDS ClockTracking, FiniteSetTheorems, WellFoundedInduction, TLAPS

-----------------------------------------------------------------------------
(* Arithmetic: quotient and remainder are what they should be.             *)
LEMMA Division ==
  ASSUME NEW x \in Int, NEW m \in Nat, m > 0
  PROVE  /\ x \div m \in Int /\ x % m \in 0..(m - 1)
         /\ x = (m * (x \div m)) + (x % m)
BY SMT

LEMMA Divided ==
  ASSUME NEW x \in Int, NEW m \in Nat, m > 0
  PROVE  \E q \in Int : \E r \in 0..(m - 1) : x = (m * q) + r /\ x % m = r /\ x \div m = q
BY Division

(* The same without the quotient.                                          *)
LEMMA Remains ==
  ASSUME NEW x \in Int, NEW m \in Nat, m > 0
  PROVE  \E q \in Int, r \in 0..(m - 1) : x = (m * q) + r /\ x % m = r
BY Divided

LEMMA Times ==
  ASSUME NEW m \in Nat, NEW q \in Int, NEW n \in Int, q < n
  PROVE  m * q + m <= m * n
<1>1. (n - q) - 1 \in Nat
  OBVIOUS
<1>2. \A a, b \in Nat : a * b \in Nat
  OBVIOUS
<1>3. m * ((n - q) - 1) \in Nat
  BY <1>1, <1>2
<1>4. m * ((n - q) - 1) = ((m * n) - (m * q)) - m
  OBVIOUS
<1>5. m * n \in Int /\ m * q \in Int
  OBVIOUS
<1> QED
  BY <1>3, <1>4, <1>5

LEMMA Quotient ==
  ASSUME NEW m \in Nat, m > 0, NEW q \in Int, NEW r \in 0..(m - 1)
  PROVE  ((m * q) + r) % m = r /\ ((m * q) + r) \div m = q
<1> DEFINE x == (m * q) + r
           e == x \div m
           f == x % m
<1>1. x \in Int /\ m * q \in Int
  OBVIOUS
<1>2. e \in Int /\ f \in 0..(m - 1) /\ x = (m * e) + f
  BY <1>1, Division
<1>3. (m * q) + r = (m * e) + f /\ m * e \in Int
  BY <1>2
<1> HIDE DEF x, e, f
<1>4. ~(q < e)
  <2> SUFFICES ASSUME q < e PROVE FALSE
    OBVIOUS
  <2>1. m * q + m <= m * e
    BY <1>2, Times
  <2> QED
    BY <1>1, <1>2, <1>3, <2>1
<1>5. ~(e < q)
  <2> SUFFICES ASSUME e < q PROVE FALSE
    OBVIOUS
  <2>1. m * e + m <= m * q
    BY <1>2, Times
  <2> QED
    BY <1>1, <1>2, <1>3, <2>1
<1>6. e = q
  BY <1>2, <1>4, <1>5
<1>7. f = r
  BY <1>1, <1>2, <1>3, <1>6
<1> QED
  BY <1>6, <1>7 DEF e, f, x

(* A cycle is some slots, of at least one microsecond.                     *)
LEMMA Lengths ==
  ASSUME NEW pm \in Nat
  PROVE  /\ AtLeastOne(pm) \in Nat \ {0} /\ EawUs(pm) \in Nat \ {0} /\ CycleUs(pm) \in Nat \ {0}
         /\ CycleUs(pm) = EawUs(pm) * Slots /\ EawUs(pm) <= CycleUs(pm)
         /\ \A slot \in 0..(Slots - 1) :
              EawUs(pm) * slot \in Nat /\ EawUs(pm) * slot + EawUs(pm) <= CycleUs(pm)
<1>1. AtLeastOne(pm) \in Nat \ {0}
  BY DEF AtLeastOne
<1>2. \A x, y \in Nat \ {0} : x * y \in Nat \ {0}
  OBVIOUS
<1>3. EawUs(pm) \in Nat \ {0}
  BY <1>1, <1>2, ClockAssumption DEF EawUs
<1>4. CycleUs(pm) \in Nat \ {0}
  BY <1>2, <1>3, ClockAssumption DEF CycleUs
<1>5. Slots \in Nat \ {0}
  BY ClockAssumption
<1>6. \A x, y \in Nat : x * y = y * x
  OBVIOUS
<1>7. CycleUs(pm) = EawUs(pm) * Slots
  BY <1>3, <1>5, <1>6 DEF CycleUs
<1>8. ASSUME NEW slot \in 0..(Slots - 1)
      PROVE  EawUs(pm) * slot \in Nat /\ EawUs(pm) * slot + EawUs(pm) <= CycleUs(pm)
  <2>1. slot \in Nat /\ slot < Slots
    BY <1>5
  <2>2. EawUs(pm) * slot + EawUs(pm) <= EawUs(pm) * Slots
    BY <1>3, <1>5, <2>1, Times
  <2>3. \A x, y \in Nat : x * y \in Nat
    OBVIOUS
  <2> QED
    BY <1>3, <1>7, <2>1, <2>2, <2>3
<1>9. EawUs(pm) <= CycleUs(pm)
  <2>1. 0 \in 0..(Slots - 1) /\ EawUs(pm) * 0 = 0
    BY <1>3, <1>5
  <2> QED
    BY <1>3, <1>4, <1>8, <2>1
<1> QED
  BY <1>1, <1>3, <1>4, <1>7, <1>8, <1>9


(* To wait, from t, for the remainder of a is to meet a but for cycles.    *)
LEMMA Congruent ==
  ASSUME NEW C \in Nat \ {0}, NEW a \in Int, NEW t \in Int
  PROVE  \E k \in Int : t + (((a % C) + (C - (t % C))) % C) = (C * k) + a
<1>0. C \in Nat /\ C > 0
  OBVIOUS
<1>1. PICK qa \in Int : \E r \in 0..(C - 1) : a = (C * qa) + r /\ a % C = r
  BY <1>0, Divided
<1>2. PICK ra \in 0..(C - 1) : a = (C * qa) + ra /\ a % C = ra
  BY <1>1
<1>3. PICK qt \in Int : \E r \in 0..(C - 1) : t = (C * qt) + r /\ t % C = r
  BY <1>0, Divided
<1>4. PICK rt \in 0..(C - 1) : t = (C * qt) + rt /\ t % C = rt
  BY <1>3
<1>5. ra + (C - rt) \in Int
  OBVIOUS
<1>6. PICK qb \in Int : \E r \in 0..(C - 1) :
             ra + (C - rt) = (C * qb) + r /\ (ra + (C - rt)) % C = r
  BY <1>0, <1>5, Divided
<1>7. PICK rb \in 0..(C - 1) : ra + (C - rt) = (C * qb) + rb /\ (ra + (C - rt)) % C = rb
  BY <1>6
<1> DEFINE k == ((qt + 1) - qb) - qa
<1>8. C * k = (((C * qt) + C) - (C * qb)) - (C * qa)
  OBVIOUS
<1>9. C * qt \in Int /\ C * qb \in Int /\ C * qa \in Int /\ k \in Int
  OBVIOUS
<1> HIDE DEF k
<1>10. t + rb = (C * k) + a
  BY <1>2, <1>4, <1>7, <1>8, <1>9
<1> QED
  BY <1>2, <1>4, <1>7, <1>9, <1>10

(* An instant so far into a slot of a cycle, and the slot found there, by  *)
(* the place in the cycle and by the count of slots.                       *)
Instant(C, S, k, slot, into) == (C * k) + (S * slot) + into

LEMMA SlotFound ==
  ASSUME NEW S \in Nat \ {0}, NEW C \in Nat \ {0}, C = S * Slots,
         NEW k \in Int, NEW slot \in 0..(Slots - 1), NEW into \in 0..(S - 1)
  PROVE  /\ (Instant(C, S, k, slot, into) % C) \div S = slot
         /\ (Instant(C, S, k, slot, into) \div S) % Slots = slot
<1>1. /\ S \in Nat /\ S > 0 /\ Slots \in Nat /\ Slots > 0 /\ C \in Nat /\ C > 0
      /\ slot \in Int /\ slot < Slots
  BY ClockAssumption
<1>2. S * slot + S <= S * Slots
  BY <1>1, Times
<1>3. S * slot \in Nat /\ C * k \in Int
  BY <1>1
<1>4. PICK r \in 0..(C - 1) : r = (S * slot) + into
  BY <1>2, <1>3
<1>5. r \div S = slot
  BY <1>1, <1>4, Quotient
<1>6. PICK x \in Int : x = Instant(C, S, k, slot, into) /\ x = (C * k) + r
  BY <1>3, <1>4 DEF Instant
<1>7. x % C = r
  BY <1>1, <1>6, Quotient
<1>8. PICK q \in Int : q = (Slots * k) + slot
  BY <1>1
<1>9. S * ((Slots * k) + slot) = ((S * Slots) * k) + (S * slot)
  BY <1>1
<1>10. x = (S * q) + into
  BY <1>3, <1>4, <1>6, <1>8, <1>9
<1>11. x \div S = q
  BY <1>1, <1>10, Quotient
<1>12. slot \in 0..(Slots - 1)
  OBVIOUS
<1>13. q % Slots = slot
  BY <1>1, <1>8, <1>12, Quotient
<1> QED
  BY <1>5, <1>6, <1>7, <1>11, <1>13

(* Less than h apart on the ring: but for whole cycles, they differ by     *)
(* less than h.                                                            *)
Near(p, o, C, h) == CircularDist(p, o % C, C) < h
Differ(p, o, C, h) == \E k \in Int : \E e \in Int : p - o = (C * k) + e /\ -h < e /\ e < h

LEMMA RingDistance ==
  ASSUME NEW C \in Nat \ {0}, NEW p \in Int, NEW o \in Int, NEW h \in Nat,
         Near(p, o, C, h)
  PROVE  Differ(p, o, C, h)
<1>0. C \in Nat /\ C > 0
  OBVIOUS
<1>1. PICK qo \in Int : \E r \in 0..(C - 1) : o = (C * qo) + r /\ o % C = r
  BY <1>0, Divided
<1>2. PICK w \in 0..(C - 1) : o = (C * qo) + w /\ o % C = w
  BY <1>1
<1>3. w % C = w
  BY <1>0
<1>4. p + (C - w) \in Int
  OBVIOUS
<1>5. PICK qy \in Int : \E r \in 0..(C - 1) :
             p + (C - w) = (C * qy) + r /\ (p + (C - w)) % C = r
  BY <1>0, <1>4, Divided
<1>6. PICK d \in 0..(C - 1) : p + (C - w) = (C * qy) + d /\ (p + (C - w)) % C = d
  BY <1>5
<1>7. CircularDist(p, w, C) = IF d <= C - d THEN d ELSE C - d
  BY <1>3, <1>6 DEF CircularDist
<1>8. d < h \/ C - d < h
  BY <1>2, <1>7 DEF Near
<1> DEFINE k == (qy - qo) - 1
<1>9. C * k = ((C * qy) - (C * qo)) - C /\ C * (k + 1) = (C * qy) - (C * qo)
  OBVIOUS
<1>10. k \in Int /\ k + 1 \in Int /\ C * qy \in Int /\ C * qo \in Int
  OBVIOUS
<1> HIDE DEF k
<1>11. p - o = (C * k) + d /\ p - o = (C * (k + 1)) + (d - C)
  BY <1>2, <1>6, <1>9, <1>10
<1>12. CASE d < h
  BY <1>10, <1>11, <1>12 DEF Differ
<1>13. CASE C - d < h
  <2>1. d - C \in Int /\ -h < d - C /\ d - C < h
    BY <1>13
  <2> QED
    BY <1>10, <1>11, <2>1 DEF Differ
<1> QED
  BY <1>8, <1>12, <1>13

-----------------------------------------------------------------------------
(* The instant waited for.                                                 *)
HasPlace(c) == c.presence_mode \in Nat /\ PhaseUs(c) \in 0..(Cycle(c) - 1)

LEMMA Measures ==
  ASSUME NEW c, HasPlace(c)
  PROVE  /\ Slots \in Nat \ {0}
         /\ SlotUs(c) \in Nat \ {0} /\ Cycle(c) \in Nat \ {0} /\ Cycle(c) = SlotUs(c) * Slots
         /\ Tolerance(c) \in 0..(SlotUs(c) - 1) /\ 2 * Tolerance(c) <= SlotUs(c)
         /\ PhaseUs(c) \in Nat
<1>1. c.presence_mode \in Nat
  BY DEF HasPlace
<1>2. SlotUs(c) \in Nat \ {0} /\ Cycle(c) \in Nat \ {0} /\ Cycle(c) = SlotUs(c) * Slots
  BY <1>1, Lengths DEF SlotUs, Cycle
<1>3. Tolerance(c) \in 0..(SlotUs(c) - 1) /\ 2 * Tolerance(c) <= SlotUs(c)
  BY <1>2 DEF Tolerance
<1>4. PhaseUs(c) \in Nat
  BY <1>2 DEF HasPlace
<1> QED
  BY <1>2, <1>3, <1>4, ClockAssumption

LEMMA WaitLands ==
  ASSUME NEW c, HasPlace(c), NEW t \in Nat, NEW slot \in 0..(Slots - 1)
  PROVE  \E k \in Int : t + UsUntilSlotCentre(c, t, slot)
                          = (Cycle(c) * k) + (PhaseUs(c) + (SlotUs(c) * slot) + Tolerance(c))
<1>1. slot % Slots = slot /\ slot \in Nat
  BY ClockAssumption
<1>2. SlotUs(c) * slot \in Nat /\ slot * SlotUs(c) = SlotUs(c) * slot
  BY <1>1, Measures
<1> DEFINE a == PhaseUs(c) + (SlotUs(c) * slot) + Tolerance(c)
<1>3. a \in Int
  BY <1>2, Measures
<1>4. (slot % Slots) * SlotUs(c) = SlotUs(c) * slot
  BY <1>1, <1>2
<1>5. UsUntilSlotCentre(c, t, slot) = ((a % Cycle(c)) + (Cycle(c) - (t % Cycle(c)))) % Cycle(c)
  <2>1. UsUntilSlotCentre(c, t, slot)
          = (((PhaseUs(c) + ((slot % Slots) * SlotUs(c)) + Tolerance(c)) % Cycle(c))
               + (Cycle(c) - (t % Cycle(c)))) % Cycle(c)
    BY Zenon DEF UsUntilSlotCentre
  <2> QED
    BY <1>4, <2>1, Zenon
<1>6. PICK C \in Nat \ {0} : C = Cycle(c)
  BY Measures
<1>7. PICK b \in Int : b = a
  BY <1>3
<1> HIDE DEF a
<1>8. \E k \in Int : t + (((b % C) + (C - (t % C))) % C) = (C * k) + b
  <2>1. t \in Int
    OBVIOUS
  <2> QED
    BY <2>1, Congruent, Zenon
<1> QED
  BY <1>5, <1>6, <1>7, <1>8, Zenon DEF a

(* Having waited for the centre of a slot, the clock reads that slot.      *)
LEMMA WaitIsRead ==
  ASSUME NEW c, HasPlace(c), NEW t \in Nat, NEW slot \in 0..(Slots - 1)
  PROVE  SlotAt(c, t + UsUntilSlotCentre(c, t, slot)) = slot
<1>1. PICK k \in Int : t + UsUntilSlotCentre(c, t, slot)
                         = (Cycle(c) * k) + (PhaseUs(c) + (SlotUs(c) * slot) + Tolerance(c))
  BY WaitLands
<1>2. PICK C \in Nat \ {0} : C = Cycle(c)
  BY Measures
<1>3. PICK S \in Nat \ {0} : S = SlotUs(c)
  BY Measures
<1>4. PICK p \in Nat : p = PhaseUs(c)
  BY Measures
<1>5. PICK h \in 0..(S - 1) : h = Tolerance(c)
  BY <1>3, Measures
<1>6. PICK u : u = t + UsUntilSlotCentre(c, t, slot)
  OBVIOUS
<1>7. C * k \in Int /\ C * (k + 1) = (C * k) + C /\ k + 1 \in Int /\ S * slot \in Int
  BY ClockAssumption
<1>8. u = (C * k) + (p + (S * slot) + h)
  BY <1>1, <1>2, <1>3, <1>4, <1>5, <1>6
<1>9. u + (C - p) \in Int /\ u + (C - p) = (C * (k + 1)) + (S * slot) + h
  BY <1>7, <1>8
<1>10. C = S * Slots /\ Slots \in Nat \ {0}
  BY <1>2, <1>3, Measures
<1>11. PICK j \in Int : j = k + 1
  BY <1>7
<1>12. u + (C - p) = Instant(C, S, j, slot, h)
  BY <1>9, <1>11 DEF Instant
<1>13. (Instant(C, S, j, slot, h) % C) \div S = slot
  BY <1>10, SlotFound
<1> QED
  BY <1>2, <1>3, <1>4, <1>6, <1>12, <1>13 DEF SlotAt

(* And so does any timeline less than half a slot away.                    *)
LEMMA WaitIsForgiven ==
  ASSUME NEW c, HasPlace(c), NEW t \in Nat, NEW slot \in 0..(Slots - 1), NEW o \in Int,
         CircularDist(PhaseUs(c), o % Cycle(c), Cycle(c)) < Tolerance(c)
  PROVE  (((t + UsUntilSlotCentre(c, t, slot)) - o) \div SlotUs(c)) % Slots = slot
<1>1. PICK k \in Int : t + UsUntilSlotCentre(c, t, slot)
                         = (Cycle(c) * k) + (PhaseUs(c) + (SlotUs(c) * slot) + Tolerance(c))
  BY WaitLands
<1>2. PICK C \in Nat \ {0} : C = Cycle(c)
  BY Measures
<1>3. PICK S \in Nat \ {0} : S = SlotUs(c)
  BY Measures
<1>4. PICK p \in Int : p = PhaseUs(c)
  BY Measures
<1>5. PICK h \in Nat : h = Tolerance(c) /\ 2 * h <= S
  BY <1>3, Measures
<1>6. PICK u : u = t + UsUntilSlotCentre(c, t, slot)
  OBVIOUS
<1>7. Near(p, o, C, h)
  BY <1>2, <1>4, <1>5 DEF Near
<1>8. PICK j \in Int : \E e \in Int : p - o = (C * j) + e /\ -h < e /\ e < h
  <2>1. o \in Int /\ p \in Int /\ C \in Nat \ {0} /\ h \in Nat
    OBVIOUS
  <2>2. Differ(p, o, C, h)
    BY <1>7, <2>1, RingDistance
  <2> QED
    BY <2>2 DEF Differ
<1>9. PICK e \in Int : p - o = (C * j) + e /\ -h < e /\ e < h
  BY <1>8
<1>10. /\ C * k \in Int /\ C * j \in Int /\ C * (k + j) = (C * k) + (C * j) /\ k + j \in Int
       /\ S * slot \in Int
  BY ClockAssumption
<1>11. u = (C * k) + (p + (S * slot) + h)
  BY <1>1, <1>2, <1>3, <1>4, <1>5, <1>6
<1>12. PICK into \in 0..(S - 1) : into = h + e
  BY <1>5, <1>9
<1>13. u - o \in Int /\ u - o = (C * (k + j)) + (S * slot) + into
  BY <1>9, <1>10, <1>11, <1>12
<1>14. C = S * Slots /\ Slots \in Nat \ {0}
  BY <1>2, <1>3, Measures
<1>15. PICK i \in Int : i = k + j
  BY <1>10
<1>16. u - o = Instant(C, S, i, slot, into)
  BY <1>13, <1>15 DEF Instant
<1>17. (Instant(C, S, i, slot, into) \div S) % Slots = slot
  BY <1>14, SlotFound
<1> QED
  BY <1>3, <1>6, <1>16, <1>17

-----------------------------------------------------------------------------
(* The median of some phases is one of them, and so a phase.               *)
LEMMA Least ==
  ASSUME NEW T \in SUBSET Nat, T # {}
  PROVE  \E n \in T : \A k \in T : n <= k
<1> DEFINE R == OpToRel(<, Nat)
<1>1. IsWellFoundedOn(R, Nat)
  BY NatLessThanWellFounded
<1>2. \A x, y \in Nat : y < x => <<y, x>> \in R
  BY DEF OpToRel
<1> HIDE DEF R
<1>3. PICK n \in T : \A k \in T : ~(<<k, n>> \in R)
  BY <1>1, WFMin
<1>4. \A k \in T : ~(k < n)
  BY <1>2, <1>3, Zenon
<1>5. \A k \in T : n <= k
  BY <1>4
<1> QED
  BY <1>5

Phases(C) == [of : {Master}, us : 0..(C - 1)]
IsPhases(seq, C) == seq \in Seq(Phases(C))

LEMMA PhasesAreNumbers ==
  ASSUME NEW C \in Nat \ {0}, NEW seq, IsPhases(seq, C), NEW i \in DOMAIN seq
  PROVE  seq[i].us \in 0..(C - 1) /\ seq[i].us \in Nat /\ C - seq[i].us \in Nat
<1>1. seq \in Seq(Phases(C))
  BY DEF IsPhases
<1>2. \A x \in Phases(C) : x.us \in 0..(C - 1)
  BY DEF Phases
<1>3. seq[i] \in Phases(C)
  BY <1>1
<1> QED
  BY <1>2, <1>3

LEMMA Earliest ==
  ASSUME NEW C \in Nat \ {0}, NEW seq, IsPhases(seq, C), NEW I \in SUBSET DOMAIN seq, I # {}
  PROVE  \E m \in I : \A i \in I : seq[m].us <= seq[i].us
<1>1. \A i \in DOMAIN seq : seq[i].us \in Nat
  BY PhasesAreNumbers
<1> DEFINE T == {seq[i].us : i \in I}
<1>2. T \in SUBSET Nat /\ T # {}
  BY <1>1
<1> HIDE DEF T
<1>3. PICK n \in T : \A k \in T : n <= k
  BY <1>2, Least
<1> QED
  BY <1>3 DEF T

LEMMA Latest ==
  ASSUME NEW C \in Nat \ {0}, NEW seq, IsPhases(seq, C), NEW I \in SUBSET DOMAIN seq, I # {}
  PROVE  \E m \in I : \A i \in I : seq[i].us <= seq[m].us
<1>1. \A i \in DOMAIN seq : seq[i].us \in Nat /\ C - seq[i].us \in Nat
  BY PhasesAreNumbers
<1> DEFINE T == {C - seq[i].us : i \in I}
<1>2. T \in SUBSET Nat /\ T # {}
  BY <1>1
<1> HIDE DEF T
<1>3. PICK n \in T : \A k \in T : n <= k
  BY <1>2, Least
<1>4. PICK m \in I : n = C - seq[m].us
  BY <1>3 DEF T
<1>5. \A i \in I : C - seq[m].us <= C - seq[i].us
  BY <1>3, <1>4 DEF T
<1>6. \A i \in I : seq[i].us <= seq[m].us
  BY <1>1, <1>5
<1> QED
  BY <1>6

Below(seq, x) == {i \in DOMAIN seq : seq[i].us < x}
UpTo(seq, x) == {i \in DOMAIN seq : seq[i].us <= x}
InMiddle(seq, i) ==
  /\ Cardinality(Below(seq, seq[i].us)) <= Len(seq) \div 2
  /\ Cardinality(UpTo(seq, seq[i].us)) > Len(seq) \div 2

LEMMA MiddleExists ==
  ASSUME NEW C \in Nat \ {0}, NEW seq, IsPhases(seq, C), seq # <<>>
  PROVE  \E i \in DOMAIN seq : InMiddle(seq, i)
<1> DEFINE D == DOMAIN seq
           I == {i \in D : Cardinality(UpTo(seq, seq[i].us)) > Len(seq) \div 2}
<1>1. D = 1..Len(seq) /\ Len(seq) \in Nat \ {0} /\ \A i \in D : seq[i].us \in Nat
  <2>1. \A i \in DOMAIN seq : seq[i].us \in Nat
    BY PhasesAreNumbers
  <2> QED
    BY <2>1 DEF IsPhases
<1>2. IsFiniteSet(D) /\ Cardinality(D) = Len(seq)
  BY <1>1, FS_Interval
<1>3. I # {}
  <2>1. PICK m \in D : \A i \in D : seq[i].us <= seq[m].us
    <3>1. D # {} /\ D \in SUBSET DOMAIN seq
      BY <1>1
    <3> QED
      BY <3>1, Latest
  <2>2. UpTo(seq, seq[m].us) = D
    BY <2>1 DEF UpTo
  <2>3. Len(seq) > Len(seq) \div 2
    BY <1>1
  <2> QED
    BY <1>2, <2>2, <2>3
<1>4. PICK m \in I : \A i \in I : seq[m].us <= seq[i].us
  <2>1. I \in SUBSET DOMAIN seq
    OBVIOUS
  <2> HIDE DEF I
  <2> QED
    BY <1>3, <2>1, Earliest
<1> DEFINE B == Below(seq, seq[m].us)
<1>5. Cardinality(B) <= Len(seq) \div 2
  <2>1. CASE B = {}
    BY <1>1, <2>1, FS_EmptySet
  <2>2. CASE B # {}
    <3>1. B \in SUBSET DOMAIN seq
      BY DEF Below
    <3>2. PICK j \in B : \A i \in B : seq[i].us <= seq[j].us
      <4> HIDE DEF B
      <4> QED
        BY <2>2, <3>1, Latest
    <3>3. j \in D /\ seq[j].us < seq[m].us /\ m \in D
      BY <3>2 DEF Below
    <3>4. j \notin I
      BY <1>1, <1>4, <3>3
    <3>5. UpTo(seq, seq[j].us) = B
      BY <1>1, <3>2, <3>3 DEF UpTo, Below
    <3>6. IsFiniteSet(B)
      BY <1>2, <3>1, FS_Subset
    <3>7. Cardinality(B) \in Nat
      BY <3>6, FS_CardinalityType
    <3>8. ~(Cardinality(B) > Len(seq) \div 2)
      BY <3>3, <3>4, <3>5
    <3> QED
      BY <1>1, <3>7, <3>8
  <2> QED
    BY <2>1, <2>2
<1> QED
  BY <1>4, <1>5 DEF InMiddle

LEMMA MedianIsPhase ==
  ASSUME NEW C \in Nat \ {0}, NEW seq, IsPhases(seq, C), seq # <<>>
  PROVE  UpperMedian(seq) \in 0..(C - 1)
<1> DEFINE middle == CHOOSE i \in DOMAIN seq : InMiddle(seq, i)
<1>1. UpperMedian(seq) = seq[middle].us
  BY DEF UpperMedian, InMiddle, Below, UpTo
<1>2. middle \in DOMAIN seq
  BY MiddleExists
<1> HIDE DEF middle
<1>3. \A i \in DOMAIN seq : seq[i].us \in 0..(C - 1)
  BY PhasesAreNumbers
<1> QED
  BY <1>1, <1>2, <1>3

-----------------------------------------------------------------------------
(* A clock stays a clock.                                                  *)
ClocksOf(pm) ==
  [offsets : Seq(Phases(CycleUs(pm))), presence_mode : {pm},
   pending : Seq(Phases(CycleUs(pm))), align_samples : Seq(Phases(CycleUs(pm)))]

IsClock(c, pm) ==
  /\ c \in ClocksOf(pm)
  /\ Len(c.offsets) <= Keep /\ Len(c.align_samples) <= Keep /\ Len(c.pending) < Confirm
  /\ c.offsets = <<>> => c.pending = <<>>

LEMMA Modes ==
  /\ \A pm \in PresenceModes : pm \in Nat \ {0}
  /\ \A pm \in {0} \cup PresenceModes : pm \in Nat
BY TrackingAssumption

LEMMA PhaseHasPlace ==
  ASSUME NEW pm \in Nat, NEW c, IsClock(c, pm), HasPhase(c)
  PROVE  HasPlace(c)
<1>1. c \in ClocksOf(pm) /\ c.offsets # <<>>
  BY DEF IsClock, HasPhase
<1>2. /\ c.presence_mode = pm /\ Cycle(c) = CycleUs(pm) /\ CycleUs(pm) \in Nat \ {0}
      /\ IsPhases(c.offsets, CycleUs(pm)) /\ IsPhases(c.align_samples, CycleUs(pm))
  BY <1>1, Lengths DEF ClocksOf, IsPhases, Cycle
<1>3. NewestOf(c.offsets).us \in Nat
  <2>1. Len(c.offsets) \in DOMAIN c.offsets
    BY <1>1, <1>2 DEF IsPhases
  <2> QED
    BY <1>2, <2>1, PhasesAreNumbers DEF NewestOf
<1>4. AlignDelta(c) \in Nat
  BY <1>2, MedianIsPhase DEF AlignDelta
<1>5. PICK x \in Nat : x = NewestOf(c.offsets).us + AlignDelta(c)
  BY <1>3, <1>4
<1>6. x % Cycle(c) \in 0..(Cycle(c) - 1)
  BY <1>2
<1> QED
  BY <1>2, <1>5, <1>6 DEF HasPlace, PhaseUs

Push(seq, x) == Newest(Append(seq, x), Keep)

LEMMA Pushed ==
  ASSUME NEW C, NEW seq \in Seq(Phases(C)), NEW x \in Phases(C)
  PROVE  /\ Push(seq, x) \in Seq(Phases(C)) /\ Push(seq, x) # <<>>
         /\ Len(Push(seq, x)) <= Keep /\ NewestOf(Push(seq, x)) = x
<1> DEFINE P == Phases(C)
           n == Keep
<1> DEFINE longer == Append(seq, x)
<1>1. longer \in Seq(P) /\ Len(longer) = Len(seq) + 1 /\ longer[Len(longer)] = x /\ Len(longer) \in Nat
  OBVIOUS
<1>0. n \in Nat \ {0}
  BY ClockAssumption
<1> HIDE DEF longer, P, n
<1>2. CASE Len(longer) <= n
  <2>1. Newest(longer, n) = longer
    BY <1>2 DEF Newest
  <2>2. longer # <<>>
    BY <1>1
  <2> QED
    BY <1>1, <1>2, <2>1, <2>2 DEF NewestOf, longer, Push, P, n
<1>3. CASE ~(Len(longer) <= n)
  <2> DEFINE tail == SubSeq(longer, Len(longer) - n + 1, Len(longer))
  <2>1. Len(longer) - n + 1 \in 1..Len(longer)
    BY <1>0, <1>1, <1>3
  <2>2. /\ tail \in Seq(P) /\ Len(tail) = n
        /\ \A i \in 1..n : tail[i] = longer[Len(longer) - n + i]
    BY <1>0, <1>1, <2>1
  <2>3. Newest(longer, n) = tail
    BY <1>3 DEF Newest
  <2> HIDE DEF tail
  <2>4. tail[n] = longer[Len(longer)] /\ tail # <<>>
    BY <1>0, <1>1, <2>2
  <2> QED
    BY <1>1, <2>2, <2>3, <2>4 DEF NewestOf, longer, Push, P, n
<1> QED
  BY <1>2, <1>3

(* A frame as it reaches the clock.                                        *)
Frames ==
  [of : {Master}, arrived_us : Int, counter : Nat, remaining_tu : Nat,
   presence_mode : PresenceModes, phy_tx_time : Nat]

(* A changed presence mode starts over; the alignment sample is a phase.   *)
LEMMA RuledIsClock ==
  ASSUME NEW old, NEW pm \in Nat, IsClock(old, pm), NEW s \in Frames
  PROVE  /\ IsClock(Ruled(old, s), s.presence_mode) /\ Ruled(old, s).presence_mode = s.presence_mode
         /\ \/ Ruled(old, s) = old
            \/ /\ Ruled(old, s).offsets = <<>> /\ Ruled(old, s).pending = <<>>
               /\ old.presence_mode # s.presence_mode
<1>1. s.presence_mode \in Nat \ {0}
  BY Modes DEF Frames
<1>2. AtLeastOne(s.presence_mode) = s.presence_mode
  BY <1>1 DEF AtLeastOne
<1>3. old \in ClocksOf(pm) /\ old.presence_mode = pm
  BY DEF IsClock, ClocksOf
<1>4. CASE pm = s.presence_mode
  BY <1>2, <1>3, <1>4 DEF Ruled
<1>5. CASE pm # s.presence_mode
  <2> DEFINE new == [offsets |-> <<>>, presence_mode |-> s.presence_mode, pending |-> <<>>,
                     align_samples |-> <<>>]
  <2>1. Ruled(old, s) = new
    BY <1>2, <1>3, <1>5 DEF Ruled, Cleared, ClocksOf
  <2>2. \A P : <<>> \in Seq(P)
    OBVIOUS
  <2>3. new \in ClocksOf(s.presence_mode)
    BY <2>2 DEF ClocksOf
  <2>4. Len(<<>>) <= Keep /\ Len(<<>>) < Confirm
    BY ClockAssumption
  <2> QED
    BY <1>3, <1>5, <2>1, <2>3, <2>4 DEF IsClock
<1> QED
  BY <1>4, <1>5

LEMMA OffersArePhases ==
  ASSUME NEW c, NEW pm \in Nat \ {0}, c.presence_mode = pm, NEW s \in Frames,
         s.presence_mode = pm
  PROVE  /\ CounterOff(c, s) \in 0..(CycleUs(pm) - 1)
         /\ PhyOff(c, s) \in 0..(CycleUs(pm) - 1)
         /\ Offered(c, s) \in 0..(CycleUs(pm) - 1)
<1>1. CycleUs(pm) \in Nat \ {0} /\ EawUs(pm) \in Nat \ {0} /\ Cycle(c) = CycleUs(pm)
  BY Lengths DEF Cycle
<1>2. /\ s.arrived_us \in Int /\ s.counter \in Nat /\ s.phy_tx_time \in Nat
      /\ s.remaining_tu \in Nat /\ s.remaining_tu \in Int
  BY DEF Frames
<1>3. \A a, b \in Int : SatSub(a, b) \in Int /\ a * b \in Int
  BY DEF SatSub
<1>4. AtLeastOne(pm) = pm
  BY DEF AtLeastOne
<1>5. SlotOf(s) \in Int /\ s.counter % pm \in Int
  <2>1. s.counter \div pm \in Int /\ s.counter % pm \in Int
    BY <1>2
  <2> QED
    BY <1>4, <2>1, ClockAssumption DEF SlotOf
<1>6. IntoSlotUs(s) \in Int
  <2>1. AwUs \in Int /\ TuUs \in Int
    BY ClockAssumption
  <2>2. (s.counter % pm) * AwUs \in Int /\ s.remaining_tu * TuUs \in Int
    BY <1>2, <1>3, <1>5, <2>1, Zenon
  <2>3. PICK left \in Int : left = s.remaining_tu * TuUs
    BY <2>2
  <2>4. SatSub(AwUs, left) \in Int
    BY <1>3, <2>1
  <2> QED
    BY <1>4, <2>2, <2>3, <2>4 DEF IntoSlotUs
<1>7. CycleOriginUs(s) \in Int
  <2>1. SlotOf(s) * EawUs(pm) \in Int
    BY <1>1, <1>3, <1>5
  <2> QED
    BY <1>2, <1>3, <1>6, <2>1 DEF CycleOriginUs
<1>8. CycleOriginPhy(s) \in Int
  <2>1. s.arrived_us - (s.phy_tx_time % CycleUs(pm)) \in Int
    BY <1>1, <1>2
  <2> QED
    BY <2>1, ClockAssumption DEF CycleOriginPhy, WrapSub
<1>9. \A x \in Int : x % CycleUs(pm) \in 0..(CycleUs(pm) - 1)
  BY <1>1
<1> QED
  BY <1>1, <1>7, <1>8, <1>9 DEF CounterOff, PhyOff, Offered

LEMMA AlignedIsClock ==
  ASSUME NEW c, NEW pm \in Nat \ {0}, IsClock(c, pm), NEW s \in Frames, s.presence_mode = pm
  PROVE  /\ IsClock(Aligned(c, s), pm)
         /\ Aligned(c, s).offsets = c.offsets /\ Aligned(c, s).pending = c.pending
         /\ Aligned(c, s).presence_mode = c.presence_mode
<1>1. CASE ~HasPhy(s)
  BY <1>1 DEF Aligned
<1>2. CASE HasPhy(s)
  <2> DEFINE C == CycleUs(pm)
             gap == (CounterOff(c, s) + Cycle(c) - PhyOff(c, s)) % Cycle(c)
             kept == Push(c.align_samples, Sample(s.of, gap))
  <2>1. c \in ClocksOf(pm) /\ c.presence_mode = pm /\ Cycle(c) = C /\ C \in Nat \ {0}
    BY Lengths DEF IsClock, ClocksOf, Cycle
  <2>2. CounterOff(c, s) \in Int /\ PhyOff(c, s) \in Int
    BY <2>1, OffersArePhases
  <2>3. gap \in 0..(C - 1)
    BY <2>1, <2>2
  <2> HIDE DEF gap
  <2>4. Sample(s.of, gap) \in Phases(C)
    BY <2>3 DEF Sample, Phases, Frames
  <2>5. c.align_samples \in Seq(Phases(C))
    BY <2>1 DEF ClocksOf
  <2>6. kept \in Seq(Phases(C)) /\ Len(kept) <= Keep
    <3> HIDE DEF C
    <3> QED
      BY <2>4, <2>5, Pushed
  <2>7. Aligned(c, s) = [c EXCEPT !.align_samples = kept]
    BY <1>2 DEF Aligned, gap, Push
  <2> HIDE DEF kept
  <2>8. Aligned(c, s) = [offsets |-> c.offsets, presence_mode |-> c.presence_mode,
                         pending |-> c.pending, align_samples |-> kept]
    BY <2>1, <2>7 DEF ClocksOf
  <2> QED
    BY <2>1, <2>6, <2>8 DEF IsClock, ClocksOf
<1> QED
  BY <1>1, <1>2

-----------------------------------------------------------------------------
(* What a frame may do: be an anchor, be held, or be the last of enough    *)
(* outliers that agree.                                                    *)
Accepts(c, off, new) ==
  ~IsOutlier(c, off) /\ NewestOf(new.offsets).us = off /\ new.pending = <<>>
Holds(c, off, new) ==
  /\ new.offsets = c.offsets
  /\ NewestOf(new.pending).us = off
  /\ \/ ~IsConfirmed(c, off) /\ Len(new.pending) = 1
     \/ IsConfirmed(c, off) /\ Len(new.pending) = Len(c.pending) + 1
Yields(c, off, new) ==
  /\ IsConfirmed(c, off) /\ Len(c.pending) + 1 >= Confirm
  /\ NewestOf(new.offsets).us = off /\ new.pending = <<>>

LEMMA FrameDoes ==
  ASSUME NEW old, NEW pm0 \in Nat, IsClock(old, pm0), NEW s \in Frames,
         NEW c, c = Ruled(old, s), NEW off, off = Offered(c, s),
         NEW new, new = ClockObserve(old, s)
  PROVE  /\ IsClock(new, s.presence_mode) /\ new.offsets # <<>>
         /\ Accepts(c, off, new) \/ Holds(c, off, new) \/ Yields(c, off, new)
<1> DEFINE pm == s.presence_mode
           C == CycleUs(pm)
           a == Aligned(c, s)
           x == Sample(s.of, off)
<1>1. pm \in Nat \ {0} /\ C \in Nat \ {0}
  BY Modes, Lengths DEF Frames
<1>2. IsClock(c, pm) /\ c.presence_mode = pm
  BY RuledIsClock
<1>3. off \in 0..(C - 1)
  BY <1>1, <1>2, OffersArePhases
<1>4. /\ IsClock(a, pm) /\ a.offsets = c.offsets /\ a.pending = c.pending
      /\ a.presence_mode = c.presence_mode
  BY <1>1, <1>2, AlignedIsClock
<1>5. x \in Phases(C) /\ x.us = off
  BY <1>3 DEF Sample, Phases, Frames
<1>6. /\ IsOutlier(a, off) <=> IsOutlier(c, off)
      /\ IsConfirmed(a, off) <=> IsConfirmed(c, off)
  BY <1>4 DEF IsOutlier, IsConfirmed, Cycle, Tolerance, SlotUs
<1>7. new = IF IsOutlier(a, off) THEN HoldOutlier(a, x) ELSE Accept(a, x)
  BY <1>5 DEF ClockObserve
<1> HIDE DEF x, a, C, pm
<1>8. /\ a \in ClocksOf(pm) /\ Len(a.offsets) <= Keep /\ Len(a.align_samples) <= Keep
      /\ Len(a.pending) < Confirm /\ (a.offsets = <<>> => a.pending = <<>>)
  BY <1>4 DEF IsClock
<1>9. /\ a.offsets \in Seq(Phases(C)) /\ a.pending \in Seq(Phases(C))
      /\ a.align_samples \in Seq(Phases(C)) /\ a.presence_mode = pm
  BY <1>8 DEF ClocksOf, C
<1>10. a = [offsets |-> a.offsets, presence_mode |-> a.presence_mode,
            pending |-> a.pending, align_samples |-> a.align_samples]
  BY <1>8 DEF ClocksOf
<1> DEFINE Clock(offsets, pending) ==
             [offsets |-> offsets, presence_mode |-> a.presence_mode,
              pending |-> pending, align_samples |-> a.align_samples]
<1>11. ASSUME NEW offsets \in Seq(Phases(C)), NEW pending \in Seq(Phases(C)),
              Len(offsets) <= Keep, Len(pending) < Confirm, offsets # <<>>,
              new = Clock(offsets, pending)
       PROVE  /\ IsClock(new, pm) /\ new.offsets # <<>>
              /\ new.offsets = offsets /\ new.pending = pending
  <2>1. new \in ClocksOf(pm)
    BY <1>9, <1>11 DEF ClocksOf, C
  <2>2. /\ new.offsets = offsets /\ new.pending = pending
        /\ new.align_samples = a.align_samples
    BY <1>11
  <2> QED
    BY <1>8, <1>11, <2>1, <2>2 DEF IsClock
<1>12. /\ <<x>> \in Seq(Phases(C)) /\ <<x>> # <<>> /\ Len(<<x>>) = 1 /\ NewestOf(<<x>>) = x
       /\ <<>> \in Seq(Phases(C)) /\ Len(<<>>) = 0 /\ Len(<<>>) < Confirm
       /\ Len(<<x>>) < Confirm /\ Len(<<x>>) <= Keep
  BY <1>5, ClockAssumption, TrackingAssumption DEF NewestOf
<1>13. CASE ~IsOutlier(a, off)
  <2> DEFINE kept == Push(a.offsets, x)
             pending == IF a.offsets = <<>> THEN a.pending ELSE <<>>
  <2>1. /\ kept \in Seq(Phases(C)) /\ kept # <<>> /\ Len(kept) <= Keep /\ NewestOf(kept) = x
    BY <1>5, <1>9, Pushed
  <2>2. pending = <<>>
    BY <1>8
  <2>3. new = [a EXCEPT !.offsets = kept, !.pending = pending]
    BY <1>7, <1>13 DEF Accept, Push
  <2> HIDE DEF kept, pending
  <2>4. new = Clock(kept, <<>>)
    BY <1>8, <2>2, <2>3 DEF ClocksOf
  <2>5. IsClock(new, pm) /\ new.offsets # <<>> /\ new.offsets = kept /\ new.pending = <<>>
    <3> HIDE DEF Clock
    <3> QED
      BY <1>11, <1>12, <2>1, <2>4
  <2>6. Accepts(c, off, new)
    BY <1>5, <1>6, <1>13, <2>1, <2>5 DEF Accepts
  <2> QED
    BY <2>5, <2>6 DEF pm
<1>14. CASE IsOutlier(a, off)
  <2>1. a.offsets # <<>> /\ new = HoldOutlier(a, x)
    BY <1>7, <1>14 DEF IsOutlier
  <2>2. CASE ~IsConfirmed(a, off)
    <3>1. new = [a EXCEPT !.pending = <<x>>]
      BY <1>5, <2>1, <2>2 DEF HoldOutlier
    <3>2. new = Clock(a.offsets, <<x>>)
      BY <1>8, <3>1 DEF ClocksOf
    <3>3. IsClock(new, pm) /\ new.offsets # <<>> /\ new.offsets = a.offsets /\ new.pending = <<x>>
      <4> HIDE DEF Clock
      <4> QED
        BY <1>8, <1>9, <1>11, <1>12, <2>1, <3>2
    <3>4. Holds(c, off, new)
      BY <1>4, <1>5, <1>6, <1>12, <2>2, <3>3 DEF Holds
    <3> QED
      BY <3>3, <3>4 DEF pm
  <2>3. CASE IsConfirmed(a, off) /\ Len(a.pending) + 1 >= Confirm
    <3>1. new = [a EXCEPT !.offsets = <<x>>, !.pending = <<>>]
      BY <1>5, <2>1, <2>3 DEF HoldOutlier
    <3>2. new = Clock(<<x>>, <<>>)
      BY <1>8, <3>1 DEF ClocksOf
    <3>3. IsClock(new, pm) /\ new.offsets = <<x>> /\ new.offsets # <<>> /\ new.pending = <<>>
      <4> HIDE DEF Clock
      <4> QED
        BY <1>11, <1>12, <3>2
    <3>4. Yields(c, off, new)
      BY <1>4, <1>5, <1>6, <1>12, <2>3, <3>3 DEF Yields
    <3> QED
      BY <3>3, <3>4 DEF pm
  <2>4. CASE IsConfirmed(a, off) /\ ~(Len(a.pending) + 1 >= Confirm)
    <3>1. new = [a EXCEPT !.pending = Append(a.pending, x)]
      BY <1>5, <2>1, <2>4 DEF HoldOutlier
    <3>2. new = Clock(a.offsets, Append(a.pending, x))
      BY <1>8, <3>1 DEF ClocksOf
    <3>3. /\ Append(a.pending, x) \in Seq(Phases(C))
          /\ Len(Append(a.pending, x)) = Len(a.pending) + 1
          /\ NewestOf(Append(a.pending, x)) = x /\ Len(Append(a.pending, x)) < Confirm
      BY <1>5, <1>9, <2>4, ClockAssumption DEF NewestOf
    <3>4. /\ IsClock(new, pm) /\ new.offsets # <<>> /\ new.offsets = a.offsets
          /\ new.pending = Append(a.pending, x)
      <4> HIDE DEF Clock
      <4> QED
        BY <1>8, <1>9, <1>11, <2>1, <3>2, <3>3
    <3>5. Holds(c, off, new)
      BY <1>4, <1>5, <1>6, <2>4, <3>3, <3>4 DEF Holds
    <3> QED
      BY <3>4, <3>5 DEF pm
  <2> QED
    BY <2>2, <2>3, <2>4
<1> QED
  BY <1>13, <1>14

-----------------------------------------------------------------------------
(* The inductive invariant.  The outliers held are the end of a run of     *)
(* frames that agree, the last of them the last offered: this is what      *)
(* makes a re-anchor need Confirm of them in a row.                        *)
Streak ==
  clock.pending # <<>> => NewestOf(clock.pending).us = lastOffer /\ Len(clock.pending) <= streak

Estimate ==
  /\ clock.presence_mode \in {0} \cup PresenceModes
  /\ IsClock(clock, clock.presence_mode)
  /\ streak \in 0..Confirm
  /\ lastOffer \in -1..(HostMod - 1)
  /\ Streak

World ==
  /\ now \in Start..Horizon
  /\ origin \in Origins /\ tsfEpoch \in TsfEpochs /\ mode \in PresenceModes
  /\ stamps \in Stamping
  /\ exactRun \in 0..Settle
  /\ glitches \in 0..MaxGlitches /\ anchors \in 0..MaxAnchors

Inv == World /\ Estimate

LEMMA SettleIsNat == Settle \in Nat
<1>1. Keep \div 2 + 1 \in Nat /\ Confirm \in Nat
  BY ClockAssumption
<1> QED
  BY <1>1 DEF Settle

LEMMA FramesArrive ==
  ASSUME World, NEW t \in Int, NEW stamp \in Int, NEW odd \in Nat
  PROVE  Frame(t, stamp, odd) \in Frames
<1>1. origin \in Int /\ tsfEpoch \in Int /\ mode \in PresenceModes
  BY TrackingAssumption DEF World
<1>2. /\ AwUs \in Nat /\ AwUs > 0 /\ TuUs \in Nat /\ TuUs > 0
      /\ CounterMod \in Nat /\ CounterMod > 0 /\ PhyMod \in Nat /\ PhyMod > 0
  BY ClockAssumption, TrackingAssumption
<1>3. PICK x \in Int : x = t - origin
  BY <1>1
<1>4. x \div AwUs \in Int /\ x % AwUs \in 0..(AwUs - 1)
  BY <1>2, Division
<1>5. PICK n \in Nat : n = CounterAt(t)
  <2>1. (x \div AwUs) % CounterMod \in Nat
    BY <1>2, <1>4
  <2> QED
    BY <1>3, <2>1 DEF CounterAt
<1>6. (n + odd) % CounterMod \in Nat
  <2>1. n + odd \in Int
    OBVIOUS
  <2> QED
    BY <1>2, <2>1
<1>7. LeftAt(t) \in Nat
  <2>1. PICK y \in Nat : y = AwUs - (x % AwUs)
    BY <1>2, <1>4
  <2>2. y \div TuUs \in Nat
    BY <1>2
  <2> QED
    BY <1>3, <2>1, <2>2 DEF LeftAt
<1>8. PhyAt(t) \in Nat
  <2>1. PICK y \in Int : y = t - tsfEpoch
    BY <1>1
  <2>2. y % PhyMod \in Nat
    BY <1>2
  <2> QED
    BY <2>1, <2>2 DEF PhyAt
<1> QED
  BY <1>1, <1>5, <1>6, <1>7, <1>8 DEF Frame, Frames

(* No distance is none.                                                    *)
LEMMA DistanceToSelf ==
  ASSUME NEW C \in Nat \ {0}, NEW x \in 0..(C - 1)
  PROVE  CircularDist(x, x, C) = 0
<1>1. x % C = x
  OBVIOUS
<1>2. (x + (C - x)) % C = 0
  <2>1. x + (C - x) = C /\ C % C = 0
    OBVIOUS
  <2> QED
    BY <2>1
<1> QED
  BY <1>1, <1>2 DEF CircularDist

LEMMA NewestIsPhase ==
  ASSUME NEW C \in Nat \ {0}, NEW seq \in Seq(Phases(C)), seq # <<>>
  PROVE  NewestOf(seq).us \in 0..(C - 1)
<1>1. IsPhases(seq, C) /\ Len(seq) \in DOMAIN seq
  BY DEF IsPhases
<1> QED
  BY <1>1, PhasesAreNumbers DEF NewestOf

(* A frame folded in keeps the estimate one, and moves it by more than     *)
(* half a slot only as the last of Confirm.                                *)
LEMMA FrameIsFoldedIn ==
  ASSUME Estimate, NEW s \in Frames, Receive(s)
  PROVE  Estimate' /\ (Jumps => streak' >= Confirm)
<1> DEFINE pm0 == clock.presence_mode
           pm == s.presence_mode
           c == Ruled(clock, s)
           off == Offered(c, s)
           agrees == /\ lastOffer # -1
                     /\ c.presence_mode = clock.presence_mode
                     /\ CircularDist(off, lastOffer, Cycle(c)) <= Tolerance(c)
<1>1. /\ pm0 \in Nat /\ pm \in PresenceModes /\ pm \in Nat \ {0}
      /\ IsClock(clock, pm0) /\ clock \in ClocksOf(pm0)
      /\ streak \in 0..Confirm /\ lastOffer \in Int /\ Confirm \in Nat /\ Confirm > 1
  <2>1. pm \in PresenceModes
    BY DEF Frames
  <2>2. pm0 \in Nat /\ pm \in Nat \ {0}
    BY <2>1, Modes DEF Estimate
  <2>3. IsClock(clock, pm0) /\ clock \in ClocksOf(pm0)
    BY DEF Estimate, IsClock
  <2>4. lastOffer \in Int /\ streak \in 0..Confirm
    BY ClockAssumption DEF Estimate
  <2> QED
    BY <2>1, <2>2, <2>3, <2>4, ClockAssumption, TrackingAssumption
<1>2. /\ clock' = ClockObserve(clock, s) /\ lastOffer' = off
      /\ streak' = IF agrees THEN (IF streak < Confirm THEN streak + 1 ELSE streak) ELSE 1
  BY DEF Receive
<1>3. /\ IsClock(c, pm) /\ c.presence_mode = pm
      /\ \/ c = clock
         \/ c.offsets = <<>> /\ c.pending = <<>> /\ pm0 # pm
  BY <1>1, RuledIsClock
<1>4. /\ IsClock(clock', pm) /\ clock'.offsets # <<>>
      /\ Accepts(c, off, clock') \/ Holds(c, off, clock') \/ Yields(c, off, clock')
  BY <1>1, <1>2, FrameDoes
<1>5. off \in 0..(CycleUs(pm) - 1)
  BY <1>1, <1>3, OffersArePhases
<1>6. CycleUs(pm) \in Nat \ {0} /\ CycleUs(pm) <= HostMod /\ HostMod \in Nat
  BY <1>1, Lengths, TrackingAssumption, ClockAssumption
<1> HIDE DEF c, off
<1>7. streak' \in 1..Confirm /\ (agrees /\ streak < Confirm => streak' = streak + 1)
      /\ (agrees /\ ~(streak < Confirm) => streak' = Confirm)
  <2> HIDE DEF agrees
  <2> QED
    BY <1>1, <1>2
<1>8. ASSUME IsConfirmed(c, off)
      PROVE  agrees /\ c = clock /\ Len(clock.pending) <= streak /\ Len(clock.pending) \in Nat
  <2>1. c = clock /\ clock.pending # <<>>
    BY <1>3, <1>8 DEF IsConfirmed
  <2>2. NewestOf(clock.pending).us = lastOffer /\ Len(clock.pending) <= streak
    BY <2>1 DEF Estimate, Streak
  <2>3. clock.pending \in Seq(Phases(CycleUs(pm0))) /\ CycleUs(pm0) \in Nat \ {0}
    BY <1>1, Lengths DEF ClocksOf
  <2>4. lastOffer \in 0..(CycleUs(pm0) - 1)
    BY <2>1, <2>2, <2>3, NewestIsPhase
  <2>5. lastOffer # -1
    BY <2>3, <2>4
  <2>6. CircularDist(off, lastOffer, Cycle(c)) <= Tolerance(c)
    BY <1>8, <2>1, <2>2 DEF IsConfirmed
  <2>7. Len(clock.pending) \in Nat
    BY <2>3
  <2> QED
    BY <2>1, <2>2, <2>5, <2>6, <2>7
<1> HIDE DEF agrees
<1>9. clock'.presence_mode = pm /\ clock' \in ClocksOf(pm) /\ Len(clock'.pending) < Confirm
  BY <1>4 DEF IsClock, ClocksOf
<1>10. lastOffer' \in -1..(HostMod - 1)
  BY <1>2, <1>5, <1>6
<1>11. Streak'
  <2>1. CASE Accepts(c, off, clock') \/ Yields(c, off, clock')
    BY <2>1 DEF Accepts, Yields, Streak
  <2>2. CASE Holds(c, off, clock')
    <3>1. NewestOf(clock'.pending).us = lastOffer'
      BY <1>2, <2>2 DEF Holds
    <3>2. Len(clock'.pending) <= streak'
      <4>1. CASE Len(clock'.pending) = 1
        BY <1>1, <1>7, <4>1
      <4>2. CASE IsConfirmed(c, off) /\ Len(clock'.pending) = Len(c.pending) + 1
        BY <1>1, <1>7, <1>8, <1>9, <4>2
      <4> QED
        BY <2>2, <4>1, <4>2 DEF Holds
    <3> QED
      BY <3>1, <3>2 DEF Streak
  <2> QED
    BY <1>4, <2>1, <2>2
<1>12. ASSUME Jumps PROVE streak' >= Confirm
  <2>1. /\ clock.offsets # <<>> /\ clock'.presence_mode = clock.presence_mode
        /\ CircularDist(NewestOf(clock'.offsets).us, NewestOf(clock.offsets).us, Cycle(clock))
             > Tolerance(clock)
    BY <1>12 DEF Jumps, HasPhase
  <2>2. c = clock /\ pm = pm0
    BY <1>3, <1>9, <2>1
  <2>3. /\ clock.offsets \in Seq(Phases(CycleUs(pm0))) /\ CycleUs(pm0) \in Nat \ {0}
        /\ Cycle(clock) = CycleUs(pm0)
    BY <1>1, Lengths DEF ClocksOf, Cycle
  <2>4. ~Accepts(c, off, clock')
    <3> SUFFICES ASSUME Accepts(c, off, clock') PROVE FALSE
      OBVIOUS
    <3>1. ~(CircularDist(off, NewestOf(clock.offsets).us, Cycle(clock)) > Tolerance(clock))
      BY <2>1, <2>2 DEF Accepts, IsOutlier
    <3> QED
      BY <2>1, <3>1 DEF Accepts
  <2>5. ~Holds(c, off, clock')
    <3> SUFFICES ASSUME Holds(c, off, clock') PROVE FALSE
      OBVIOUS
    <3>1. PICK x \in 0..(CycleUs(pm0) - 1) : x = NewestOf(clock.offsets).us
      BY <2>1, <2>3, NewestIsPhase
    <3>2. CircularDist(x, x, CycleUs(pm0)) > Tolerance(clock)
      BY <2>1, <2>2, <2>3, <3>1 DEF Holds
    <3>3. CircularDist(x, x, CycleUs(pm0)) = 0
      BY <2>3, DistanceToSelf
    <3>4. Tolerance(clock) \in Nat
      <4>1. SlotUs(clock) \in Nat \ {0}
        BY <1>1, Lengths DEF SlotUs
      <4> QED
        BY <4>1 DEF Tolerance
    <3> QED
      BY <3>2, <3>3, <3>4
  <2>6. Yields(c, off, clock')
    BY <1>4, <2>4, <2>5
  <2>7. IsConfirmed(c, off) /\ Len(clock.pending) + 1 >= Confirm
    BY <2>2, <2>6 DEF Yields
  <2> QED
    BY <1>1, <1>7, <1>8, <2>7
<1>13. Estimate'
  BY <1>1, <1>4, <1>7, <1>9, <1>10, <1>11 DEF Estimate
<1> QED
  BY <1>12, <1>13

-----------------------------------------------------------------------------
LEMMA InitInv == Init => Inv
<1> SUFFICES ASSUME Init PROVE Inv
  OBVIOUS
<1>1. clock = [offsets |-> <<>>, presence_mode |-> 0, pending |-> <<>>, align_samples |-> <<>>]
  BY DEF Init, NewClock
<1>2. \A P : <<>> \in Seq(P)
  OBVIOUS
<1>3. clock \in ClocksOf(0)
  BY <1>1, <1>2 DEF ClocksOf
<1>4. IsClock(clock, clock.presence_mode) /\ clock.presence_mode = 0 /\ clock.pending = <<>>
  <2>1. Len(<<>>) <= Keep /\ Len(<<>>) < Confirm
    BY ClockAssumption
  <2> QED
    BY <1>1, <1>3, <2>1 DEF IsClock
<1>5. Estimate
  <2>1. streak = 0 /\ lastOffer = -1
    BY DEF Init
  <2> QED
    BY <1>4, <2>1, ClockAssumption DEF Estimate, Streak
<1>6. World
  BY SettleIsNat, TrackingAssumption DEF Init, World
<1> QED
  BY <1>5, <1>6 DEF Inv

(* A step keeps the invariant, and moves the anchor far only as the last   *)
(* of Confirm frames that agree.                                           *)
LEMMA StepInv == Inv /\ [Next]_vars => Inv' /\ (Jumps => streak' >= Confirm)
<1> SUFFICES ASSUME Inv, [Next]_vars PROVE Inv' /\ (Jumps => streak' >= Confirm)
  OBVIOUS
<1>1. World /\ Estimate
  BY DEF Inv
<1>2. now \in Int /\ 0 \in Nat /\ Settle \in Nat
  BY <1>1, SettleIsNat, TrackingAssumption DEF World
<1>3. ASSUME clock' = clock, streak' = streak, lastOffer' = lastOffer
      PROVE  Estimate' /\ (Jumps => streak' >= Confirm)
  <2>1. Estimate'
    BY <1>1, <1>3 DEF Estimate, Streak
  <2>2. ASSUME Jumps PROVE FALSE
    <3> DEFINE pm == clock.presence_mode
    <3>1. /\ clock.offsets # <<>>
          /\ CircularDist(NewestOf(clock.offsets).us, NewestOf(clock.offsets).us, Cycle(clock))
               > Tolerance(clock)
      BY <1>3, <2>2 DEF Jumps, HasPhase
    <3>2. pm \in Nat /\ IsClock(clock, pm) /\ clock \in ClocksOf(pm)
      <4>1. pm \in Nat
        BY <1>1, Modes DEF Estimate
      <4> QED
        BY <1>1, <4>1 DEF Estimate, IsClock
    <3>3. /\ clock.offsets \in Seq(Phases(CycleUs(pm))) /\ CycleUs(pm) \in Nat \ {0}
          /\ Cycle(clock) = CycleUs(pm) /\ SlotUs(clock) \in Nat \ {0}
      BY <3>2, Lengths DEF ClocksOf, Cycle, SlotUs
    <3>4. PICK x \in 0..(CycleUs(pm) - 1) : x = NewestOf(clock.offsets).us
      BY <3>1, <3>3, NewestIsPhase
    <3>5. CircularDist(x, x, CycleUs(pm)) = 0
      BY <3>3, DistanceToSelf
    <3>6. Tolerance(clock) \in Nat
      BY <3>3 DEF Tolerance
    <3> QED
      BY <3>1, <3>3, <3>4, <3>5, <3>6
  <2> QED
    BY <2>1, <2>2
<1>4. CASE Tick
  <2>1. World'
    BY <1>1, <1>4, TrackingAssumption DEF Tick, World, master, Settle
  <2> QED
    BY <1>3, <1>4, <2>1 DEF Tick, Inv
<1>5. CASE HearExact
  <2>1. Frame(now, now, 0) \in Frames
    BY <1>1, <1>2, FramesArrive
  <2>2. Estimate' /\ (Jumps => streak' >= Confirm)
    BY <1>1, <1>5, <2>1, FrameIsFoldedIn DEF HearExact
  <2>3. World'
    BY <1>1, <1>2, <1>5 DEF HearExact, World, master, Settle
  <2> QED
    BY <2>2, <2>3 DEF Inv
<1>6. ASSUME NEW d \in Lateness, HearLate(d)
      PROVE  Inv' /\ (Jumps => streak' >= Confirm)
  <2>1. Frame(now - d, now, 0) \in Frames
    <3>1. now - d \in Int
      BY <1>2, TrackingAssumption
    <3> QED
      BY <1>1, <1>2, <3>1, FramesArrive
  <2>2. Estimate' /\ (Jumps => streak' >= Confirm)
    BY <1>1, <1>6, <2>1, FrameIsFoldedIn DEF HearLate
  <2>3. World'
    BY <1>1, <1>2, <1>6, TrackingAssumption DEF HearLate, World, master, Settle
  <2> QED
    BY <2>2, <2>3 DEF Inv
<1>7. ASSUME NEW k \in OddSteps, HearOdd(k)
      PROVE  Inv' /\ (Jumps => streak' >= Confirm)
  <2>1. Frame(now, now, k) \in Frames
    <3>1. k \in Nat
      BY TrackingAssumption
    <3> QED
      BY <1>1, <1>2, <3>1, FramesArrive
  <2>2. Estimate' /\ (Jumps => streak' >= Confirm)
    BY <1>1, <1>7, <2>1, FrameIsFoldedIn DEF HearOdd
  <2>3. World'
    BY <1>1, <1>2, <1>7, TrackingAssumption DEF HearOdd, World, master, Settle
  <2> QED
    BY <2>2, <2>3 DEF Inv
<1>8. ASSUME NEW o \in Origins, NEW pm \in PresenceModes, Reanchor(o, pm)
      PROVE  Inv' /\ (Jumps => streak' >= Confirm)
  <2>1. World'
    BY <1>1, <1>2, <1>8, TrackingAssumption DEF Reanchor, World, Settle
  <2> QED
    BY <1>3, <1>8, <2>1 DEF Reanchor, Inv
<1>9. CASE UNCHANGED vars
  <2>1. World'
    BY <1>1, <1>9 DEF vars, World, Settle
  <2> QED
    BY <1>3, <1>9, <2>1 DEF vars, Inv
<1> QED
  BY <1>4, <1>5, <1>6, <1>7, <1>8, <1>9 DEF Next

(* Frames late, odd or from a master that restarts: the clock stays one.   *)
THEOREM ClockIsKept == Spec => []Inv
<1>1. Inv /\ [Next]_vars => Inv'
  BY StepInv
<1> QED
  BY <1>1, InitInv, PTL DEF Spec

(* Every sample is a phase within the cycle and no history outgrows its    *)
(* bound, for every length of window and cycle (follow 143-164).           *)
THEOREM ClockTypes == Spec => []TypeOK
<1>1. Inv => TypeOK
  <2> SUFFICES ASSUME Inv PROVE TypeOK
    OBVIOUS
  <2> DEFINE pm == clock.presence_mode
  <2>1. World /\ Estimate
    BY DEF Inv
  <2>2. IsClock(clock, pm) /\ clock \in ClocksOf(pm) /\ Cycle(clock) = CycleUs(pm)
    BY <2>1 DEF Estimate, IsClock, Cycle
  <2>3. /\ clock.offsets \in Seq(Phases(Cycle(clock)))
        /\ clock.align_samples \in Seq(Phases(Cycle(clock)))
        /\ clock.pending \in Seq(Phases(Cycle(clock)))
    BY <2>2 DEF ClocksOf
  <2>4. \A seq \in Seq(Phases(Cycle(clock))) : \A i \in DOMAIN seq :
          seq[i] \in [of : {Master}, us : 0..(Cycle(clock) - 1)]
    <3>1. \A P : \A seq \in Seq(P) : \A i \in DOMAIN seq : seq[i] \in P
      OBVIOUS
    <3> QED
      BY <3>1, Zenon DEF Phases
  <2>5. Len(clock.pending) <= Confirm - 1
    <3>1. Len(clock.pending) \in Nat
      BY <2>3
    <3> QED
      BY <2>2, <3>1, ClockAssumption DEF IsClock
  <2>6. ClockType
    BY <2>1, <2>2, <2>3, <2>4, <2>5 DEF ClockType, IsClock, Estimate
  <2> QED
    BY <2>1, <2>6 DEF TypeOK, World, Estimate
<1> QED
  BY <1>1, ClockIsKept, PTL

(* The anchor moves by more than half a slot only on the word of Confirm   *)
(* frames in a row that agree, whatever the frames (follow 240-267).       *)
THEOREM JumpsAreConfirmed == Spec => JumpNeedsConfirmation
<1>1. Inv /\ [Next]_vars => [Jumps => streak' >= Confirm]_vars
  BY StepInv
<1> QED
  BY <1>1, ClockIsKept, PTL DEF Spec, JumpNeedsConfirmation

(* Whatever phase the clock has come to, waiting for a slot's centre ends  *)
(* in that slot by the clock's own reckoning, for every length of slot and *)
(* every instant, across the wrap of the cycle (follow 413-430).           *)
THEOREM WaitsEndWhereRead == Spec => []WaitAgreesWithSlotAt
<1>1. Inv => WaitAgreesWithSlotAt
  <2> SUFFICES ASSUME Inv, HasPhase(clock), NEW slot \in 0..(Slots - 1)
               PROVE  SlotAt(clock, now + UsUntilSlotCentre(clock, now, slot)) = slot
    BY DEF WaitAgreesWithSlotAt
  <2>1. now \in Nat
    BY TrackingAssumption DEF Inv, World
  <2>2. HasPlace(clock)
    <3>1. clock.presence_mode \in Nat /\ IsClock(clock, clock.presence_mode)
      BY Modes DEF Inv, Estimate
    <3> QED
      BY <3>1, PhaseHasPlace
  <2> QED
    BY <2>1, <2>2, WaitIsRead
<1> QED
  BY <1>1, ClockIsKept, PTL

(* Less than half a slot off the truth, the slot aimed for is the slot     *)
(* reached.                                                                *)
LEMMA CentreForgives == Inv => CentreForgivesHalfASlot
<1> SUFFICES ASSUME Inv, HasPhase(clock), clock.presence_mode = mode,
                    CircularDist(PhaseUs(clock), TruePhase, Cycle(clock)) < Tolerance(clock),
                    NEW slot \in 0..(Slots - 1)
             PROVE  TrueSlot(now + UsUntilSlotCentre(clock, now, slot)) = slot
  BY DEF CentreForgivesHalfASlot, AimsTrue
<1>1. now \in Nat /\ origin \in Int
  BY TrackingAssumption DEF Inv, World
<1>2. HasPlace(clock)
  <2>1. clock.presence_mode \in Nat /\ IsClock(clock, clock.presence_mode)
    BY Modes DEF Inv, Estimate
  <2> QED
    BY <2>1, PhaseHasPlace
<1>3. Cycle(clock) = CycleUs(mode) /\ SlotUs(clock) = EawUs(mode)
  BY DEF Cycle, SlotUs
<1>4. CircularDist(PhaseUs(clock), origin % Cycle(clock), Cycle(clock)) < Tolerance(clock)
  BY <1>3 DEF TruePhase
<1>5. (((now + UsUntilSlotCentre(clock, now, slot)) - origin) \div SlotUs(clock)) % Slots = slot
  BY <1>1, <1>2, <1>4, WaitIsForgiven
<1> QED
  BY <1>3, <1>5 DEF TrueSlot

(* Aiming at the centre forgives anything less than half a slot: whenever  *)
(* the phase is that near the master's, every slot aimed for is the slot   *)
(* of the master's schedule that is reached (follow 367-371).              *)
THEOREM CentresForgive == Spec => []CentreForgivesHalfASlot
BY CentreForgives, ClockIsKept, PTL

-----------------------------------------------------------------------------
(* What a counter says of the time.  A count of windows, cut to the size   *)
(* of the counter, still names the slot and the window within it when the  *)
(* counter's range is a number of cycles.                                  *)
WholeCycles(pm) == CounterMod % (Slots * pm) = 0

LEMMA CounterKeepsPlace ==
  ASSUME NEW pm \in Nat \ {0}, WholeCycles(pm), NEW n \in Int,
         NEW counter \in Nat, counter = n % CounterMod,
         NEW slot, slot = (counter \div pm) % Slots, NEW i, i = counter % pm
  PROVE  /\ slot \in 0..(Slots - 1) /\ i \in 0..(pm - 1)
         /\ \E q \in Int : n = (pm * ((Slots * q) + slot)) + i
<1>1. /\ Slots \in Nat /\ Slots > 0 /\ pm \in Nat /\ pm > 0 /\ CounterMod \in Nat /\ CounterMod > 0
      /\ Slots * pm \in Nat /\ Slots * pm > 0
  <2>1. \A a, b \in Nat \ {0} : a * b \in Nat \ {0}
    OBVIOUS
  <2>2. Slots * pm \in Nat \ {0}
    BY <2>1, ClockAssumption
  <2> QED
    BY <2>2, ClockAssumption, TrackingAssumption
<1>2. PICK z \in Int : CounterMod = (Slots * pm) * z
  <2>1. PICK N \in Nat : N = Slots * pm /\ N > 0
    BY <1>1
  <2>2. PICK range \in Int : range = CounterMod /\ range % N = 0
    BY <1>1, <2>1 DEF WholeCycles
  <2>3. PICK z \in Int, r \in 0..(N - 1) : range = (N * z) + r /\ range % N = r
    BY <2>1, Divided
  <2>4. range = N * z
    <3>1. r = 0 /\ N * z \in Int
      BY <2>1, <2>2, <2>3
    <3> QED
      BY <2>3, <3>1
  <2> QED
    BY <2>1, <2>2, <2>4
<1>3. PICK y \in Int : n = (CounterMod * y) + counter
  BY <1>1, Divided
<1>4. PICK e \in Int : counter = (pm * e) + i /\ counter \div pm = e /\ i \in 0..(pm - 1)
  BY <1>1, Divided
<1>5. PICK g \in Int : e = (Slots * g) + slot /\ slot \in 0..(Slots - 1)
  <2>1. slot = e % Slots
    BY <1>4
  <2>2. PICK g \in Int, r \in 0..(Slots - 1) : e = (Slots * g) + r /\ e % Slots = r
    BY <1>1, Divided
  <2> QED
    BY <2>1, <2>2
<1>6. PICK q \in Int : q = (z * y) + g
  OBVIOUS
<1>7. CounterMod * y = pm * (Slots * (z * y))
  BY <1>1, <1>2
<1>8. pm * ((Slots * q) + slot) = (pm * (Slots * (z * y))) + (pm * ((Slots * g) + slot))
  BY <1>1, <1>5, <1>6
<1>9. pm * ((Slots * g) + slot) = pm * e /\ CounterMod * y \in Int /\ pm * e \in Int /\ i \in Int
  BY <1>1, <1>4, <1>5
<1>10. n = (pm * ((Slots * q) + slot)) + i
  <2>1. pm * ((Slots * q) + slot) = (CounterMod * y) + (pm * e)
    BY <1>7, <1>8, <1>9
  <2> QED
    BY <1>3, <1>4, <1>9, <2>1
<1> QED
  BY <1>4, <1>5, <1>10

(* Short of a number that differs by whole cycles, by less than a cycle.   *)
LEMMA ShortOf ==
  ASSUME NEW C \in Nat \ {0}, NEW o \in Int, NEW q \in Int, NEW w \in 0..(C - 1),
         NEW x \in Int, x = (o + (C * q)) - w
  PROVE  CircularDist(x % C, o % C, C) <= w
<1>0. C \in Nat /\ C > 0 /\ w \in Nat
  OBVIOUS
<1>1. PICK qo \in Int, b \in 0..(C - 1) : o = (C * qo) + b /\ o % C = b
  BY <1>0, Divided
<1>2. PICK qx \in Int, a \in 0..(C - 1) : x = (C * qx) + a /\ x % C = a
  BY <1>0, Divided
<1>3. PICK m \in Int : m = (qo + q) - qx
  OBVIOUS
<1>4. C * m = ((C * qo) + (C * q)) - (C * qx)
  BY <1>3
<1>5. C * qo \in Int /\ C * q \in Int /\ C * qx \in Int /\ C * (m + 1) = (C * m) + C
  OBVIOUS
<1>6. a + (C - b) = (C * (m + 1)) - w
  BY <1>1, <1>2, <1>4, <1>5
<1>7. b % C = b
  BY <1>0
<1>8. CASE w = 0
  <2>1. PICK k \in Int : k = m + 1
    OBVIOUS
  <2>2. a + (C - b) = (C * k) + 0 /\ 0 \in 0..(C - 1)
    BY <1>0, <1>6, <1>8, <2>1
  <2>3. (a + (C - b)) % C = 0
    BY <1>0, <2>1, <2>2, Quotient
  <2> QED
    BY <1>0, <1>1, <1>2, <1>7, <1>8, <2>3 DEF CircularDist
<1>9. CASE w # 0
  <2>1. PICK d \in 0..(C - 1) : d = C - w
    BY <1>9
  <2>2. a + (C - b) = (C * m) + d
    BY <1>5, <1>6, <2>1
  <2>3. (a + (C - b)) % C = d
    BY <1>0, <2>1, <2>2, Quotient
  <2> QED
    BY <1>0, <1>1, <1>2, <1>7, <2>1, <2>3 DEF CircularDist
<1> QED
  BY <1>8, <1>9

(* An exact frame of a master that reports the rest of its window, heard   *)
(* after a cycle of our clock: the cycle is placed less than a time unit   *)
(* before the truth, whole cycles apart.                                   *)
LEMMA CounterPlacesCycle ==
  ASSUME World, ReportsLeft, WholeCycles(mode), CycleUs(mode) <= Start,
         NEW s, s = Frame(now, now, 0)
  PROVE  \E q \in Int : \E w \in 0..(TuUs - 1) :
           CycleOriginUs(s) = (origin + (CycleUs(mode) * q)) - w
<1> DEFINE pm == mode
           S == EawUs(pm)
           C == CycleUs(pm)
<1>1. /\ pm \in Nat \ {0} /\ AtLeastOne(pm) = pm /\ origin \in Nat /\ now \in Nat /\ now >= origin
      /\ now >= C
  BY Modes, Lengths, TrackingAssumption DEF World, AtLeastOne
<1>2. /\ AwUs \in Nat /\ AwUs > 0 /\ TuUs \in Nat /\ TuUs > 0 /\ Slots \in Nat /\ Slots > 0
      /\ CounterMod \in Nat /\ CounterMod > 0
  BY ClockAssumption, TrackingAssumption
<1>3. PICK x \in Int : x = now - origin
  BY <1>1
<1>4. PICK n \in Int, r \in 0..(AwUs - 1) : x = (AwUs * n) + r /\ x % AwUs = r /\ x \div AwUs = n
  BY <1>2, Divided
<1>5. PICK counter \in Nat : counter = n % CounterMod
  BY <1>2
<1>6. s.counter = counter
  <2>1. CounterAt(now) = counter
    BY <1>3, <1>4, <1>5 DEF CounterAt
  <2>2. counter < CounterMod
    BY <1>2, <1>5
  <2>3. (counter + 0) % CounterMod = counter
    BY <1>2, <2>2
  <2> QED
    BY <2>1, <2>3 DEF Frame
<1>7. PICK left \in Int, w \in 0..(TuUs - 1) :
        /\ AwUs - r = (TuUs * left) + w /\ (AwUs - r) \div TuUs = left
  <2>1. AwUs - r \in Int
    BY <1>2
  <2> QED
    BY <1>2, <2>1, Divided
<1>8. s.remaining_tu = left
  <2>1. LeftAt(now) = left
    BY <1>3, <1>4, <1>7 DEF LeftAt
  <2> QED
    BY <2>1 DEF Frame
<1>9. TuUs * left \in Nat /\ left * TuUs = TuUs * left
  <2>1. left \in Nat
    <3> SUFFICES ASSUME left < 0 PROVE FALSE
      OBVIOUS
    <3>1. TuUs * left + TuUs <= TuUs * 0
      BY <1>2, Times
    <3>2. TuUs * left \in Int /\ TuUs * 0 = 0
      BY <1>2
    <3> QED
      BY <1>2, <1>7, <3>1, <3>2
  <2> QED
    BY <1>2, <2>1
<1>10. PICK a \in 0..AwUs : a = SatSub(AwUs, s.remaining_tu * TuUs) /\ a = r + w
  BY <1>2, <1>7, <1>8, <1>9 DEF SatSub
<1> DEFINE slot == (counter \div pm) % Slots
           i == counter % pm
<1>11. /\ slot \in 0..(Slots - 1) /\ i \in 0..(pm - 1)
       /\ \E q \in Int : n = (pm * ((Slots * q) + slot)) + i
  BY <1>1, <1>5, CounterKeepsPlace
<1>12. SlotOf(s) = slot /\ IntoSlotUs(s) = (i * AwUs) + a /\ s.arrived_us = now
       /\ s.presence_mode = pm
  BY <1>1, <1>6, <1>10 DEF SlotOf, IntoSlotUs, Frame
<1> HIDE DEF slot, i
<1>13. PICK q \in Int : n = (pm * ((Slots * q) + slot)) + i
  BY <1>11
<1>14. S \in Nat \ {0} /\ C \in Nat \ {0} /\ S * slot \in Nat /\ S * slot + S <= C
       /\ S = pm * AwUs /\ C = Slots * (pm * AwUs)
  BY <1>1, <1>11, Lengths DEF EawUs, CycleUs
<1>15. AwUs * i \in Nat /\ AwUs * i + AwUs <= S /\ i * AwUs = AwUs * i /\ slot * S = S * slot
  <2>1. i \in Nat /\ i < pm /\ slot \in Nat
    BY <1>1, <1>2, <1>11
  <2>2. AwUs * i + AwUs <= AwUs * pm
    BY <1>1, <1>2, <2>1, Times
  <2>3. AwUs * pm = pm * AwUs
    BY <1>1, <1>2
  <2>4. AwUs * i \in Nat /\ i * AwUs = AwUs * i /\ slot * S = S * slot
    BY <1>2, <1>14, <2>1
  <2> QED
    BY <1>14, <2>2, <2>3, <2>4
<1>16. PICK into \in Nat : into = (AwUs * i) + a /\ into = IntoSlotUs(s)
  BY <1>12, <1>15
<1>17. into + (S * slot) <= C
  BY <1>2, <1>14, <1>15, <1>16
<1>18. CycleOriginUs(s) = (now - into) - (S * slot)
  <2>1. SatSub(now, into) = now - into /\ now - into \in Int
    BY <1>1, <1>14, <1>16, <1>17 DEF SatSub
  <2>2. SatSub(now - into, S * slot) = (now - into) - (S * slot)
    BY <1>1, <1>14, <1>17, <2>1 DEF SatSub
  <2> QED
    BY <1>12, <1>15, <1>16, <2>1, <2>2 DEF CycleOriginUs
<1>19. AwUs * n = ((C * q) + (S * slot)) + (AwUs * i)
  <2>1. pm \in Int /\ slot \in Int /\ i \in Int
    BY <1>1, <1>2, <1>11
  <2>2. AwUs * ((pm * ((Slots * q) + slot)) + i)
          = (((Slots * (pm * AwUs)) * q) + ((pm * AwUs) * slot)) + (AwUs * i)
    BY <1>2, <2>1
  <2> QED
    BY <1>13, <1>14, <2>2
<1>20. CycleOriginUs(s) = (origin + (C * q)) - w
  <2>1. C * q \in Int
    BY <1>14
  <2>2. PICK cq \in Int, ss \in Int, ai \in Int, an \in Int :
            cq = C * q /\ ss = S * slot /\ ai = AwUs * i /\ an = AwUs * n
    BY <1>2, <1>14, <1>15, <2>1
  <2>3. now - origin = an + r /\ into = ai + (r + w) /\ an = (cq + ss) + ai
    BY <1>3, <1>4, <1>10, <1>16, <1>19, <2>2
  <2>4. (now - into) - ss = (origin + cq) - w
    BY <1>1, <1>2, <2>3
  <2> QED
    BY <1>18, <2>2, <2>4
<1> QED
  BY <1>20

(* The counter of an exact frame places the cycle to within one window of  *)
(* the truth, at every counter value, for a master that reports the rest   *)
(* of its window and a counter whose range is a number of cycles, once a   *)
(* cycle of our clock has passed (follow 116-127).                         *)
THEOREM CountersPlaceTheCycle ==
  ASSUME ReportsLeft, TuUs <= AwUs,
         \A pm \in PresenceModes : WholeCycles(pm) /\ CycleUs(pm) <= Start
  PROVE  Spec => []CounterPhaseIsAligned
<1>1. Init => CounterPhaseIsAligned
  BY DEF Init, CounterPhaseIsAligned
<1>2. Inv /\ CounterPhaseIsAligned /\ [Next]_vars => CounterPhaseIsAligned'
  <2> SUFFICES ASSUME Inv, CounterPhaseIsAligned, [Next]_vars, ~stamps', exactRun' >= 1
               PROVE  CircularDist(lastOffer', TruePhase', CycleUs(mode')) < AwUs
    BY DEF CounterPhaseIsAligned
  <2>1. CASE HearExact
    <3> DEFINE s == Frame(now, now, 0)
               c == Ruled(clock, s)
    <3>1. World /\ mode \in PresenceModes /\ mode' = mode /\ origin' = origin /\ ~stamps
      BY <2>1 DEF Inv, World, HearExact, master
    <3>2. PICK q \in Int : \E w \in 0..(TuUs - 1) :
                 CycleOriginUs(s) = (origin + (CycleUs(mode) * q)) - w
      BY <3>1, CounterPlacesCycle
    <3>3. PICK w \in 0..(TuUs - 1) : CycleOriginUs(s) = (origin + (CycleUs(mode) * q)) - w
      BY <3>2
    <3>4. /\ CycleUs(mode) \in Nat \ {0} /\ AwUs <= CycleUs(mode) /\ origin \in Int
          /\ AwUs \in Nat /\ TuUs \in Nat \ {0}
      <4>1. mode \in Nat \ {0} /\ EawUs(mode) <= CycleUs(mode) /\ CycleUs(mode) \in Nat \ {0}
        BY <3>1, Modes, Lengths
      <4>2. AwUs \in Nat \ {0} /\ TuUs \in Nat \ {0}
        BY ClockAssumption
      <4>3. AwUs <= EawUs(mode)
        <5>1. PICK k \in Nat : mode = k + 1
          BY <4>1
        <5>2. (k + 1) * AwUs = (k * AwUs) + AwUs /\ k * AwUs \in Nat
          BY <4>2
        <5>3. EawUs(mode) = (k + 1) * AwUs
          BY <4>1, <5>1 DEF EawUs, AtLeastOne
        <5> QED
          BY <4>2, <5>2, <5>3
      <4>4. origin \in Int /\ EawUs(mode) \in Int
        BY <3>1, <4>1, Lengths, TrackingAssumption DEF World
      <4> QED
        BY <4>1, <4>2, <4>3, <4>4
    <3>5. lastOffer' = CycleOriginUs(s) % CycleUs(mode)
      <4>1. s.phy_tx_time = 0 /\ s.presence_mode = mode
        BY <3>1 DEF Frame, PhyAt
      <4>2. AtLeastOne(mode) = mode
        BY <3>1, Modes DEF AtLeastOne
      <4>3. Cycle(c) = CycleUs(mode)
        <5>1. s \in Frames
          <6>1. now \in Int
            BY <3>1, TrackingAssumption DEF World
          <6> QED
            BY <3>1, <6>1, FramesArrive
        <5>2. clock.presence_mode \in Nat /\ IsClock(clock, clock.presence_mode)
          BY Modes DEF Inv, Estimate
        <5>3. c.presence_mode = mode
          BY <4>1, <5>1, <5>2, RuledIsClock
        <5> QED
          BY <5>3 DEF Cycle
      <4>4. lastOffer' = Offered(c, s)
        BY <2>1 DEF HearExact, Receive
      <4> QED
        BY <4>1, <4>3, <4>4 DEF Offered, HasPhy, CounterOff
    <3> DEFINE C == CycleUs(mode)
               x == CycleOriginUs(s)
    <3> HIDE DEF s, c, C, x
    <3>6. x \in Int /\ x = (origin + (C * q)) - w /\ w \in 0..(C - 1)
      <4>1. C * q \in Int
        BY <3>4 DEF C
      <4> QED
        BY <3>3, <3>4, <4>1 DEF x, C
    <3>7. CircularDist(x % C, origin % C, C) <= w
      BY <3>4, <3>6, ShortOf DEF C
    <3>8. w < AwUs /\ w \in Int
      BY <3>4
    <3>9. CircularDist(lastOffer', TruePhase', CycleUs(mode')) <= w
      BY <3>1, <3>5, <3>7 DEF TruePhase, C, x
    <3>10. PICK d : d = CircularDist(lastOffer', TruePhase', CycleUs(mode')) /\ d \in Int
      <4>1. \A y \in Int : y % C \in Int
        BY <3>4 DEF C
      <4>2. x % C \in Int /\ (origin % C) % C \in Int /\ C \in Int
        BY <3>4, <3>6, <4>1 DEF C
      <4>3. ((x % C) + (C - ((origin % C) % C))) % C \in Int
        BY <4>1, <4>2
      <4>4. CircularDist(x % C, origin % C, C) \in Int
        BY <4>2, <4>3 DEF CircularDist
      <4> QED
        BY <3>1, <3>5, <4>4 DEF TruePhase, C, x
    <3> QED
      BY <3>4, <3>8, <3>9, <3>10
  <2>2. CASE ~HearExact
    <3>1. /\ stamps' = stamps /\ exactRun' = exactRun /\ lastOffer' = lastOffer
          /\ origin' = origin /\ mode' = mode
      BY <2>2 DEF Next, Tick, HearLate, HearOdd, Reanchor, master, vars
    <3> QED
      BY <3>1 DEF CounterPhaseIsAligned, TruePhase
  <2> QED
    BY <2>1, <2>2
<1> QED
  BY <1>1, <1>2, ClockIsKept, PTL DEF Spec

-----------------------------------------------------------------------------
(* Samples of one phase within a few units: pushed, they stay the last     *)
(* ones; and once they are more than half, the median is one of them.      *)
LastIn(seq, k, Good) ==
  /\ k <= Len(seq) \/ Len(seq) = Keep
  /\ \A i \in DOMAIN seq : i > Len(seq) - k => seq[i].us \in Good

LEMMA PushedLast ==
  ASSUME NEW C, NEW seq \in Seq(Phases(C)), Len(seq) <= Keep, NEW x \in Phases(C),
         NEW Good, x.us \in Good, NEW k \in Nat, k = 0 \/ LastIn(seq, k, Good)
  PROVE  LastIn(Push(seq, x), k + 1, Good)
<1> DEFINE P == Phases(C)
           n == Keep
           longer == Append(seq, x)
<1>1. /\ longer \in Seq(P) /\ Len(longer) = Len(seq) + 1 /\ longer[Len(longer)] = x
      /\ Len(seq) \in Nat /\ n \in Nat \ {0}
      /\ DOMAIN longer = 1..(Len(seq) + 1) /\ DOMAIN seq = 1..Len(seq)
      /\ \A i \in 1..Len(seq) : longer[i] = seq[i]
  BY ClockAssumption
<1>2. \A i \in DOMAIN longer : i > Len(longer) - (k + 1) => longer[i].us \in Good
  <2> SUFFICES ASSUME NEW i \in 1..(Len(seq) + 1), i > Len(longer) - (k + 1)
               PROVE  longer[i].us \in Good
    BY <1>1
  <2>1. CASE i = Len(seq) + 1
    BY <1>1, <2>1
  <2>2. CASE i # Len(seq) + 1
    <3>1. i \in 1..Len(seq) /\ i > Len(seq) - k
      BY <1>1, <2>2
    <3>2. k # 0
      BY <1>1, <3>1
    <3>3. seq[i].us \in Good
      BY <1>1, <3>1, <3>2 DEF LastIn
    <3> QED
      BY <1>1, <3>1, <3>3
  <2> QED
    BY <2>1, <2>2
<1>3. k <= Len(seq) \/ Len(seq) = n
  <2>1. CASE k = 0
    <3>1. 0 <= Len(seq)
      BY <1>1
    <3> QED
      BY <2>1, <3>1
  <2>2. CASE k # 0
    BY <2>2 DEF LastIn
  <2> QED
    BY <2>1, <2>2
<1> HIDE DEF longer, P, n
<1>4. CASE Len(longer) <= n
  <2>1. Push(seq, x) = longer
    BY <1>4 DEF Push, Newest, longer, n
  <2>2. k + 1 <= Len(longer) \/ Len(longer) = n
    <3>1. PICK l \in Nat : l = Len(seq) /\ Len(longer) = l + 1
      BY <1>1
    <3>2. l + 1 <= n /\ n \in Nat
      BY <1>1, <1>4, <3>1
    <3>3. l # n
      BY <3>2
    <3>4. k <= l
      BY <1>3, <3>1, <3>3
    <3> QED
      BY <3>1, <3>4
  <2> QED
    BY <1>2, <2>1, <2>2 DEF LastIn, n
<1>5. CASE ~(Len(longer) <= n)
  <2> DEFINE tail == SubSeq(longer, Len(longer) - n + 1, Len(longer))
  <2>1. Len(longer) = n + 1 /\ Len(longer) - n + 1 = 2
    BY <1>1, <1>5 DEF n
  <2>2. Push(seq, x) = tail
    BY <1>5 DEF Push, Newest, longer, n
  <2>3. /\ tail \in Seq(P) /\ Len(tail) = n /\ DOMAIN tail = 1..n
        /\ \A i \in 1..n : tail[i] = longer[i + 1]
    BY <1>1, <2>1
  <2> HIDE DEF tail
  <2>4. ASSUME NEW i \in 1..n, i > n - (k + 1) PROVE tail[i].us \in Good
    <3>1. i + 1 \in DOMAIN longer /\ i + 1 > Len(longer) - (k + 1)
      BY <1>1, <2>1, <2>4
    <3> QED
      BY <1>2, <2>3, <3>1
  <2> QED
    BY <2>2, <2>3, <2>4 DEF LastIn, n
<1> QED
  BY <1>4, <1>5

(* A range that holds the newest samples, more than half of all that are   *)
(* kept, holds the median: no sample older than they decides it            *)
(* (follow align_delta 179-192).                                           *)
LEMMA MedianOfMost ==
  ASSUME NEW C \in Nat \ {0}, NEW seq, IsPhases(seq, C), seq # <<>>, Len(seq) <= Keep,
         NEW lo \in Int, NEW hi \in Int, NEW k \in Nat, Keep \div 2 + 1 <= k,
         LastIn(seq, k, lo..hi)
  PROVE  UpperMedian(seq) \in lo..hi
<1> DEFINE N == Len(seq)
           g == Keep \div 2 + 1
           T == (N - g + 1)..N
           m == CHOOSE i \in DOMAIN seq : InMiddle(seq, i)
<1>1. N \in Nat \ {0} /\ DOMAIN seq = 1..N /\ Keep \in Nat \ {0}
  BY ClockAssumption DEF IsPhases
<1>2. g \in Nat \ {0} /\ g <= k /\ g <= N /\ g > N \div 2 /\ 2 * (N \div 2) + 2 > N
  <2>1. k <= N \/ N = Keep
    BY DEF LastIn
  <2>2. g \in Nat \ {0} /\ g <= k /\ g <= Keep /\ N <= Keep
    BY <1>1
  <2>3. g > N \div 2 /\ 2 * (N \div 2) + 2 > N
    BY <1>1
  <2>4. PICK a \in Nat, b \in Nat : a = g /\ b = N
    BY <1>1, <2>2
  <2>5. a <= b
    <3>1. k <= b \/ b = Keep
      BY <2>1, <2>4
    <3>2. a <= k /\ a <= Keep
      BY <2>2, <2>4
    <3>3. CASE k <= b
      BY <3>2, <3>3
    <3>4. CASE b = Keep
      BY <3>2, <3>4
    <3> QED
      BY <3>1, <3>3, <3>4
  <2> QED
    BY <2>2, <2>3, <2>4, <2>5
<1>3. T \in SUBSET DOMAIN seq /\ IsFiniteSet(T) /\ Cardinality(T) = g
  <2>1. N - g + 1 \in 1..N
    BY <1>1, <1>2
  <2>2. T \in SUBSET DOMAIN seq
    BY <1>1, <2>1
  <2>3. N - g + 1 \in Int /\ N \in Int /\ N - (N - g + 1) + 1 = g /\ ~(N - g + 1 > N)
    BY <1>1, <1>2
  <2> HIDE DEF N, g
  <2>4. IsFiniteSet(T) /\ Cardinality(T) = g
    BY <2>3, FS_Interval
  <2> QED
    BY <2>2, <2>4
<1>4. \A i \in T : seq[i].us \in lo..hi
  <2> SUFFICES ASSUME NEW i \in T PROVE seq[i].us \in lo..hi
    OBVIOUS
  <2>1. i \in DOMAIN seq /\ i > N - k
    BY <1>1, <1>2, <1>3
  <2> QED
    BY <2>1 DEF LastIn
<1>5. UpperMedian(seq) = seq[m].us
  BY DEF UpperMedian, InMiddle, Below, UpTo
<1>6. m \in DOMAIN seq /\ InMiddle(seq, m)
  BY MiddleExists
<1> HIDE DEF m, T, g
<1>7. PICK v \in Nat : v = seq[m].us
  BY <1>6, PhasesAreNumbers
<1>8. \A i \in DOMAIN seq : seq[i].us \in Nat
  BY PhasesAreNumbers
<1>9. /\ Cardinality(Below(seq, v)) <= N \div 2 /\ Cardinality(UpTo(seq, v)) > N \div 2
  BY <1>6, <1>7 DEF InMiddle
<1>10. IsFiniteSet(DOMAIN seq) /\ Cardinality(DOMAIN seq) = N
  <2>1. 1 \in Int /\ N \in Int /\ ~(1 > N) /\ N - 1 + 1 = N
    BY <1>1
  <2>2. IsFiniteSet(1..N) /\ Cardinality(1..N) = N
    <3> HIDE DEF N
    <3> QED
      BY <2>1, FS_Interval
  <2> QED
    BY <1>1, <2>2
<1>11. /\ Below(seq, v) \in SUBSET DOMAIN seq /\ UpTo(seq, v) \in SUBSET DOMAIN seq
  BY DEF Below, UpTo
<1>12. /\ IsFiniteSet(Below(seq, v)) /\ IsFiniteSet(UpTo(seq, v))
       /\ Cardinality(Below(seq, v)) \in Nat /\ Cardinality(UpTo(seq, v)) \in Nat
  BY <1>10, <1>11, FS_Subset, FS_CardinalityType
<1>13. ~(v > hi)
  <2> SUFFICES ASSUME v > hi PROVE FALSE
    OBVIOUS
  <2>1. T \subseteq Below(seq, v)
    BY <1>3, <1>4, <1>7 DEF Below
  <2>2. Cardinality(T) <= Cardinality(Below(seq, v))
    BY <1>12, <2>1, FS_Subset
  <2> QED
    BY <1>1, <1>2, <1>3, <1>9, <1>12, <2>2
<1>14. ~(v < lo)
  <2> SUFFICES ASSUME v < lo PROVE FALSE
    OBVIOUS
  <2> DEFINE U == UpTo(seq, v)
  <2>1. T \cap U = {}
    BY <1>3, <1>4, <1>7 DEF UpTo
  <2>2. IsFiniteSet(U) /\ Cardinality(U) \in Nat /\ Cardinality(U) > N \div 2
    BY <1>9, <1>12
  <2>3. (T \cup U) \in SUBSET DOMAIN seq
    BY <1>3, <1>11
  <2> HIDE DEF U
  <2>4. Cardinality(T \cup U) = Cardinality(T) + Cardinality(U) - Cardinality(T \cap U)
    BY <1>3, <2>2, FS_Union
  <2>5. Cardinality(T \cap U) = 0
    BY <2>1, FS_EmptySet
  <2>6. Cardinality(T \cup U) <= N
    BY <1>10, <2>3, FS_Subset
  <2>7. Cardinality(T \cup U) = g + Cardinality(U)
    BY <1>2, <1>3, <2>2, <2>4, <2>5
  <2> QED
    BY <1>1, <1>2, <2>2, <2>6, <2>7
<1> QED
  BY <1>5, <1>7, <1>13, <1>14

-----------------------------------------------------------------------------
(* What an exact frame offers.                                             *)
LEMMA SameRemainder ==
  ASSUME NEW C \in Nat \ {0}, NEW y \in Int, NEW k \in Int, NEW x \in Int, x = y + (C * k)
  PROVE  x % C = y % C
<1>0. C \in Nat /\ C > 0
  OBVIOUS
<1>1. PICK q \in Int, r \in 0..(C - 1) : y = (C * q) + r /\ y % C = r
  BY <1>0, Divided
<1>2. PICK j \in Int : j = q + k
  OBVIOUS
<1>3. x = (C * j) + r
  <2>1. C * j = (C * q) + (C * k) /\ C * q \in Int /\ C * k \in Int
    BY <1>2
  <2> QED
    BY <1>1, <2>1
<1>4. x % C = r
  BY <1>0, <1>3, Quotient
<1> QED
  BY <1>1, <1>4

LEMMA AheadOf ==
  ASSUME NEW C \in Nat \ {0}, NEW y \in Int, NEW e \in 0..(C - 1), NEW x \in Int, x = y + e
  PROVE  CircularDist(x % C, y % C, C) <= e
<1>0. C \in Nat /\ C > 0 /\ e \in Nat
  OBVIOUS
<1>1. PICK qy \in Int, b \in 0..(C - 1) : y = (C * qy) + b /\ y % C = b
  BY <1>0, Divided
<1>2. PICK qx \in Int, a \in 0..(C - 1) : x = (C * qx) + a /\ x % C = a
  BY <1>0, Divided
<1>3. PICK m \in Int : m = (qy - qx) + 1
  OBVIOUS
<1>4. C * m = ((C * qy) - (C * qx)) + C /\ C * qx \in Int /\ C * qy \in Int
  BY <1>3
<1>5. a + (C - b) = (C * m) + e
  BY <1>1, <1>2, <1>4
<1>6. (a + (C - b)) % C = e
  BY <1>0, <1>5, Quotient
<1>7. b % C = b
  BY <1>0
<1> QED
  BY <1>0, <1>1, <1>2, <1>6, <1>7 DEF CircularDist

LEMMA DistanceIsInt ==
  ASSUME NEW C \in Nat \ {0}, NEW a \in Int, NEW b \in Int
  PROVE  CircularDist(a, b, C) \in Int
<1>1. \A y \in Int : y % C \in Int
  OBVIOUS
<1>2. a + (C - (b % C)) \in Int
  BY <1>1
<1>3. (a + (C - (b % C))) % C \in Int
  BY <1>1, <1>2
<1> QED
  BY <1>3 DEF CircularDist

(* Two phases short of the same point, both by less than h.                *)
LEMMA BothShort ==
  ASSUME NEW C \in Nat \ {0}, NEW o \in Int, NEW h \in Nat, h <= C,
         NEW w \in 0..(h - 1), NEW v \in 0..(h - 1)
  PROVE  CircularDist((o - w) % C, (o - v) % C, C) < h
<1>1. PICK x \in Int, y \in Int : x = o - w /\ y = o - v
  OBVIOUS
<1>2. CircularDist(x % C, y % C, C) \in Int
  <2>1. x % C \in Int /\ y % C \in Int
    OBVIOUS
  <2> QED
    BY <2>1, DistanceIsInt
<1>3. CASE w >= v
  <2>1. PICK e \in 0..(C - 1) : e = w - v /\ e < h
    BY <1>3
  <2>2. PICK q \in Int : q = 0
    OBVIOUS
  <2>3. x = (y + (C * q)) - e
    BY <1>1, <2>1, <2>2
  <2>4. CircularDist(x % C, y % C, C) <= e
    BY <2>3, ShortOf
  <2> QED
    BY <1>1, <1>2, <2>1, <2>4
<1>4. CASE ~(w >= v)
  <2>1. PICK e \in 0..(C - 1) : e = v - w /\ e < h
    BY <1>4
  <2>2. x = y + e
    BY <1>1, <2>1
  <2>3. CircularDist(x % C, y % C, C) <= e
    BY <2>2, AheadOf
  <2> QED
    BY <1>1, <1>2, <2>1, <2>3
<1> QED
  BY <1>3, <1>4

(* What a master must be for its exact frames to be exact: it reports the  *)
(* rest of its window, which is at least two time units; its counter and   *)
(* any stamps wrap at whole cycles; a cycle of our clock has passed, and   *)
(* no wrap of it; and no stamp is the zero that is read as "no stamp"      *)
(* (follow 136).                                                           *)
FramesAreTrue ==
  /\ ReportsLeft /\ 2 * TuUs <= AwUs /\ Horizon < HostMod
  /\ \A pm \in PresenceModes : WholeCycles(pm) /\ CycleUs(pm) <= Start
  /\ TRUE \in Stamping =>
       /\ \A pm \in PresenceModes : PhyMod % CycleUs(pm) = 0
       /\ \A epoch \in TsfEpochs : \A t \in Start..Horizon : (t - epoch) % PhyMod # 0

LEMMA WindowMeasures ==
  ASSUME FramesAreTrue, NEW pm \in PresenceModes
  PROVE  /\ CycleUs(pm) \in Nat \ {0} /\ TuUs \in Nat \ {0} /\ AwUs \in Nat \ {0}
         /\ TuUs <= AwUs /\ AwUs <= EawUs(pm) /\ EawUs(pm) <= CycleUs(pm)
         /\ EawUs(pm) \in Nat \ {0}
         /\ TuUs <= EawUs(pm) \div 2 /\ TuUs <= CycleUs(pm)
<1>1. pm \in Nat \ {0}
  BY Modes
<1>2. /\ EawUs(pm) <= CycleUs(pm) /\ CycleUs(pm) \in Nat \ {0} /\ EawUs(pm) \in Nat \ {0}
      /\ AwUs \in Nat \ {0} /\ TuUs \in Nat \ {0} /\ 2 * TuUs <= AwUs
  BY <1>1, Lengths, ClockAssumption DEF FramesAreTrue
<1>3. AwUs <= EawUs(pm)
  <2>1. PICK k \in Nat : pm = k + 1
    BY <1>1
  <2>2. (k + 1) * AwUs = (k * AwUs) + AwUs /\ k * AwUs \in Nat
    BY <1>2
  <2>3. EawUs(pm) = (k + 1) * AwUs
    BY <1>1, <2>1 DEF EawUs, AtLeastOne
  <2> QED
    BY <1>2, <2>2, <2>3
<1>4. PICK S \in Nat : S = EawUs(pm)
  BY <1>2
<1>5. TuUs <= S \div 2
  BY <1>2, <1>3, <1>4
<1>6. TuUs <= AwUs /\ TuUs <= CycleUs(pm)
  BY <1>2, <1>3
<1> QED
  BY <1>2, <1>3, <1>4, <1>5, <1>6

LEMMA CounterShort ==
  ASSUME World, FramesAreTrue, NEW s, s = Frame(now, now, 0), NEW c, c.presence_mode = mode
  PROVE  \E w \in 0..(TuUs - 1) : CounterOff(c, s) = (origin - w) % CycleUs(mode)
<1> DEFINE C == CycleUs(mode)
<1>1. /\ WholeCycles(mode) /\ CycleUs(mode) <= Start /\ ReportsLeft /\ origin \in Int
      /\ C \in Nat \ {0} /\ mode \in PresenceModes
  <2>1. mode \in PresenceModes /\ origin \in Int
    BY TrackingAssumption DEF World
  <2>2. ReportsLeft /\ WholeCycles(mode) /\ CycleUs(mode) <= Start
    BY <2>1 DEF FramesAreTrue
  <2> QED
    BY <2>1, <2>2, WindowMeasures
<1>2. PICK q \in Int : \E w \in 0..(TuUs - 1) : CycleOriginUs(s) = (origin + (C * q)) - w
  BY <1>1, CounterPlacesCycle
<1>3. PICK w \in 0..(TuUs - 1) : CycleOriginUs(s) = (origin + (C * q)) - w
  BY <1>2
<1> HIDE DEF C
<1>4. PICK y \in Int : y = origin - w
  BY <1>1
<1>5. PICK x \in Int : x = CycleOriginUs(s) /\ x = y + (C * q)
  <2>1. C * q \in Int
    BY <1>1
  <2> QED
    BY <1>1, <1>3, <1>4, <2>1
<1>6. x % C = y % C
  BY <1>1, <1>5, SameRemainder
<1> QED
  BY <1>4, <1>5, <1>6 DEF CounterOff, Cycle, C

LEMMA StampIsEpoch ==
  ASSUME World, FramesAreTrue, stamps, NEW s, s = Frame(now, now, 0),
         NEW c, c.presence_mode = mode
  PROVE  HasPhy(s) /\ PhyOff(c, s) = tsfEpoch % CycleUs(mode)
<1> DEFINE C == CycleUs(mode)
<1>1. /\ tsfEpoch \in TsfEpochs /\ tsfEpoch \in Int /\ now \in Start..Horizon /\ now \in Nat
      /\ C \in Nat \ {0} /\ C \in Nat /\ C > 0 /\ C <= now /\ now < HostMod /\ PhyMod % C = 0
      /\ HostMod \in Nat \ {0} /\ PhyMod \in Nat /\ PhyMod > 0
  <2>1. mode \in PresenceModes /\ tsfEpoch \in TsfEpochs /\ now \in Start..Horizon
    BY DEF World
  <2>0. TRUE \in Stamping
    BY TrackingAssumption DEF World
  <2>2. C \in Nat \ {0} /\ C <= Start /\ PhyMod % C = 0 /\ Horizon < HostMod
    BY <2>0, <2>1, WindowMeasures DEF FramesAreTrue
  <2>3. /\ tsfEpoch \in Int /\ Start \in Nat /\ Horizon \in Nat /\ HostMod \in Nat \ {0}
        /\ PhyMod \in Nat /\ PhyMod > 0
    BY <2>1, TrackingAssumption, ClockAssumption
  <2> HIDE DEF C
  <2>4. now \in Nat /\ C <= now /\ now < HostMod /\ C > 0 /\ C \in Nat
    BY <2>1, <2>2, <2>3
  <2> QED
    BY <2>1, <2>2, <2>3, <2>4
<1> HIDE DEF C
<1>2. PICK y \in Int, phy \in 0..(PhyMod - 1) :
        now - tsfEpoch = (PhyMod * y) + phy /\ (now - tsfEpoch) % PhyMod = phy
  <2>1. now - tsfEpoch \in Int
    BY <1>1
  <2> QED
    BY <1>1, <2>1, Remains
<1>3. s.phy_tx_time = phy /\ s.arrived_us = now /\ s.presence_mode = mode
  BY <1>2 DEF Frame, PhyAt
<1>4. HasPhy(s)
  <2>1. TRUE \in Stamping
    BY TrackingAssumption DEF World
  <2>2. (now - tsfEpoch) % PhyMod # 0
    BY <1>1, <2>1 DEF FramesAreTrue
  <2> QED
    BY <1>2, <1>3, <2>2 DEF HasPhy
<1>5. PICK z \in Int : PhyMod = C * z
  <2>1. PICK z \in Int, r \in 0..(C - 1) : PhyMod = (C * z) + r /\ PhyMod % C = r
    BY <1>1, Divided
  <2>2. r = 0 /\ C * z \in Int
    BY <1>1, <2>1
  <2> QED
    BY <2>1, <2>2
<1>6. PICK p \in Int, r \in 0..(C - 1) : phy = (C * p) + r /\ phy % C = r
  <2>1. phy \in Int
    BY <1>1
  <2> QED
    BY <1>1, <2>1, Divided
<1>7. PICK k \in Int : k = (z * y) + p
  BY <1>5
<1>8. now - tsfEpoch = (C * k) + r
  <2>1. PhyMod * y = C * (z * y) /\ C * (z * y) \in Int /\ C * p \in Int
        /\ C * k = (C * (z * y)) + (C * p)
    BY <1>1, <1>5, <1>7
  <2> QED
    BY <1>1, <1>2, <1>6, <2>1
<1>9. PICK x \in Int : x = now - r /\ x \in 0..(HostMod - 1)
  BY <1>1
<1>10. CycleOriginPhy(s) = x
  <2>1. CycleOriginPhy(s) = x % HostMod
    BY <1>3, <1>6, <1>9 DEF CycleOriginPhy, WrapSub, C
  <2>2. x % HostMod = x
    BY <1>1, <1>9
  <2> QED
    BY <2>1, <2>2
<1>11. x % C = tsfEpoch % C
  <2>1. x = tsfEpoch + (C * k)
    <3>1. C * k \in Int
      BY <1>1
    <3> QED
      BY <1>1, <1>8, <1>9, <3>1
  <2> QED
    BY <1>1, <2>1, SameRemainder
<1> QED
  BY <1>4, <1>10, <1>11 DEF PhyOff, Cycle, C

-----------------------------------------------------------------------------
(* A clock that settles.  Since the last disturbance the anchor has come   *)
(* to be the master's, or the outliers held are its frames and one more    *)
(* each time; and the newest samples of the alignment are those frames'.   *)
IsAnchor(x) ==
  IF stamps THEN x = tsfEpoch % CycleUs(mode)
  ELSE \E w \in 0..(TuUs - 1) : x = (origin - w) % CycleUs(mode)

Gap == (origin + (CycleUs(mode) - (tsfEpoch % CycleUs(mode)))) % CycleUs(mode)
Gaps == (Gap - (TuUs - 1))..Gap

Anchoring ==
  \/ IsAnchor(NewestOf(clock.offsets).us)
  \/ /\ clock.pending # <<>> /\ exactRun <= Len(clock.pending)
     /\ IsAnchor(NewestOf(clock.pending).us)

Settling ==
  /\ ~stamps => clock.align_samples = <<>>
  /\ exactRun >= 1 =>
       /\ clock.presence_mode = mode /\ clock.offsets # <<>> /\ Anchoring
       /\ stamps /\ GapIsOffTheSeam => LastIn(clock.align_samples, exactRun, Gaps)

LEMMA AnchorsAgree ==
  ASSUME World, FramesAreTrue, NEW x, NEW y, IsAnchor(x), IsAnchor(y)
  PROVE  CircularDist(x, y, CycleUs(mode)) <= EawUs(mode) \div 2
<1> DEFINE C == CycleUs(mode)
<1>1. /\ C \in Nat \ {0} /\ TuUs \in Nat /\ TuUs <= C /\ TuUs <= EawUs(mode) \div 2
      /\ EawUs(mode) \div 2 \in Nat /\ origin \in Int /\ tsfEpoch \in Int
  <2>1. mode \in PresenceModes /\ origin \in Int /\ tsfEpoch \in Int
    BY TrackingAssumption DEF World
  <2>2. EawUs(mode) \in Nat
    BY <2>1, WindowMeasures
  <2> QED
    BY <2>1, <2>2, WindowMeasures
<1> HIDE DEF C
<1>2. CASE stamps
  <2>1. x \in 0..(C - 1) /\ x = y
    BY <1>1, <1>2 DEF IsAnchor, C
  <2>2. CircularDist(x, x, C) = 0
    BY <1>1, <2>1, DistanceToSelf
  <2> QED
    BY <1>1, <2>1, <2>2 DEF C
<1>3. CASE ~stamps
  <2>1. PICK w \in 0..(TuUs - 1), v \in 0..(TuUs - 1) :
          x = (origin - w) % C /\ y = (origin - v) % C
    BY <1>3 DEF IsAnchor, C
  <2>2. CircularDist(x, y, C) < TuUs
    BY <1>1, <2>1, BothShort
  <2>3. CircularDist(x, y, C) \in Int
    <3>1. origin - w \in Int /\ origin - v \in Int
      BY <1>1
    <3>2. x \in Int /\ y \in Int
      BY <1>1, <2>1, <3>1
    <3> QED
      BY <1>1, <3>2, DistanceIsInt
  <2> QED
    BY <1>1, <2>2, <2>3 DEF C
<1> QED
  BY <1>2, <1>3

LEMMA OfferIsAnchor ==
  ASSUME World, FramesAreTrue, NEW s, s = Frame(now, now, 0), NEW c, c.presence_mode = mode
  PROVE  IsAnchor(Offered(c, s))
<1>1. CASE stamps
  BY <1>1, StampIsEpoch DEF IsAnchor, Offered
<1>2. CASE ~stamps
  <2>1. ~HasPhy(s)
    BY <1>2 DEF HasPhy, Frame, PhyAt
  <2>2. PICK w \in 0..(TuUs - 1) : CounterOff(c, s) = (origin - w) % CycleUs(mode)
    BY CounterShort
  <2> QED
    BY <1>2, <2>1, <2>2 DEF IsAnchor, Offered
<1> QED
  BY <1>1, <1>2

LEMMA SampleIsGap ==
  ASSUME World, FramesAreTrue, stamps, GapIsOffTheSeam, NEW s, s = Frame(now, now, 0),
         NEW c, c.presence_mode = mode
  PROVE  ((CounterOff(c, s) + Cycle(c) - PhyOff(c, s)) % Cycle(c)) \in Gaps
<1> DEFINE C == CycleUs(mode)
<1>1. /\ C \in Nat \ {0} /\ C \in Nat /\ C > 0 /\ TuUs \in Nat \ {0} /\ origin \in Int
      /\ tsfEpoch \in Int /\ Cycle(c) = C
  BY WindowMeasures, TrackingAssumption DEF World, Cycle
<1>2. PhyOff(c, s) = tsfEpoch % C
  BY StampIsEpoch
<1>3. PICK w \in 0..(TuUs - 1) : CounterOff(c, s) = (origin - w) % C
  BY CounterShort
<1>4. Gap >= TuUs - 1 /\ Gap = (origin + (C - (tsfEpoch % C))) % C
  BY DEF GapIsOffTheSeam, Gap
<1> HIDE DEF C
<1>5. PICK p \in 0..(C - 1) : p = tsfEpoch % C
  BY <1>1
<1>6. PICK i \in Int, co \in 0..(C - 1) : origin - w = (C * i) + co /\ (origin - w) % C = co
  <2>1. origin - w \in Int
    BY <1>1
  <2> QED
    BY <1>1, <2>1, Remains
<1>7. PICK j \in Int, g \in 0..(C - 1) :
        origin + (C - p) = (C * j) + g /\ (origin + (C - p)) % C = g
  <2>1. origin + (C - p) \in Int
    BY <1>1
  <2> QED
    BY <1>1, <2>1, Remains
<1>8. Gap = g /\ g >= TuUs - 1
  BY <1>4, <1>5, <1>7
<1>9. PICK d \in 0..(C - 1) : d = g - w
  BY <1>1, <1>8
<1>10. PICK m \in Int : m = j - i
  OBVIOUS
<1>11. co + (C - p) = (C * m) + d
  <2>1. C * m = (C * j) - (C * i) /\ C * j \in Int /\ C * i \in Int
    BY <1>1, <1>10
  <2> QED
    BY <1>1, <1>6, <1>7, <1>9, <2>1
<1>12. (co + (C - p)) % C = d
  BY <1>1, <1>11, Quotient
<1>13. co + C - p = co + (C - p)
  BY <1>1
<1>14. (CounterOff(c, s) + Cycle(c) - PhyOff(c, s)) % Cycle(c) = d
  BY <1>1, <1>2, <1>3, <1>5, <1>6, <1>12, <1>13
<1>15. d \in (g - (TuUs - 1))..g
  BY <1>1, <1>9
<1> QED
  BY <1>8, <1>14, <1>15 DEF Gaps

(* The samples of a clock that has folded a frame in.                      *)
LEMMA ObservedSamples ==
  ASSUME NEW old, NEW pm0 \in Nat, IsClock(old, pm0), NEW s \in Frames,
         NEW c, c = Ruled(old, s)
  PROVE  /\ ClockObserve(old, s).align_samples = Aligned(c, s).align_samples
         /\ c.align_samples = old.align_samples \/ c.align_samples = <<>>
         /\ s.presence_mode = old.presence_mode => c = old
<1>1. s.presence_mode \in Nat \ {0}
  BY Modes DEF Frames
<1>2. AtLeastOne(s.presence_mode) = s.presence_mode
  BY <1>1 DEF AtLeastOne
<1>3. old \in ClocksOf(pm0)
  BY DEF IsClock
<1>4. /\ c.align_samples = old.align_samples \/ c.align_samples = <<>>
      /\ s.presence_mode = old.presence_mode => c = old
  BY <1>2, <1>3 DEF Ruled, Cleared, ClocksOf
<1> DEFINE a == Aligned(c, s)
           x == Sample(s.of, Offered(c, s))
<1>5. IsClock(a, s.presence_mode)
  <2>1. IsClock(c, s.presence_mode) /\ c.presence_mode = s.presence_mode
    BY RuledIsClock
  <2> QED
    BY <1>1, <2>1, AlignedIsClock
<1>6. ClockObserve(old, s) = IF IsOutlier(a, x.us) THEN HoldOutlier(a, x) ELSE Accept(a, x)
  BY DEF ClockObserve
<1> HIDE DEF a, x
<1>7. a \in ClocksOf(s.presence_mode)
  BY <1>5 DEF IsClock
<1>8. HoldOutlier(a, x).align_samples = a.align_samples
  BY <1>7 DEF HoldOutlier, ClocksOf
<1>9. Accept(a, x).align_samples = a.align_samples
  BY <1>7 DEF Accept, ClocksOf
<1> QED
  BY <1>4, <1>6, <1>8, <1>9 DEF a

(* One more exact frame.                                                   *)
LEMMA ExactSettles ==
  ASSUME Inv, FramesAreTrue, Settling, HearExact
  PROVE  Settling'
<1> DEFINE s == Frame(now, now, 0)
           c == Ruled(clock, s)
           off == Offered(c, s)
           pm0 == clock.presence_mode
<1>1. /\ World /\ Estimate /\ mode \in PresenceModes /\ mode \in Nat \ {0} /\ pm0 \in Nat
      /\ IsClock(clock, pm0) /\ s \in Frames /\ s.presence_mode = mode
  <2>1. World /\ Estimate /\ mode \in PresenceModes /\ now \in Int /\ 0 \in Nat
    BY TrackingAssumption DEF Inv, World
  <2>2. pm0 \in Nat /\ mode \in Nat \ {0} /\ IsClock(clock, pm0)
    BY <2>1, Modes DEF Estimate
  <2>3. s \in Frames
    BY <2>1, FramesArrive
  <2> QED
    BY <2>1, <2>2, <2>3 DEF Frame
<1>2. /\ clock' = ClockObserve(clock, s)
      /\ exactRun' = IF exactRun < Settle THEN exactRun + 1 ELSE exactRun
      /\ mode' = mode /\ stamps' = stamps /\ origin' = origin /\ tsfEpoch' = tsfEpoch
  BY DEF HearExact, Receive, master
<1>3. /\ IsClock(clock', mode) /\ clock'.offsets # <<>> /\ clock'.presence_mode = mode
      /\ Accepts(c, off, clock') \/ Holds(c, off, clock') \/ Yields(c, off, clock')
  <2>1. /\ IsClock(clock', mode) /\ clock'.offsets # <<>>
        /\ Accepts(c, off, clock') \/ Holds(c, off, clock') \/ Yields(c, off, clock')
    BY <1>1, <1>2, FrameDoes
  <2> QED
    BY <2>1 DEF IsClock, ClocksOf
<1>4. /\ IsClock(c, mode) /\ c.presence_mode = mode
      /\ exactRun >= 1 => c = clock
  <2>1. IsClock(c, mode) /\ c.presence_mode = mode
    BY <1>1, RuledIsClock
  <2>2. s.presence_mode = clock.presence_mode => c = clock
    BY <1>1, ObservedSamples
  <2>3. exactRun >= 1 => clock.presence_mode = mode
    BY DEF Settling
  <2> QED
    BY <1>1, <2>1, <2>2, <2>3
<1>5. /\ clock'.align_samples = Aligned(c, s).align_samples
      /\ c.align_samples = clock.align_samples \/ c.align_samples = <<>>
  BY <1>1, <1>2, ObservedSamples
<1>6. IsAnchor(off)
  BY <1>1, <1>4, OfferIsAnchor
<1>7. exactRun \in Nat /\ exactRun' \in Nat /\ exactRun' <= exactRun + 1
  <2>1. exactRun \in Nat
    BY <1>1, SettleIsNat DEF World
  <2> QED
    BY <1>2, <2>1
<1> HIDE DEF s, c, off
<1>9. Anchoring'
  <2>1. CASE Accepts(c, off, clock') \/ Yields(c, off, clock')
    <3>1. NewestOf(clock'.offsets).us = off
      BY <2>1 DEF Accepts, Yields
    <3>2. IsAnchor(NewestOf(clock.offsets).us)'
      BY <1>2, <1>6, <3>1 DEF IsAnchor
    <3> QED
      BY <3>2 DEF Anchoring
  <2>2. CASE Holds(c, off, clock')
    <3>1. /\ clock'.offsets = c.offsets /\ NewestOf(clock'.pending).us = off
          /\ \/ ~IsConfirmed(c, off) /\ Len(clock'.pending) = 1
             \/ IsConfirmed(c, off) /\ Len(clock'.pending) = Len(c.pending) + 1
      BY <2>2 DEF Holds
    <3>2. CASE exactRun >= 1 /\ IsAnchor(NewestOf(clock.offsets).us)
      <4>1. IsAnchor(NewestOf(clock.offsets).us)'
        BY <1>2, <1>4, <3>1, <3>2 DEF IsAnchor
      <4> QED
        BY <4>1 DEF Anchoring
    <3>3. /\ clock'.pending \in Seq(Phases(CycleUs(mode))) /\ c.pending \in Seq(Phases(CycleUs(mode)))
          /\ clock'.pending # <<>> /\ Len(c.pending) \in Nat
      <4>1. /\ clock'.pending \in Seq(Phases(CycleUs(mode)))
            /\ c.pending \in Seq(Phases(CycleUs(mode))) /\ Len(c.pending) \in Nat
        BY <1>3, <1>4 DEF IsClock, ClocksOf
      <4>2. Len(clock'.pending) # 0
        <5>1. PICK l \in Nat : l = Len(c.pending)
          BY <4>1
        <5>2. l + 1 # 0
          OBVIOUS
        <5>3. Len(clock'.pending) = 1 \/ Len(clock'.pending) = l + 1
          BY <3>1, <5>1
        <5> QED
          BY <5>2, <5>3
      <4>3. clock'.pending # <<>>
        BY <4>2
      <4> QED
        BY <4>1, <4>3
    <3>4. IsAnchor(NewestOf(clock.pending).us)'
      BY <1>2, <1>6, <3>1 DEF IsAnchor
    <3>5. CASE exactRun >= 1 /\ ~IsAnchor(NewestOf(clock.offsets).us)
      <4>1. /\ clock.pending # <<>> /\ exactRun <= Len(clock.pending)
            /\ IsAnchor(NewestOf(clock.pending).us) /\ c = clock
        BY <1>4, <3>5 DEF Settling, Anchoring
      <4>2. CircularDist(off, NewestOf(clock.pending).us, CycleUs(mode)) <= EawUs(mode) \div 2
        BY <1>1, <1>6, <4>1, AnchorsAgree
      <4>3. Cycle(c) = CycleUs(mode) /\ Tolerance(c) = EawUs(mode) \div 2
        BY <1>4 DEF Cycle, Tolerance, SlotUs
      <4>4. IsConfirmed(c, off)
        BY <4>1, <4>2, <4>3 DEF IsConfirmed
      <4>5. exactRun' <= Len(clock'.pending)
        BY <1>7, <3>1, <3>3, <4>1, <4>4
      <4> QED
        BY <3>3, <3>4, <4>5 DEF Anchoring
    <3>6. CASE exactRun = 0
      <4>1. exactRun' <= 1 /\ Len(clock'.pending) >= 1
        BY <1>7, <3>1, <3>3, <3>6
      <4>2. Len(clock'.pending) \in Nat
        BY <3>3
      <4>3. exactRun' <= Len(clock'.pending)
        BY <1>7, <4>1, <4>2
      <4> QED
        BY <3>3, <3>4, <4>3 DEF Anchoring
    <3> QED
      BY <1>7, <3>2, <3>5, <3>6
  <2> QED
    BY <1>3, <2>1, <2>2
<1>10. ASSUME ~stamps PROVE clock'.align_samples = <<>>
  <2>1. ~HasPhy(s)
    BY <1>10 DEF HasPhy, Frame, PhyAt, s
  <2>2. Aligned(c, s) = c
    BY <2>1 DEF Aligned
  <2>3. clock.align_samples = <<>>
    BY <1>10 DEF Settling
  <2> QED
    BY <1>5, <2>2, <2>3
<1>11. ASSUME stamps, GapIsOffTheSeam
       PROVE  LastIn(clock'.align_samples, exactRun', Gaps)
  <2> DEFINE C == CycleUs(mode)
             gap == (CounterOff(c, s) + Cycle(c) - PhyOff(c, s)) % Cycle(c)
             x == Sample(s.of, gap)
             seq == c.align_samples
  <2>1. HasPhy(s)
    BY <1>1, <1>4, <1>11, StampIsEpoch DEF s
  <2>2. gap \in Gaps
    BY <1>1, <1>4, <1>11, SampleIsGap DEF s
  <2>3. gap \in 0..(C - 1)
    <3>1. CounterOff(c, s) \in Int /\ PhyOff(c, s) \in Int /\ C \in Nat \ {0} /\ Cycle(c) = C
      <4>1. CounterOff(c, s) \in 0..(C - 1) /\ PhyOff(c, s) \in 0..(C - 1) /\ C \in Nat \ {0}
        BY <1>1, <1>4, OffersArePhases, WindowMeasures
      <4> QED
        BY <1>4, <4>1 DEF Cycle
    <3> HIDE DEF C
    <3>2. CounterOff(c, s) + C - PhyOff(c, s) \in Int
      BY <3>1
    <3>3. (CounterOff(c, s) + C - PhyOff(c, s)) % C \in 0..(C - 1)
      BY <3>1, <3>2
    <3> QED
      BY <3>1, <3>3
  <2>4. seq \in Seq(Phases(C)) /\ Len(seq) <= Keep
    BY <1>4 DEF IsClock, ClocksOf
  <2>5. clock'.align_samples = Push(seq, x)
    <3>1. c \in ClocksOf(mode)
      BY <1>4 DEF IsClock
    <3>2. Aligned(c, s).align_samples = Push(seq, x)
      BY <2>1, <3>1 DEF Aligned, Push, ClocksOf
    <3> QED
      BY <1>5, <3>2
  <2> HIDE DEF gap
  <2>6. x \in Phases(C) /\ x.us \in Gaps
    BY <1>1, <2>2, <2>3 DEF Sample, Phases, Frames
  <2>7. exactRun = 0 \/ LastIn(seq, exactRun, Gaps)
    <3>1. ASSUME exactRun >= 1 PROVE LastIn(seq, exactRun, Gaps)
      BY <1>4, <1>11, <3>1 DEF Settling
    <3> QED
      BY <1>7, <3>1
  <2> HIDE DEF x, seq, C
  <2>8. LastIn(Push(seq, x), exactRun + 1, Gaps)
    BY <1>7, <2>4, <2>6, <2>7, PushedLast
  <2>9. Push(seq, x) \in Seq(Phases(C))
    BY <2>4, <2>6, Pushed
  <2>10. LastIn(Push(seq, x), exactRun', Gaps)
    <3> DEFINE q == Push(seq, x)
    <3>1. Len(q) \in Nat /\ DOMAIN q = 1..Len(q)
      BY <2>9
    <3> HIDE DEF q
    <3>2. /\ exactRun + 1 <= Len(q) \/ Len(q) = Keep
          /\ \A i \in DOMAIN q : i > Len(q) - (exactRun + 1) => q[i].us \in Gaps
      BY <2>8 DEF LastIn, q
    <3>3. \A i \in DOMAIN q : i > Len(q) - exactRun' => i > Len(q) - (exactRun + 1)
      BY <1>7, <3>1
    <3>4. exactRun + 1 <= Len(q) => exactRun' <= Len(q)
      BY <1>7, <3>1
    <3> QED
      BY <3>2, <3>3, <3>4 DEF LastIn, q
  <2> QED
    BY <2>5, <2>10
<1>12. /\ (~stamps)' => ~stamps
       /\ GapIsOffTheSeam' => GapIsOffTheSeam
       /\ Gaps' = Gaps
  BY <1>2 DEF GapIsOffTheSeam, Gaps, Gap
<1> QED
  BY <1>2, <1>3, <1>9, <1>10, <1>11, <1>12 DEF Settling

LEMMA StepSettles == Inv /\ FramesAreTrue /\ Settling /\ [Next]_vars => Settling'
<1> SUFFICES ASSUME Inv, FramesAreTrue, Settling, [Next]_vars PROVE Settling'
  OBVIOUS
<1>1. CASE HearExact
  BY <1>1, ExactSettles
<1>2. ASSUME UNCHANGED <<master, clock, exactRun>> PROVE Settling'
  <2>1. /\ origin' = origin /\ tsfEpoch' = tsfEpoch /\ mode' = mode /\ stamps' = stamps
        /\ clock' = clock /\ exactRun' = exactRun
    BY <1>2 DEF master
  <2> QED
    BY <2>1 DEF Settling, Anchoring, IsAnchor, GapIsOffTheSeam, Gaps, Gap
<1>3. ASSUME exactRun' = 0, ~stamps' => clock'.align_samples = <<>> PROVE Settling'
  BY <1>3 DEF Settling
<1>4. ASSUME NEW s \in Frames, Receive(s), ~stamps => s.phy_tx_time = 0,
             stamps' = stamps, exactRun' = 0
      PROVE  Settling'
  <2>1. ASSUME ~stamps PROVE clock'.align_samples = <<>>
    <3>1. clock.align_samples = <<>>
      BY <2>1 DEF Settling
    <3>2. ~HasPhy(s)
      BY <1>4, <2>1 DEF HasPhy
    <3>3. Aligned(Ruled(clock, s), s) = Ruled(clock, s)
      BY <3>2 DEF Aligned
    <3>4. clock.presence_mode \in Nat /\ IsClock(clock, clock.presence_mode)
      BY Modes DEF Inv, Estimate
    <3>5. /\ ClockObserve(clock, s).align_samples = Aligned(Ruled(clock, s), s).align_samples
          /\ \/ Ruled(clock, s).align_samples = clock.align_samples
             \/ Ruled(clock, s).align_samples = <<>>
      BY <3>4, ObservedSamples
    <3>6. clock' = ClockObserve(clock, s)
      BY <1>4 DEF Receive
    <3> QED
      BY <3>1, <3>3, <3>5, <3>6
  <2> QED
    BY <1>3, <1>4, <2>1
<1>5. World /\ now \in Int /\ 0 \in Nat
  BY TrackingAssumption DEF Inv, World
<1>6. ASSUME NEW d \in Lateness, HearLate(d) PROVE Settling'
  <2>1. now - d \in Int
    BY <1>5, TrackingAssumption
  <2>2. Frame(now - d, now, 0) \in Frames
    BY <1>5, <2>1, FramesArrive
  <2>3. ~stamps => Frame(now - d, now, 0).phy_tx_time = 0
    BY DEF Frame, PhyAt
  <2> QED
    BY <1>4, <1>6, <2>2, <2>3 DEF HearLate, master
<1>7. ASSUME NEW k \in OddSteps, HearOdd(k) PROVE Settling'
  <2>1. Frame(now, now, k) \in Frames
    BY <1>5, FramesArrive, TrackingAssumption
  <2>2. ~stamps => Frame(now, now, k).phy_tx_time = 0
    BY DEF Frame, PhyAt
  <2> QED
    BY <1>4, <1>7, <2>1, <2>2 DEF HearOdd, master
<1>8. ASSUME NEW o \in Origins, NEW pm \in PresenceModes, Reanchor(o, pm) PROVE Settling'
  BY <1>3, <1>8 DEF Reanchor, Settling
<1>9. CASE Tick
  BY <1>2, <1>9 DEF Tick
<1>10. CASE UNCHANGED vars
  BY <1>2, <1>10 DEF vars, master
<1> QED
  BY <1>1, <1>6, <1>7, <1>8, <1>9, <1>10 DEF Next

(* Settled, the phase is the master's but for less than a time unit.       *)
LEMMA SettledIsTrue ==
  ASSUME Inv, FramesAreTrue, Settling, exactRun >= Settle, stamps => GapIsOffTheSeam
  PROVE  /\ HasPhase(clock) /\ clock.presence_mode = mode
         /\ CircularDist(PhaseUs(clock), TruePhase, Cycle(clock)) < Tolerance(clock)
<1> DEFINE C == CycleUs(mode)
           newest == NewestOf(clock.offsets).us
<1>1. /\ World /\ Estimate /\ mode \in PresenceModes /\ exactRun \in Nat
      /\ Settle >= Confirm /\ Confirm > 1 /\ Settle \in Nat /\ Confirm \in Nat
      /\ stamps => Keep \div 2 + 1 <= Settle
  <2>1. Keep \div 2 + 1 \in Nat /\ Confirm \in Nat /\ Confirm > 1
    BY ClockAssumption, TrackingAssumption
  <2>2. Settle \in Nat /\ Settle >= Confirm /\ (stamps => Keep \div 2 + 1 <= Settle)
    BY <2>1 DEF Settle
  <2> QED
    BY <2>1, <2>2 DEF Inv, World
<1>2. /\ clock.presence_mode = mode /\ clock.offsets # <<>> /\ Anchoring
      /\ stamps => LastIn(clock.align_samples, exactRun, Gaps)
      /\ ~stamps => clock.align_samples = <<>>
  BY <1>1 DEF Settling
<1>3. /\ IsClock(clock, mode) /\ clock \in ClocksOf(mode) /\ Len(clock.pending) < Confirm
      /\ Len(clock.pending) \in Nat
  <2>1. IsClock(clock, mode)
    BY <1>1, <1>2 DEF Estimate
  <2> QED
    BY <2>1 DEF IsClock, ClocksOf
<1>4. IsAnchor(newest)
  BY <1>1, <1>2, <1>3 DEF Anchoring
<1>5. /\ C \in Nat \ {0} /\ C \in Nat /\ C > 0 /\ TuUs \in Nat \ {0} /\ TuUs <= C
      /\ TuUs <= Tolerance(clock) /\ Tolerance(clock) \in Nat /\ Cycle(clock) = C
      /\ origin \in Int /\ tsfEpoch \in Int
  <2>1. /\ C \in Nat \ {0} /\ TuUs \in Nat \ {0} /\ TuUs <= C /\ TuUs <= EawUs(mode) \div 2
        /\ EawUs(mode) \in Nat
    BY <1>1, WindowMeasures
  <2>2. Cycle(clock) = C /\ Tolerance(clock) = EawUs(mode) \div 2
    BY <1>2 DEF Cycle, Tolerance, SlotUs
  <2>3. origin \in Int /\ tsfEpoch \in Int
    BY <1>1, TrackingAssumption DEF World
  <2>4. EawUs(mode) \div 2 \in Nat
    BY <2>1
  <2> HIDE DEF C
  <2>5. C \in Nat /\ C > 0
    BY <2>1
  <2> QED
    BY <2>1, <2>2, <2>3, <2>4, <2>5
<1>6. IsPhases(clock.align_samples, C) /\ Len(clock.align_samples) <= Keep
  BY <1>3 DEF IsPhases, ClocksOf, IsClock
<1> HIDE DEF C, newest
<1>7. PhaseUs(clock) = (newest + AlignDelta(clock)) % C
  BY <1>5 DEF PhaseUs, newest
<1>8. \E w \in 0..(TuUs - 1), q \in Int, x \in Int :
        x = (origin + (C * q)) - w /\ PhaseUs(clock) = x % C
  <2>1. CASE ~stamps
    <3>1. AlignDelta(clock) = 0
      BY <1>2, <2>1 DEF AlignDelta
    <3>2. PICK w \in 0..(TuUs - 1) : newest = (origin - w) % C
      BY <1>4, <2>1 DEF IsAnchor, C
    <3>3. PICK x \in Int : x = origin - w
      BY <1>5
    <3>4. x % C \in 0..(C - 1)
      BY <1>5
    <3>5. (x % C) + 0 = x % C /\ (x % C) % C = x % C
      BY <1>5, <3>4
    <3>6. PhaseUs(clock) = x % C
      BY <1>7, <3>1, <3>2, <3>3, <3>5
    <3>7. PICK q \in Int : q = 0
      OBVIOUS
    <3>8. x = (origin + (C * q)) - w
      BY <1>5, <3>3, <3>7
    <3> QED
      BY <3>6, <3>8
  <2>2. CASE stamps
    <3>1. LastIn(clock.align_samples, exactRun, Gaps)
      BY <1>2, <2>2
    <3>2. clock.align_samples # <<>>
      <4> SUFFICES ASSUME clock.align_samples = <<>> PROVE FALSE
        OBVIOUS
      <4>1. Len(clock.align_samples) = 0
        OBVIOUS
      <4>2. exactRun <= 0 \/ 0 = Keep
        BY <3>1, <4>1 DEF LastIn
      <4>3. Keep # 0
        BY ClockAssumption
      <4> QED
        BY <1>1, <4>2, <4>3
    <3>3. PICK g \in 0..(C - 1), j \in Int, p \in 0..(C - 1) :
            /\ g = Gap /\ origin + (C - p) = (C * j) + g /\ p = tsfEpoch % C
      <4>1. PICK p \in 0..(C - 1) : p = tsfEpoch % C
        BY <1>5
      <4>2. origin + (C - p) \in Int
        BY <1>5
      <4>3. PICK j \in Int, g \in 0..(C - 1) :
              origin + (C - p) = (C * j) + g /\ (origin + (C - p)) % C = g
        BY <1>5, <4>2, Remains
      <4>4. g = Gap
        BY <4>1, <4>3 DEF Gap, C
      <4> QED
        BY <4>1, <4>3, <4>4
    <3>4. AlignDelta(clock) \in (g - (TuUs - 1))..g
      <4>1. PICK lo \in Int : lo = g - (TuUs - 1)
        BY <1>5
      <4>2. g \in Int /\ Gaps = lo..g
        BY <3>3, <4>1 DEF Gaps
      <4>3. LastIn(clock.align_samples, exactRun, lo..g)
        BY <3>1, <4>2
      <4>4. Keep \div 2 + 1 <= exactRun
        <5>1. Keep \div 2 + 1 \in Int
          BY ClockAssumption
        <5> QED
          BY <1>1, <2>2, <5>1
      <4>5. UpperMedian(clock.align_samples) \in lo..g
        BY <1>1, <1>5, <1>6, <3>2, <4>2, <4>3, <4>4, MedianOfMost
      <4> QED
        BY <3>2, <4>1, <4>5 DEF AlignDelta
    <3>5. PICK w \in 0..(TuUs - 1) : AlignDelta(clock) = g - w
      <4>1. PICK d \in (g - (TuUs - 1))..g : d = AlignDelta(clock)
        BY <3>4
      <4>2. PICK w \in 0..(TuUs - 1) : w = g - d
        BY <1>5, <4>1
      <4> QED
        BY <1>5, <4>1, <4>2
    <3>6. newest = p
      BY <1>4, <2>2, <3>3 DEF IsAnchor, C
    <3>7. PICK q \in Int : q = 1 - j
      OBVIOUS
    <3>8. PICK x \in Int : x = p + (g - w)
      BY <1>5
    <3>9. x = (origin + (C * q)) - w
      <4>1. C * q = C - (C * j) /\ C * j \in Int
        BY <1>5, <3>7
      <4> QED
        BY <1>5, <3>3, <3>8, <4>1
    <3>10. PhaseUs(clock) = x % C
      BY <1>7, <3>5, <3>6, <3>8
    <3> QED
      BY <3>9, <3>10
  <2> QED
    BY <2>1, <2>2
<1>9. PICK w \in 0..(TuUs - 1), q \in Int, x \in Int :
        x = (origin + (C * q)) - w /\ PhaseUs(clock) = x % C
  BY <1>8
<1>10. CircularDist(x % C, origin % C, C) <= w
  <2>1. w \in 0..(C - 1)
    BY <1>5
  <2> QED
    BY <1>5, <1>9, <2>1, ShortOf
<1>11. CircularDist(x % C, origin % C, C) \in Int
  <2>1. x % C \in Int /\ origin % C \in Int
    BY <1>5
  <2> QED
    BY <1>5, <2>1, DistanceIsInt
<1>12. CircularDist(PhaseUs(clock), TruePhase, Cycle(clock)) < Tolerance(clock)
  <2>1. PICK d \in Int : d = CircularDist(x % C, origin % C, C) /\ d <= w
    BY <1>10, <1>11
  <2>2. d < Tolerance(clock)
    BY <1>5, <2>1
  <2> QED
    BY <1>5, <1>9, <2>1, <2>2 DEF TruePhase, C
<1> QED
  BY <1>2, <1>12 DEF HasPhase

(* After Settle exact frames in a row the clock is the master's: whatever  *)
(* was late, odd, held or re-anchored before them, waiting for the centre  *)
(* of any slot ends in that slot of the master's schedule, for every       *)
(* length of window and history, of a master whose exact frames are exact  *)
(* (follow 246-273, 413-417).                                              *)
THEOREM ClockRecovers ==
  ASSUME FramesAreTrue
  PROVE  Spec => []RecoversOnceSettled
<1>1. Init => Settling
  <2> SUFFICES ASSUME Init PROVE Settling
    OBVIOUS
  <2>1. exactRun = 0 /\ clock.align_samples = <<>>
    BY DEF Init, NewClock
  <2> QED
    BY <2>1 DEF Settling
<1>2. Inv /\ Settling /\ [Next]_vars => Settling'
  BY StepSettles
<1>3. Inv /\ Settling => RecoversOnceSettled
  <2> SUFFICES ASSUME Inv, Settling, exactRun >= Settle, stamps => GapIsOffTheSeam
               PROVE  AimsTrue
    BY DEF RecoversOnceSettled
  <2>1. /\ HasPhase(clock) /\ clock.presence_mode = mode
        /\ CircularDist(PhaseUs(clock), TruePhase, Cycle(clock)) < Tolerance(clock)
    BY SettledIsTrue
  <2> QED
    BY <2>1, CentreForgives DEF CentreForgivesHalfASlot
<1> QED
  BY <1>1, <1>2, <1>3, ClockIsKept, PTL DEF Spec
=============================================================================
