---------------------------- MODULE TransmitProofs ---------------------------
(* Proofs about Transmit, for every schedule, every burst and queue size   *)
(* and every duration.                                                     *)
EXTENDS Transmit, SequenceTheorems, TLAPS

-----------------------------------------------------------------------------
(* Sequence numbers wrap around: arithmetic modulo a variable n.           *)
LEMMA PositiveProduct ==
  ASSUME NEW x \in Nat \ {0}, NEW y \in Nat \ {0}
  PROVE  x * y \in Nat \ {0} /\ x * y >= x
<1>1. x * y = x + x * (y - 1)
  OBVIOUS
<1>2. \A p, q \in Nat : p * q \in Nat
  OBVIOUS
<1>3. x * (y - 1) \in Nat
  BY <1>2
<1> QED
  BY <1>1, <1>3

LEMMA RemainderIsUnique ==
  ASSUME NEW n \in Nat \ {0}, NEW d1 \in Int, NEW d2 \in Int,
         NEW r1 \in 0..(n - 1), NEW r2 \in 0..(n - 1), n * d1 + r1 = n * d2 + r2
  PROVE  r1 = r2
<1>1. \A a, b \in Int, r, s \in 0..(n - 1) : n * a + r = n * b + s => ~(a < b)
  <2> SUFFICES ASSUME NEW a \in Int, NEW b \in Int, NEW r \in 0..(n - 1),
                      NEW s \in 0..(n - 1), n * a + r = n * b + s, a < b
               PROVE  FALSE
    OBVIOUS
  <2>1. b - a \in Nat \ {0}
    OBVIOUS
  <2>2. n * (b - a) >= n
    BY <2>1, PositiveProduct
  <2>3. n * (b - a) = n * b - n * a
    OBVIOUS
  <2>4. \A p, q \in Int : p * q \in Int
    OBVIOUS
  <2>5. n * a \in Int /\ n * b \in Int
    BY <2>4
  <2> QED
    BY <2>2, <2>3, <2>5
<1>2. d1 = d2
  BY <1>1
<1>3. \A p, q \in Int : p * q \in Int
  OBVIOUS
<1>4. n * d1 \in Int
  BY <1>3
<1> QED
  BY <1>2, <1>4

LEMMA Division ==
  ASSUME NEW n \in Int, n > 0, NEW x \in Int
  PROVE  /\ x % n \in 0..(n - 1)
         /\ \E q \in Int : x = n * q + (x % n)
<1>1. x % n \in 0..(n - 1)
  OBVIOUS
<1>2. \E q \in Int : x = n * q + (x % n)
  OBVIOUS
<1> QED
  BY <1>1, <1>2

(* Adding after wrapping is wrapping after adding.                         *)
LEMMA WrapThenAdd ==
  ASSUME NEW n \in Int, n > 0, NEW x \in Int, NEW k \in Int
  PROVE  ((x % n) + k) % n = (x + k) % n
<1>1. PICK q \in Int : x = n * q + (x % n)
  BY Division
<1>2. (x % n) + k \in Int /\ x + k \in Int
  BY Division
<1>3. PICK p \in Int : (x % n) + k = n * p + (((x % n) + k) % n)
  BY <1>2, Division
<1>4. PICK u \in Int : x + k = n * u + ((x + k) % n)
  BY <1>2, Division
<1>5. /\ ((x % n) + k) % n \in 0..(n - 1)
      /\ (x + k) % n \in 0..(n - 1)
      /\ x % n \in 0..(n - 1)
  BY <1>2, Division
<1>6. n * (q + p) + (((x % n) + k) % n) = n * u + ((x + k) % n)
  <2>1. n * (q + p) = n * q + n * p
    OBVIOUS
  <2>2. \A a, b, c, d, e, f, g \in Int :
          x = a + e /\ e + k = b + f /\ x + k = c + g /\ d = a + b => d + f = c + g
    OBVIOUS
  <2>3. \A a, b \in Int : a * b \in Int
    OBVIOUS
  <2>4. n * q \in Int /\ n * p \in Int /\ n * u \in Int /\ n * (q + p) \in Int
    BY <2>3
  <2> QED
    BY <1>1, <1>3, <1>4, <1>5, <2>1, <2>2, <2>4
<1> DEFINE wrapped == ((x % n) + k) % n
           direct  == (x + k) % n
<1> HIDE DEF wrapped, direct
<1>7. /\ n * (q + p) + wrapped = n * u + direct
      /\ wrapped \in 0..(n - 1) /\ direct \in 0..(n - 1)
      /\ q + p \in Int
      /\ n \in Nat \ {0}
  BY <1>5, <1>6 DEF wrapped, direct
<1>8. wrapped = direct
  BY <1>7, RemainderIsUnique
<1> QED
  BY <1>8 DEF wrapped, direct

-----------------------------------------------------------------------------
(* The outbound queue: the part of the invariant that reading, sending and *)
(* putting back must preserve.                                             *)
Outbound ==
  /\ queue \in Seq(0..(SeqMod - 1)) /\ Len(queue) <= QueueMax
  /\ next_seq \in 0..(SeqMod - 1) /\ tried \in 0..(SeqMod - 1)
  /\ tun \in 0..TunMax
  /\ EachFrameOnceInOrder

LEMMA WrapIsSequenceNumber ==
  /\ SeqMod \in Int /\ SeqMod > 0
  /\ \A x \in Int : x % SeqMod \in 0..(SeqMod - 1)
<1>1. SeqMod \in Int /\ SeqMod > 0
  BY TransmitAssumption
<1> QED
  BY <1>1, Division

LEMMA Bounds ==
  /\ QueueMax \in Nat /\ TunMax \in Nat
  /\ Outbound => Len(queue) \in Nat /\ tried \in Nat /\ next_seq \in Nat /\ tun \in Nat
<1>1. QueueMax \in Nat /\ TunMax \in Nat /\ SeqMod \in Nat
  BY TransmitAssumption
<1> QED
  BY <1>1 DEF Outbound

(* What is read from the kernel follows what is queued.                    *)
LEMMA ReadingKeepsOrder ==
  ASSUME Outbound, EnqueueFromTun, UNCHANGED tried
  PROVE  Outbound'
<1>1. PICK read \in 0..tun, kept \in 0..tun :
        /\ kept <= read /\ kept <= Room
        /\ queue' = queue \o [i \in 1..kept |-> (next_seq + i - 1) % SeqMod]
        /\ next_seq' = (next_seq + kept) % SeqMod
        /\ tun' = tun - read
  BY DEF EnqueueFromTun
<1> DEFINE more == [i \in 1..kept |-> (next_seq + i - 1) % SeqMod]
<1>2. /\ queue \in Seq(0..(SeqMod - 1)) /\ Len(queue) <= QueueMax
      /\ next_seq \in 0..(SeqMod - 1) /\ tried \in 0..(SeqMod - 1)
      /\ tun \in 0..TunMax
      /\ \A i \in DOMAIN queue : queue[i] = (tried + i) % SeqMod
      /\ next_seq = (tried + Len(queue) + 1) % SeqMod
  BY DEF Outbound, EachFrameOnceInOrder
<1>3. /\ SeqMod \in Int /\ SeqMod > 0 /\ QueueMax \in Nat /\ TunMax \in Nat
      /\ Len(queue) \in Nat /\ tried \in Nat /\ next_seq \in Nat /\ tun \in Nat
  BY WrapIsSequenceNumber, Bounds
<1>a. kept \in Nat /\ read \in Nat
  BY <1>3
<1>4. /\ more \in Seq(0..(SeqMod - 1))
      /\ Len(more) = kept
  <2>1. \A i \in 1..kept : next_seq + i - 1 \in Int
    BY <1>3, <1>a
  <2>2. \A i \in 1..kept : (next_seq + i - 1) % SeqMod \in 0..(SeqMod - 1)
    BY <2>1, WrapIsSequenceNumber
  <2> QED
    BY <1>a, <2>2
<1>5. \A k \in Nat : (next_seq + k) % SeqMod = (tried + Len(queue) + 1 + k) % SeqMod
  <2>1. TAKE k \in Nat
  <2>2. tried + Len(queue) + 1 \in Int /\ k \in Int
    BY <1>3
  <2> QED
    BY <1>2, <1>3, <2>2, WrapThenAdd
<1> HIDE DEF more
<1>6. /\ queue' = queue \o more
      /\ queue' \in Seq(0..(SeqMod - 1))
      /\ Len(queue') = Len(queue) + kept
      /\ \A i \in 1..Len(queue) : queue'[i] = queue[i]
      /\ \A i \in (Len(queue) + 1)..(Len(queue) + kept) : queue'[i] = more[i - Len(queue)]
  BY <1>1, <1>2, <1>4 DEF more
<1>7. Len(queue') <= QueueMax
  BY <1>1, <1>3, <1>a, <1>6 DEF Room
<1>8. \A i \in DOMAIN queue' : queue'[i] = (tried + i) % SeqMod
  <2>1. TAKE i \in DOMAIN queue'
  <2>2. CASE i \in 1..Len(queue)
    BY <1>2, <1>6, <2>2
  <2>3. CASE i \in (Len(queue) + 1)..(Len(queue) + kept)
    <3> DEFINE k == i - Len(queue) - 1
    <3>1. /\ k \in Nat /\ k + 1 \in 1..kept /\ i - Len(queue) = k + 1
          /\ next_seq + (k + 1) - 1 = next_seq + k
          /\ tried + Len(queue) + 1 + k = tried + i
      BY <1>3, <1>a, <2>3
    <3> HIDE DEF k
    <3>2. more[k + 1] = (next_seq + (k + 1) - 1) % SeqMod
      BY <3>1 DEF more
    <3> QED
      BY <1>5, <1>6, <2>3, <3>1, <3>2
  <2> QED
    BY <1>3, <1>a, <1>6, <2>2, <2>3
<1>9. next_seq' = (tried + Len(queue') + 1) % SeqMod
  <2>1. tried + Len(queue) + 1 + kept = tried + Len(queue') + 1
    BY <1>3, <1>a, <1>6
  <2> QED
    BY <1>1, <1>a, <1>5, <2>1
<1>10. next_seq' \in 0..(SeqMod - 1)
  <2>1. next_seq + kept \in Int
    BY <1>3, <1>a
  <2> QED
    BY <1>1, <2>1, WrapIsSequenceNumber
<1>11. tun' \in 0..TunMax
  BY <1>1, <1>2, <1>3, <1>a
<1> QED
  BY <1>2, <1>6, <1>7, <1>8, <1>9, <1>10, <1>11 DEF Outbound, EachFrameOnceInOrder

(* Sending takes the head and the order goes on from there.                *)
LEMMA SendingKeepsOrder ==
  ASSUME Outbound, SendFrame
  PROVE  Outbound'
<1>1. /\ queue # <<>>
      /\ tried' = Head(queue) /\ queue' = Tail(queue)
      /\ next_seq' = next_seq /\ tun' = tun
  BY DEF SendFrame, Bursting
<1>2. /\ queue \in Seq(0..(SeqMod - 1)) /\ Len(queue) <= QueueMax
      /\ tried \in 0..(SeqMod - 1)
      /\ \A i \in DOMAIN queue : queue[i] = (tried + i) % SeqMod
      /\ next_seq = (tried + Len(queue) + 1) % SeqMod
  BY DEF Outbound, EachFrameOnceInOrder
<1>3. /\ SeqMod \in Int /\ SeqMod > 0 /\ QueueMax \in Nat
      /\ Len(queue) \in Nat /\ tried \in Nat
  BY <1>2, TransmitAssumption
<1>4. /\ Len(queue) > 0
      /\ tried' = queue[1]
      /\ queue' \in Seq(0..(SeqMod - 1))
      /\ Len(queue') = Len(queue) - 1
      /\ \A i \in DOMAIN queue' : queue'[i] = queue[i + 1] /\ i \in 1..(Len(queue) - 1)
  BY <1>1, <1>2
<1>5. /\ tried' = (tried + 1) % SeqMod
      /\ tried' \in 0..(SeqMod - 1)
  <2>1. 1 \in DOMAIN queue
    BY <1>2, <1>4
  <2>2. tried + 1 \in Int
    BY <1>3
  <2> QED
    BY <1>2, <1>4, <2>1, <2>2, WrapIsSequenceNumber
<1>6. \A k \in Nat : (tried' + k) % SeqMod = (tried + 1 + k) % SeqMod
  <2>1. TAKE k \in Nat
  <2>2. tried + 1 \in Int /\ k \in Int
    BY <1>3
  <2> QED
    BY <1>3, <1>5, <2>2, WrapThenAdd
<1>7. \A i \in DOMAIN queue' : queue'[i] = (tried' + i) % SeqMod
  <2>1. TAKE i \in DOMAIN queue'
  <2>a. i \in 1..(Len(queue) - 1) /\ DOMAIN queue = 1..Len(queue)
    BY <1>2, <1>4, <2>1
  <2>2. i + 1 \in DOMAIN queue /\ i \in Nat /\ tried + (i + 1) = tried + 1 + i
    BY <1>3, <2>a
  <2>3. queue'[i] = (tried + (i + 1)) % SeqMod
    BY <1>2, <1>4, <2>2
  <2> QED
    BY <1>6, <2>2, <2>3
<1>8. next_seq' = (tried' + Len(queue') + 1) % SeqMod
  <2>1. /\ Len(queue) \in Nat
        /\ tried + 1 + Len(queue) = tried + Len(queue) + 1
        /\ tried' + Len(queue) = tried' + Len(queue') + 1
    BY <1>3, <1>4, <1>5
  <2> QED
    BY <1>1, <1>2, <1>6, <2>1
<1> QED
  BY <1>1, <1>2, <1>3, <1>4, <1>5, <1>7, <1>8 DEF Outbound, EachFrameOnceInOrder

(* Putting the head back leaves the queue as it was.                       *)
LEMMA PuttingBackKeepsOrder ==
  ASSUME Outbound, HoldFrame
  PROVE  Outbound'
<1>1. queue \in Seq(0..(SeqMod - 1)) /\ queue # <<>>
  BY DEF Outbound, HoldFrame, Bursting
<1>2. <<Head(queue)>> \o Tail(queue) = queue
  BY <1>1
<1>3. UNCHANGED <<queue, next_seq, tun, tried>>
  BY <1>2 DEF HoldFrame, PutBack
<1> QED
  BY <1>3 DEF Outbound, EachFrameOnceInOrder

LEMMA OutboundAtFirst == Init => Outbound
<1> SUFFICES ASSUME Init PROVE Outbound
  OBVIOUS
<1>1. /\ SeqMod \in Int /\ SeqMod > 0 /\ QueueMax \in Nat /\ TunMax \in Nat
  BY TransmitAssumption
<1>2. /\ queue = <<>> /\ next_seq = 0 /\ tun = 0 /\ tried = SeqMod - 1
  BY DEF Init
<1>3. SeqMod % SeqMod = 0
  <2>1. PICK q \in Int : SeqMod = SeqMod * q + (SeqMod % SeqMod)
    BY <1>1, Division
  <2>2. SeqMod * 1 + 0 = SeqMod * q + (SeqMod % SeqMod)
    BY <1>1, <2>1
  <2>3. SeqMod % SeqMod \in 0..(SeqMod - 1) /\ 0 \in 0..(SeqMod - 1)
    BY <1>1, Division
  <2>4. SeqMod \in Nat \ {0} /\ 1 \in Int
    BY <1>1
  <2> QED
    BY <2>2, <2>3, <2>4, RemainderIsUnique
<1>4. next_seq = (tried + Len(queue) + 1) % SeqMod
  <2>1. tried + Len(queue) + 1 = SeqMod
    BY <1>1, <1>2
  <2> QED
    BY <1>2, <1>3, <2>1
<1> QED
  BY <1>1, <1>2, <1>4 DEF Outbound, EachFrameOnceInOrder

LEMMA OutboundIsKept == Outbound /\ [Next]_vars => Outbound'
<1> SUFFICES ASSUME Outbound, [Next]_vars
             PROVE  Outbound'
  OBVIOUS
<1>1. CASE UNCHANGED <<out, tried>>
  BY <1>1 DEF out, Outbound, EachFrameOnceInOrder
<1>2. CASE Offer
  <2>1. tun \in Nat /\ TunMax \in Nat /\ tun < TunMax /\ tun' = tun + 1
    BY <1>2, Bounds DEF Offer
  <2>2. tun' \in 0..TunMax
    BY <2>1
  <2> QED
    BY <1>2, <2>2 DEF Offer, Outbound, EachFrameOnceInOrder
<1>3. CASE EnqueueFromTun /\ UNCHANGED tried
  BY <1>3, ReadingKeepsOrder
<1>4. CASE SendFrame
  BY <1>4, SendingKeepsOrder
<1>5. CASE HoldFrame
  BY <1>5, PuttingBackKeepsOrder
<1>6. \/ UNCHANGED <<out, tried>>
      \/ Offer \/ SendFrame \/ HoldFrame
      \/ EnqueueFromTun /\ UNCHANGED tried
  BY DEF Next, Step, vars, out, Listen, StartAckRound, EndAckRound, React, DoNotReact,
         EndReactive, WaitForWindow, HoldForGap, HoldForCluster, SendBeacon, EndVisit,
         Drained
<1> QED
  BY <1>1, <1>2, <1>3, <1>4, <1>5, <1>6

(* Every frame leaves once and in the order it was read from the kernel,   *)
(* for every queue limit, burst size and wrap-around, and however windows  *)
(* shut.  (session 682-688, 847-852, 1100-1105)                            *)
THEOREM FramesLeaveOnceInOrder == Spec => []EachFrameOnceInOrder
<1>1. Spec => []Outbound
  BY OutboundAtFirst, OutboundIsKept, PTL DEF Spec
<1>2. Outbound => EachFrameOnceInOrder
  BY DEF Outbound
<1> QED
  BY <1>1, <1>2, PTL

-----------------------------------------------------------------------------
(* Since the last beacon at least as much time has passed as since         *)
(* last_tx_us, as far as a gap is concerned, and at first more than any.   *)
Apart(a) == UpTo(a.tx, LongestGap) <= a.beacon
Spaced ==
  drain.path = "scheduled" \/ (Apart(age) /\ (~beaconed => age.beacon = LongestGap))

Timing ==
  /\ cfg \in Modes /\ view \in Views
  /\ pos \in 0..(Cycle - 1) /\ own \in 0..(Cycle - 1)
  /\ age \in Ages
  /\ lag \in 0..MaxLag

Control ==
  /\ pc \in {"listen", "ack", "react", "wait", "drain"}
  /\ heard \in BOOLEAN /\ beaconed \in BOOLEAN
  /\ drain \in Bursts
  /\ pc # "drain" => drain.path = "none"
  /\ rounds \in 0..AckLoops
  /\ pc = "ack" => rounds < AckLoops
  /\ pc \in {"listen", "react", "wait"} => rounds = 0
  /\ drain.path \in {"reactive", "scheduled"} => rounds = 0
  /\ drain.again => rounds < AckLoops
  /\ spent \in 0..Allowance /\ useful \in 0..spent

Schedule == Timing /\ Control /\ Spaced

LEMMA Durations ==
  /\ {Nap, LockNap, PsfNap, PerWindow, DataRepeat, AckRepeat, AckLoops} \subseteq Nat \ {0}
  /\ {BeaconGap, SlotGap, Liveness, PeerAwake, Throttle, Second, Allowance, MaxLag,
      SmallBurst} \subseteq Nat
  /\ LongestGap \in Nat
  /\ Larger(Liveness, LongestGap) \in Nat
  /\ LongestGap <= Larger(Liveness, LongestGap)
  /\ BeaconGap <= LongestGap
<1>1. /\ {Nap, LockNap, PsfNap, PerWindow, DataRepeat, AckRepeat, AckLoops}
            \subseteq Nat \ {0}
      /\ {BeaconGap, SlotGap, Liveness, PeerAwake, Throttle, Second, Allowance, MaxLag,
          SmallBurst} \subseteq Nat
  BY TransmitAssumption
<1>2. LongestGap \in Nat /\ BeaconGap <= LongestGap
  BY <1>1 DEF LongestGap, Larger
<1>3. /\ Larger(Liveness, LongestGap) \in Nat
      /\ LongestGap <= Larger(Liveness, LongestGap)
  BY <1>1, <1>2 DEF Larger
<1> QED
  BY <1>1, <1>2, <1>3

LEMMA TurnsStayInTheCycle ==
  ASSUME NEW p \in Int, NEW n \in Int
  PROVE  Turn(p, n) \in 0..(Cycle - 1)
<1>1. Slots \in Nat \ {0} /\ SlotTicks \in Nat \ {0}
  BY TransmitAssumption
<1>2. Cycle \in Int /\ Cycle > 0
  BY <1>1, PositiveProduct DEF Cycle
<1>3. p + n \in Int
  OBVIOUS
<1> QED
  BY <1>2, <1>3, Division DEF Turn

(* Time keeps ages in their range and beacons apart.                       *)
LEMMA AgesPass ==
  ASSUME NEW a \in Ages, NEW n \in Nat
  PROVE  /\ Older(a, n) \in Ages
         /\ Apart(a) => Apart(Older(a, n))
         /\ a.beacon = LongestGap => Older(a, n).beacon = LongestGap
<1> DEFINE top == Larger(Liveness, LongestGap)
<1>1. /\ a.tx \in 0..top /\ a.reactive \in 0..Throttle /\ a.rx \in 0..PeerAwake
      /\ a.budget \in 0..Second /\ a.beacon \in 0..LongestGap
  BY DEF Ages
<1>2. /\ top \in Nat /\ LongestGap \in Nat /\ LongestGap <= top
      /\ Throttle \in Nat /\ PeerAwake \in Nat /\ Second \in Nat
  BY Durations
<1> HIDE DEF top
<1>3. \A bound \in Nat : \A x \in 0..bound : UpTo(x + n, bound) \in 0..bound
  BY DEF UpTo
<1>4. Older(a, n) \in Ages
  BY <1>1, <1>2, <1>3 DEF Older, Ages, top
<1>5. Older(a, n).tx = UpTo(a.tx + n, top) /\ Older(a, n).beacon = UpTo(a.beacon + n, LongestGap)
  BY DEF Older, top
<1>6. Apart(a) => Apart(Older(a, n))
  BY <1>1, <1>2, <1>5 DEF Apart, UpTo
<1>7. a.beacon = LongestGap => Older(a, n).beacon = LongestGap
  BY <1>2, <1>5 DEF UpTo
<1> QED
  BY <1>4, <1>6, <1>7

(* What a step of the clock does, asleep or transmitting.                  *)
LEMMA TimePasses ==
  ASSUME Timing, NEW a \in Ages, TakesTime(a)
  PROVE  /\ pos' \in 0..(Cycle - 1) /\ own' \in 0..(Cycle - 1)
         /\ lag' \in 0..MaxLag
         /\ age' \in Ages
         /\ Apart(a) => Apart(age')
         /\ a.beacon = LongestGap => age'.beacon = LongestGap
<1>1. PICK n \in 0..1 :
        /\ lag + n <= MaxLag /\ lag' = lag + n
        /\ pos' = Turn(pos, n) /\ own' = Turn(own, n)
        /\ age' = Older(a, n)
  BY DEF TakesTime
<1>2. pos \in Int /\ own \in Int /\ lag \in Nat /\ n \in Nat /\ n \in Int /\ MaxLag \in Nat
  <2>1. Cycle \in Int
    BY TransmitAssumption, PositiveProduct DEF Cycle
  <2> QED
    BY <2>1, Durations DEF Timing
<1>3. lag' \in 0..MaxLag
  BY <1>1, <1>2
<1> QED
  BY <1>1, <1>2, <1>3, AgesPass, TurnsStayInTheCycle

LEMMA TimeElapses ==
  ASSUME Timing, NEW a \in Ages, NEW n \in Nat, age' = Older(a, n),
         pos' = Turn(pos, n), own' = Turn(own, n)
  PROVE  /\ pos' \in 0..(Cycle - 1) /\ own' \in 0..(Cycle - 1)
         /\ age' \in Ages
         /\ Apart(a) => Apart(age')
         /\ a.beacon = LongestGap => age'.beacon = LongestGap
<1>1. Cycle \in Int
  BY TransmitAssumption, PositiveProduct DEF Cycle
<1>2. pos \in Int /\ own \in Int /\ n \in Int
  BY <1>1 DEF Timing
<1> QED
  BY <1>2, AgesPass, TurnsStayInTheCycle

(* Asking for the repeat budget.                                           *)
LEMMA AskingIsBounded ==
  ASSUME Timing, Control, NEW frames \in Nat
  PROVE  /\ AskBudget(frames).spent \in 0..Allowance
         /\ AskBudget(frames).useful \in 0..AskBudget(frames).spent
         /\ AskBudget(frames).since \in 0..Second
         /\ AskBudget(frames).grant \in BOOLEAN
<1>1. /\ Allowance \in Nat /\ Second \in Nat /\ SmallBurst \in Nat
      /\ spent \in 0..Allowance /\ useful \in 0..spent /\ age.budget \in 0..Second
  BY Durations DEF Timing, Control, Ages
<1>2. CASE frames <= SmallBurst
  <2>1. PICK already \in {0, spent}, served \in {0, useful}, since \in {0, age.budget} :
          /\ served <= already
          /\ Take(frames) =
               [grant |-> already < Allowance,
                spent |-> IF already < Allowance THEN already + 1 ELSE already,
                useful |-> IF already < Allowance /\ frames > 0 THEN served + 1 ELSE served,
                since |-> since]
    <3>1. CASE age.budget >= Second
      BY <1>1, <3>1 DEF Take
    <3>2. CASE ~(age.budget >= Second)
      BY <1>1, <3>2 DEF Take
    <3> QED
      BY <3>1, <3>2
  <2> DEFINE granted == already < Allowance
             sp == IF already < Allowance THEN already + 1 ELSE already
             us == IF already < Allowance /\ frames > 0 THEN served + 1 ELSE served
  <2>2. already \in 0..Allowance /\ served \in 0..already /\ since \in 0..Second
    BY <1>1, <2>1
  <2>3. sp \in 0..Allowance /\ us \in 0..sp /\ granted \in BOOLEAN
    BY <1>1, <2>2
  <2>4. AskBudget(frames) =
          [grant |-> granted, spent |-> sp, useful |-> us, since |-> since]
    BY <1>2, <2>1 DEF AskBudget
  <2> HIDE DEF granted, sp, us
  <2> QED
    BY <2>2, <2>3, <2>4
<1>3. CASE ~(frames <= SmallBurst)
  BY <1>1, <1>3 DEF AskBudget
<1> QED
  BY <1>2, <1>3

LEMMA PerVisitIsCount ==
  ASSUME NEW reps \in Nat \ {0}
  PROVE  PerVisit(reps) \in Nat
<1>1. PerWindow \in Int /\ reps \in Int /\ reps > 0
  BY Durations
<1>2. PerWindow \div reps \in Int
  BY <1>1
<1> QED
  BY <1>2 DEF PerVisit, Larger

LEMMA BurstsAreBursts ==
  ASSUME NEW path \in {"none", "ack", "reactive", "scheduled"}, NEW left \in Nat,
         NEW again \in BOOLEAN, NEW denied \in BOOLEAN
  PROVE  /\ Burst(path, left, again, denied) \in Bursts
         /\ Burst(path, left, again, denied).path = path
         /\ Burst(path, left, again, denied).again = again
  BY DEF Burst, Bursts

LEMMA ScheduleAtFirst == Init => Schedule
<1> SUFFICES ASSUME Init PROVE Schedule
  OBVIOUS
<1>1. /\ Phases \subseteq 0..(Cycle - 1) /\ Unheard \in Views
      /\ Slots \in Nat \ {0} /\ SlotTicks \in Nat \ {0}
  BY TransmitAssumption
<1>2. Cycle \in Int /\ Cycle > 0
  BY <1>1, PositiveProduct DEF Cycle
<1>3. age = [tx |-> 0, reactive |-> 0, rx |-> 0, budget |-> 0, beacon |-> LongestGap]
  BY DEF Init
<1>4. age \in Ages /\ Apart(age) /\ age.beacon = LongestGap
  BY <1>3, Durations DEF Ages, Apart, UpTo
<1>5. Timing
  BY <1>1, <1>2, <1>4, Durations DEF Init, Timing
<1>6. drain \in Bursts /\ drain.path = "none" /\ drain.again = FALSE
  BY DEF Init, NoBurst, Bursts
<1>7. Control
  <2>1. rounds = 0 /\ spent = 0 /\ useful = 0
    BY DEF Init
  <2>2. 0 \in 0..AckLoops /\ 0 < AckLoops /\ 0 \in 0..Allowance /\ 0 \in 0..0
    BY Durations
  <2>3. spent \in 0..Allowance /\ useful \in 0..spent
    BY <2>1, <2>2
  <2> QED
    BY <1>6, <2>1, <2>2, <2>3, Zenon DEF Init, Control
<1> QED
  BY <1>4, <1>5, <1>7 DEF Schedule, Spaced

(* Where the loop is not draining, the beacons are apart.                  *)
LEMMA ApartWhenNotDraining ==
  ASSUME Control, Spaced, pc # "drain"
  PROVE  /\ drain.path = "none" /\ Apart(age)
         /\ ~beaconed => age.beacon = LongestGap
  BY DEF Control, Spaced

LEMMA ListenKeepsSchedule ==
  ASSUME Schedule, Listen
  PROVE  Schedule'
<1>1. Timing /\ Control /\ Spaced /\ pc = "listen"
  BY DEF Schedule, Listen
<1>2. drain.path = "none" /\ Apart(age) /\ (~beaconed => age.beacon = LongestGap)
  BY <1>1, ApartWhenNotDraining
<1>3. /\ age' \in Ages /\ age'.tx = age.tx /\ age'.beacon = age.beacon
  BY <1>1, Durations DEF Listen, Timing, Ages
<1>4. view' \in Views /\ pos' \in 0..(Cycle - 1) /\ cfg' = cfg
  <2>1. CASE NoNews
    BY <1>1, <2>1 DEF NoNews, air, Timing
  <2>2. CASE News
    <3>1. Phases \subseteq Int /\ own \in Int
      <4>1. Phases \subseteq 0..(Cycle - 1)
        BY TransmitAssumption
      <4>2. Cycle \in Int
        BY TransmitAssumption, PositiveProduct DEF Cycle
      <4> QED
        BY <1>1, <4>1, <4>2 DEF Timing
    <3>2. PICK p \in Phases : pos' = Turn(own, p)
      BY <2>2 DEF News
    <3>3. Turn(own, p) \in 0..(Cycle - 1)
      BY <3>1, TurnsStayInTheCycle
    <3> QED
      BY <2>2, <3>2, <3>3 DEF News
  <2> QED
    BY <2>1, <2>2 DEF Listen
<1>5. Timing'
  BY <1>1, <1>3, <1>4 DEF Listen, Timing
<1>6. Control'
  BY <1>1, Durations DEF Listen, Control, budget
<1>7. Spaced'
  BY <1>2, <1>3 DEF Spaced, Apart, Listen
<1> QED
  BY <1>5, <1>6, <1>7 DEF Schedule

(* Steps that leave the clock, the environment and the budget alone.       *)
Still == UNCHANGED <<air, clocks, budget, lag>>

LEMMA StillKeepsTiming ==
  ASSUME Timing, Still
  PROVE  Timing'
  BY DEF Timing, Still, air, clocks

(* A nap after which the loop listens again.                               *)
LEMMA NapKeepsSchedule ==
  ASSUME Schedule, pc = "wait", Sleep(Nap),
         UNCHANGED <<air, heard, beaconed, budget, drain, rounds>>
  PROVE  Schedule'
<1>1. Timing /\ Control /\ Spaced
  BY DEF Schedule
<1>2. drain.path = "none" /\ Apart(age) /\ (~beaconed => age.beacon = LongestGap)
  BY <1>1, ApartWhenNotDraining
<1>3. Nap \in Nat /\ age \in Ages
  BY <1>1, Durations DEF Timing
<1>4. /\ age' = Older(age, Nap) /\ pos' = Turn(pos, Nap) /\ own' = Turn(own, Nap)
      /\ pc' = "listen" /\ lag' = 0
  BY DEF Sleep, Elapse
<1>5. /\ pos' \in 0..(Cycle - 1) /\ own' \in 0..(Cycle - 1) /\ age' \in Ages
      /\ Apart(age) => Apart(age')
      /\ age.beacon = LongestGap => age'.beacon = LongestGap
  BY <1>1, <1>3, <1>4, TimeElapses
<1>6. Timing'
  BY <1>1, <1>4, <1>5, Durations DEF Timing, air
<1>7. Control'
  BY <1>1, <1>4 DEF Control, budget
<1>8. Spaced'
  BY <1>2, <1>5 DEF Spaced, Apart
<1> QED
  BY <1>6, <1>7, <1>8 DEF Schedule

LEMMA DoNotReactKeepsSchedule ==
  ASSUME Schedule, DoNotReact
  PROVE  Schedule'
<1>1. Timing /\ Control /\ Spaced /\ Still
  BY DEF Schedule, DoNotReact, Still
<1>2. Timing'
  BY <1>1, StillKeepsTiming
<1>3. Control'
  BY <1>1 DEF DoNotReact, Control, budget
<1>4. Spaced'
  BY <1>1, ApartWhenNotDraining DEF DoNotReact, Spaced, Apart, clocks
<1> QED
  BY <1>2, <1>3, <1>4 DEF Schedule

LEMMA OfferKeepsSchedule ==
  ASSUME Schedule, UNCHANGED <<air, pc, clocks, heard, beaconed, budget, drain, rounds, lag>>
  PROVE  Schedule'
  BY DEF Schedule, Timing, Control, Spaced, Apart, air, clocks, budget

(* Steps within a burst keep its path and whether a round follows.         *)
LEMMA ShorterBurstKeepsControl ==
  ASSUME Control, pc = "drain", NEW left \in Nat, drain' = [drain EXCEPT !.left = left],
         UNCHANGED <<pc, heard, beaconed, budget, rounds>>
  PROVE  Control' /\ drain'.path = drain.path
<1>1. drain' \in Bursts /\ drain'.path = drain.path /\ drain'.again = drain.again
  BY DEF Control, Bursts
<1> QED
  BY <1>1 DEF Control, budget

LEMMA HoldFrameKeepsSchedule ==
  ASSUME Schedule, HoldFrame
  PROVE  Schedule'
<1>1. Timing /\ Control /\ Spaced /\ Still /\ pc = "drain"
  BY DEF Schedule, HoldFrame, Still, Bursting
<1>2. Timing'
  BY <1>1, StillKeepsTiming
<1>3. Control' /\ drain'.path = drain.path
  BY <1>1, ShorterBurstKeepsControl DEF HoldFrame
<1>4. Spaced'
  BY <1>1, <1>3 DEF HoldFrame, Spaced, Apart, clocks
<1> QED
  BY <1>2, <1>3, <1>4 DEF Schedule

LEMMA SendFrameKeepsSchedule ==
  ASSUME Schedule, SendFrame
  PROVE  Schedule'
<1>1. Timing /\ Control /\ Spaced /\ pc = "drain" /\ drain \in Bursts /\ age \in Ages
  BY DEF Schedule, SendFrame, Bursting, Control, Timing
<1>2. drain.left - 1 \in Nat
  BY <1>1 DEF SendFrame, Bursting, Bursts
<1>3. Control' /\ drain'.path = drain.path
  BY <1>1, <1>2, ShorterBurstKeepsControl DEF SendFrame
<1>4. /\ pos' \in 0..(Cycle - 1) /\ own' \in 0..(Cycle - 1) /\ lag' \in 0..MaxLag
      /\ age' \in Ages
      /\ Apart(age) => Apart(age')
      /\ age.beacon = LongestGap => age'.beacon = LongestGap
  BY <1>1, TimePasses DEF SendFrame
<1>5. Timing'
  BY <1>1, <1>4 DEF Timing, SendFrame, air
<1>6. Spaced'
  BY <1>1, <1>3, <1>4 DEF SendFrame, Spaced, Apart
<1> QED
  BY <1>3, <1>5, <1>6 DEF Schedule

(* What follows a burst: another round, the reactive block, the wait.      *)
LEMMA EndOfBurst ==
  ASSUME Control, drain' = NoBurst, pc' \in {"listen", "ack", "react", "wait"},
         UNCHANGED <<heard, budget>>, beaconed' \in BOOLEAN,
         rounds' \in 0..AckLoops, IF pc' = "ack" THEN rounds' < AckLoops ELSE rounds' = 0
  PROVE  Control' /\ drain'.path = "none"
<1>1. drain' \in Bursts /\ drain'.path = "none" /\ ~drain'.again
  BY DEF NoBurst, Bursts
<1> QED
  BY <1>1, Zenon DEF Control, budget

LEMMA EndAckRoundKeepsSchedule ==
  ASSUME Schedule, EndAckRound
  PROVE  Schedule'
<1>1. Timing /\ Control /\ Spaced /\ Still /\ drain.path = "ack"
  BY DEF Schedule, EndAckRound, Drained, Still
<1>2. Timing'
  BY <1>1, StillKeepsTiming
<1>3. /\ drain' = NoBurst /\ UNCHANGED <<heard, budget, beaconed>> /\ beaconed \in BOOLEAN
      /\ pc' \in {"listen", "ack", "react", "wait"}
  BY <1>1 DEF EndAckRound, Drained, Control
<1>4. rounds' \in 0..AckLoops /\ IF pc' = "ack" THEN rounds' < AckLoops ELSE rounds' = 0
  <2>1. CASE drain.again
    BY <1>1, <2>1 DEF EndAckRound, Control
  <2>2. CASE ~drain.again
    BY <1>1, <2>2, Durations DEF EndAckRound
  <2> QED
    BY <2>1, <2>2
<1>5. Control' /\ drain'.path = "none"
  BY <1>1, <1>3, <1>4, EndOfBurst
<1>6. Spaced'
  BY <1>1, <1>3 DEF EndAckRound, Spaced, Apart, clocks
<1> QED
  BY <1>2, <1>5, <1>6 DEF Schedule

LEMMA EndReactiveKeepsSchedule ==
  ASSUME Schedule, EndReactive
  PROVE  Schedule'
<1>1. Timing /\ Control /\ Spaced /\ Still /\ drain.path = "reactive"
  BY DEF Schedule, EndReactive, Drained, Still
<1>2. Timing'
  BY <1>1, StillKeepsTiming
<1>3. /\ drain' = NoBurst /\ UNCHANGED <<heard, budget, beaconed>> /\ beaconed \in BOOLEAN
      /\ pc' = "wait" /\ rounds' = 0 /\ 0 \in 0..AckLoops
  BY <1>1, Durations DEF EndReactive, Drained, Control
<1>4. Control' /\ drain'.path = "none"
  BY <1>1, <1>3, EndOfBurst
<1>5. Spaced'
  BY <1>1, <1>3 DEF EndReactive, Spaced, Apart, clocks
<1> QED
  BY <1>2, <1>4, <1>5 DEF Schedule

(* last_tx_us starts again, and no beacon is younger than that.            *)
LEMMA EndVisitKeepsSchedule ==
  ASSUME Schedule, EndVisit
  PROVE  Schedule'
<1> DEFINE nap == IF cfg.lock THEN LockNap ELSE PsfNap
           sent == [age EXCEPT !.tx = 0]
<1>1. Timing /\ Control /\ Spaced /\ drain.path = "scheduled" /\ age \in Ages
  BY DEF Schedule, EndVisit, Drained, Timing
<1>2. nap \in Nat
  BY Durations
<1>3. sent \in Ages /\ Apart(sent)
  BY <1>1, Durations DEF Ages, Apart, UpTo
<1>4. age' = Older(sent, nap) /\ pos' = Turn(pos, nap) /\ own' = Turn(own, nap)
  BY DEF EndVisit
<1> HIDE DEF nap, sent
<1>5. /\ pos' \in 0..(Cycle - 1) /\ own' \in 0..(Cycle - 1) /\ age' \in Ages
      /\ Apart(sent) => Apart(age')
  BY <1>1, <1>2, <1>3, <1>4, TimeElapses
<1>6. Timing'
  BY <1>1, <1>5, Durations DEF EndVisit, Drained, Timing, air
<1>7. /\ drain' = NoBurst /\ UNCHANGED <<heard, budget>> /\ beaconed' = TRUE
      /\ pc' = "listen" /\ rounds' = 0 /\ 0 \in 0..AckLoops
  BY <1>1, Durations DEF EndVisit, Drained, Control
<1>8. Control' /\ drain'.path = "none"
  BY <1>1, <1>7, EndOfBurst
<1>9. Spaced'
  BY <1>3, <1>5, <1>7 DEF Spaced, Apart
<1> QED
  BY <1>6, <1>8, <1>9 DEF Schedule

(* The start of a burst.                                                   *)
LEMMA StartOfBurst ==
  ASSUME Control, pc' = "drain",
         NEW path \in {"ack", "reactive", "scheduled"}, NEW left \in Nat,
         NEW again \in BOOLEAN, NEW denied \in BOOLEAN,
         drain' = Burst(path, left, again, denied),
         heard' \in BOOLEAN, beaconed' \in BOOLEAN,
         spent' \in 0..Allowance, useful' \in 0..spent',
         rounds' \in 0..AckLoops, path # "ack" => rounds' = 0,
         again => rounds' < AckLoops
  PROVE  Control' /\ drain'.path = path
<1>1. drain' \in Bursts /\ drain'.path = path /\ drain'.again = again
  BY BurstsAreBursts
<1>2. /\ pc' \in {"listen", "ack", "react", "wait", "drain"}
      /\ pc' \notin {"listen", "ack", "react", "wait"}
  OBVIOUS
<1>3. drain'.path \in {"reactive", "scheduled"} => rounds' = 0
  BY <1>1
<1>4. drain'.again => rounds' < AckLoops
  BY <1>1, Zenon
<1> QED
  BY <1>1, <1>2, <1>3, <1>4, Zenon DEF Control

LEMMA StartAckRoundKeepsSchedule ==
  ASSUME Schedule, Outbound, StartAckRound
  PROVE  Schedule'
<1> DEFINE frames == Len(queue')
           ask == AskBudget(frames)
           again == frames > Len(queue) /\ rounds + 1 < AckLoops
<1>1. Timing /\ Control /\ Spaced /\ pc = "ack" /\ age \in Ages
  BY DEF Schedule, StartAckRound, Timing
<1>2. frames \in Nat
  <2>1. EnqueueFromTun /\ UNCHANGED tried
    BY DEF StartAckRound
  <2>2. Outbound'
    BY <2>1, ReadingKeepsOrder
  <2> QED
    BY <2>2 DEF Outbound
<1>3. /\ spent' = ask.spent /\ useful' = ask.useful
      /\ age' = [age EXCEPT !.budget = ask.since]
      /\ drain' = Burst("ack", frames, again, Denied(ask, frames))
      /\ rounds' = rounds + 1 /\ pc' = "drain"
  BY DEF StartAckRound, Spend
<1>4. /\ ask.spent \in 0..Allowance /\ ask.useful \in 0..ask.spent
      /\ ask.since \in 0..Second
  BY <1>1, <1>2, AskingIsBounded
<1>5. Denied(ask, frames) \in BOOLEAN /\ again \in BOOLEAN
  BY DEF Denied
<1>6. /\ rounds' \in 0..AckLoops /\ (again => rounds' < AckLoops)
      /\ heard' \in BOOLEAN /\ beaconed' = beaconed /\ beaconed \in BOOLEAN
  <2>1. rounds \in 0..AckLoops /\ rounds < AckLoops /\ AckLoops \in Nat
    BY <1>1, Durations DEF Control
  <2>2. rounds' \in 0..AckLoops
    BY <1>3, <2>1
  <2>3. again => rounds' < AckLoops
    BY <1>3, Zenon
  <2>4. heard' \in BOOLEAN /\ beaconed' = beaconed /\ beaconed \in BOOLEAN
    BY <1>1 DEF Control, StartAckRound
  <2> QED
    BY <2>2, <2>3, <2>4
<1> HIDE DEF ask, frames, again
<1>7. Control' /\ drain'.path = "ack"
  BY <1>1, <1>2, <1>3, <1>4, <1>5, <1>6, StartOfBurst
<1>8. age' \in Ages /\ age'.tx = age.tx /\ age'.beacon = age.beacon
  BY <1>1, <1>3, <1>4 DEF Ages
<1>9. Timing'
  BY <1>1, <1>8 DEF StartAckRound, Timing, air
<1>10. Spaced'
  BY <1>1, <1>6, <1>8, ApartWhenNotDraining DEF Spaced, Apart
<1> QED
  BY <1>7, <1>9, <1>10 DEF Schedule

LEMMA AgesReset ==
  ASSUME NEW a \in Ages, NEW tx \in {0, a.tx}, NEW beacon \in {0, a.beacon},
         NEW since \in 0..Second
  PROVE  /\ [a EXCEPT !.reactive = 0, !.tx = tx, !.beacon = beacon] \in Ages
         /\ [a EXCEPT !.reactive = 0, !.tx = tx, !.beacon = beacon].tx = tx
         /\ [a EXCEPT !.reactive = 0, !.tx = tx, !.beacon = beacon].beacon = beacon
         /\ [a EXCEPT !.budget = since, !.beacon = 0] \in Ages
<1>1. /\ Larger(Liveness, LongestGap) \in Nat /\ LongestGap \in Nat /\ Throttle \in Nat
  BY Durations
<1>2. a.tx \in 0..Larger(Liveness, LongestGap) /\ a.beacon \in 0..LongestGap
  BY DEF Ages
<1>3. tx \in 0..Larger(Liveness, LongestGap) /\ beacon \in 0..LongestGap
  BY <1>1, <1>2
<1>4. 0 \in 0..LongestGap /\ 0 \in 0..Throttle
  BY <1>1
<1> QED
  BY <1>3, <1>4 DEF Ages

LEMMA ReactKeepsSchedule ==
  ASSUME Schedule, React
  PROVE  Schedule'
<1> DEFINE sent == [age EXCEPT !.reactive = 0,
                               !.tx = IF ReactiveBeacons THEN 0 ELSE @,
                               !.beacon = IF ReactiveBeacons THEN 0 ELSE @]
<1>1. Timing /\ Control /\ Spaced /\ pc = "react" /\ age \in Ages
  BY DEF Schedule, React, Timing
<1>2. Apart(age) /\ (~beaconed => age.beacon = LongestGap)
  BY <1>1, ApartWhenNotDraining
<1>3. /\ sent \in Ages
      /\ sent.tx = (IF ReactiveBeacons THEN 0 ELSE age.tx)
      /\ sent.beacon = (IF ReactiveBeacons THEN 0 ELSE age.beacon)
  <2> DEFINE tx == IF ReactiveBeacons THEN 0 ELSE age.tx
             beacon == IF ReactiveBeacons THEN 0 ELSE age.beacon
  <2>1. tx \in {0, age.tx} /\ beacon \in {0, age.beacon}
    OBVIOUS
  <2>2. sent = [age EXCEPT !.reactive = 0, !.tx = tx, !.beacon = beacon]
    OBVIOUS
  <2>3. 0 \in 0..Second
    BY Durations
  <2> HIDE DEF tx, beacon, sent
  <2>4. sent \in Ages /\ sent.tx = tx /\ sent.beacon = beacon
    BY <1>1, <2>1, <2>2, <2>3, AgesReset
  <2> QED
    BY <2>4 DEF tx, beacon
<1>4. Apart(sent)
  BY <1>2, <1>3, Durations DEF Apart, UpTo
<1>5. TakesTime(sent) /\ beaconed' = (beaconed \/ ReactiveBeacons)
  BY DEF React
<1> HIDE DEF sent
<1>6. /\ pos' \in 0..(Cycle - 1) /\ own' \in 0..(Cycle - 1) /\ lag' \in 0..MaxLag
      /\ age' \in Ages
      /\ Apart(sent) => Apart(age')
      /\ sent.beacon = LongestGap => age'.beacon = LongestGap
  BY <1>1, <1>3, <1>5, TimePasses
<1>7. Timing'
  BY <1>1, <1>6 DEF React, Timing, air
<1>8. /\ drain' = Burst("reactive", PerVisit(DataRepeat), FALSE, FALSE)
      /\ PerVisit(DataRepeat) \in Nat
      /\ pc' = "drain" /\ heard' \in BOOLEAN /\ beaconed' \in BOOLEAN
      /\ spent' \in 0..Allowance /\ useful' \in 0..spent'
      /\ rounds' = 0 /\ 0 \in 0..AckLoops
  BY <1>1, <1>5, Durations, PerVisitIsCount DEF React, Control, budget, ReactiveBeacons
<1>9. Control' /\ drain'.path = "reactive"
  BY <1>1, <1>8, StartOfBurst
<1>10. Spaced'
  <2>1. ~beaconed' => sent.beacon = LongestGap
    BY <1>2, <1>3, <1>5
  <2> QED
    BY <1>4, <1>6, <2>1 DEF Spaced, Apart
<1> QED
  BY <1>7, <1>9, <1>10 DEF Schedule

LEMMA SendBeaconKeepsSchedule ==
  ASSUME Schedule, Outbound, SendBeacon
  PROVE  Schedule'
<1> DEFINE frames == Len(queue)
           ask == AskBudget(frames)
           reps == IF ask.grant THEN AckRepeat ELSE DataRepeat
           sent == [age EXCEPT !.budget = ask.since, !.beacon = 0]
<1>1. Timing /\ Control /\ Spaced /\ pc = "wait" /\ age \in Ages
  BY DEF Schedule, SendBeacon, Timing
<1>2. frames \in Nat
  BY DEF Outbound
<1>3. /\ spent' = ask.spent /\ useful' = ask.useful
      /\ TakesTime(sent)
      /\ drain' = Burst("scheduled", PerVisit(reps), FALSE, Denied(ask, frames))
      /\ pc' = "drain"
  BY DEF SendBeacon, Spend
<1>4. /\ ask.spent \in 0..Allowance /\ ask.useful \in 0..ask.spent
      /\ ask.since \in 0..Second
  BY <1>1, <1>2, AskingIsBounded
<1>5. Denied(ask, frames) \in BOOLEAN /\ PerVisit(reps) \in Nat
  <2>1. reps \in Nat \ {0}
    BY Durations
  <2> QED
    BY <2>1, PerVisitIsCount DEF Denied
<1> HIDE DEF ask, frames, reps
<1>6. sent \in Ages
  <2>1. ASSUME NEW since \in 0..Second
        PROVE  [age EXCEPT !.budget = since, !.beacon = 0] \in Ages
    BY <1>1, AgesReset
  <2> QED
    BY <1>4, <2>1
<1> HIDE DEF sent
<1>7. /\ pos' \in 0..(Cycle - 1) /\ own' \in 0..(Cycle - 1) /\ lag' \in 0..MaxLag
      /\ age' \in Ages
  BY <1>1, <1>3, <1>6, TimePasses
<1>8. Timing'
  BY <1>1, <1>7 DEF SendBeacon, Timing, air
<1>9. /\ heard' \in BOOLEAN /\ beaconed' \in BOOLEAN /\ rounds' = 0 /\ 0 \in 0..AckLoops
      /\ spent' \in 0..Allowance /\ useful' \in 0..spent'
  BY <1>1, <1>3, <1>4, Durations DEF SendBeacon, Control
<1>10. Control' /\ drain'.path = "scheduled"
  BY <1>1, <1>3, <1>5, <1>9, StartOfBurst
<1>11. Spaced'
  BY <1>10 DEF Spaced
<1> QED
  BY <1>8, <1>10, <1>11 DEF Schedule

LEMMA ScheduleIsKept == Schedule /\ Outbound /\ [Next]_vars => Schedule'
<1> SUFFICES ASSUME Schedule, Outbound, [Next]_vars
             PROVE  Schedule'
  OBVIOUS
<1>1. CASE Listen
  BY <1>1, ListenKeepsSchedule
<1>2. CASE StartAckRound
  BY <1>2, StartAckRoundKeepsSchedule
<1>3. CASE EndAckRound
  BY <1>3, EndAckRoundKeepsSchedule
<1>4. CASE React
  BY <1>4, ReactKeepsSchedule
<1>5. CASE DoNotReact
  BY <1>5, DoNotReactKeepsSchedule
<1>6. CASE EndReactive
  BY <1>6, EndReactiveKeepsSchedule
<1>7. CASE WaitForWindow \/ HoldForGap \/ HoldForCluster
  BY <1>7, NapKeepsSchedule DEF WaitForWindow, HoldForGap, HoldForCluster
<1>8. CASE SendBeacon
  BY <1>8, SendBeaconKeepsSchedule
<1>9. CASE EndVisit
  BY <1>9, EndVisitKeepsSchedule
<1>10. CASE SendFrame
  BY <1>10, SendFrameKeepsSchedule
<1>11. CASE HoldFrame
  BY <1>11, HoldFrameKeepsSchedule
<1>12. CASE Offer \/ UNCHANGED vars
  BY <1>12, OfferKeepsSchedule DEF Offer, vars, air, clocks, budget
<1> QED
  BY <1>1, <1>2, <1>3, <1>4, <1>5, <1>6, <1>7, <1>8, <1>9, <1>10, <1>11, <1>12
     DEF Next, Step

LEMMA ScheduleHolds == Spec => [](Schedule /\ Outbound)
  BY ScheduleAtFirst, OutboundAtFirst, ScheduleIsKept, OutboundIsKept, PTL DEF Spec

(* The types of the transmit path: the queue never outgrows its limit,     *)
(* the repeat budget its allowance nor the immediate answers their rounds. *)
(* (session 172-176, 259-282, 678-679)                                     *)
THEOREM TransmitTypes == Spec => []TypeOK
<1>1. Schedule /\ Outbound => TypeOK
  BY DEF Schedule, Timing, Control, Outbound, TypeOK
<1> QED
  BY <1>1, ScheduleHolds, PTL

(* Beacons of a channel-locked follower keep their distance for every      *)
(* configuration of gaps, naps and windows.  (session 56-64 and 976-993)   *)
THEOREM BeaconsKeepTheirDistance == Spec => BeaconsAreSpaced
<1>1. ASSUME Schedule, cfg.lock, cfg.follow, BeaconLeaves
      PROVE  age.beacon >= BeaconGap
  <2>1. Control /\ Spaced /\ pc # "drain" /\ age \in Ages
    BY <1>1 DEF Schedule, Timing, BeaconLeaves, SendBeacon, React
  <2>2. UpTo(age.tx, LongestGap) <= age.beacon /\ (~beaconed => age.beacon = LongestGap)
    BY <2>1, ApartWhenNotDraining DEF Apart
  <2>3. ~beaconed \/ age.tx >= BeaconGap
    <3>1. CASE SendBeacon
      <4>1. ~TooSoon
        BY <3>1 DEF SendBeacon
      <4>2. age.tx \in Int /\ BeaconGap \in Int
        BY <2>1, Durations DEF Ages
      <4> QED
        BY <1>1, <4>1, <4>2 DEF TooSoon, Gap
    <3>2. CASE ReactiveBeacons
      BY <3>2 DEF ReactiveBeacons
    <3> QED
      BY <1>1, <3>1, <3>2 DEF BeaconLeaves
  <2>4. age.tx \in Int /\ age.beacon \in Int
    BY <2>1, Durations DEF Ages
  <2> QED
    BY <2>2, <2>3, <2>4, Durations DEF UpTo
<1>2. Schedule /\ [Next]_vars =>
        [cfg.lock /\ cfg.follow /\ BeaconLeaves => age.beacon >= BeaconGap]_vars
  BY <1>1
<1> QED
  BY <1>2, ScheduleHolds, PTL DEF Spec, BeaconsAreSpaced
=============================================================================
