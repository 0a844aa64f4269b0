--------------------------- MODULE ExchangeProofs ---------------------------
(***************************************************************************)
(* What holds of the exchange between stations for any number of them, any *)
(* queue, radio and repeats, any frames of another make and any cuts.      *)
(*                                                                         *)
(* The argument follows a packet.  Its frame is around packet k of kernel  *)
(* n, under the numbers Earlier + k - 1 (OwnIn).  The queue holds the last *)
(* packets handed over, the radio earlier ones, in order.  What the radio  *)
(* sends is made of such frames, and DataFramesProofs says what a receiver *)
(* unwraps of it, cut anywhere.  So what a receiver takes was handed over, *)
(* comes after what it took before and before what the radio still has.    *)
(* All of this is said of explicit values first (a history h, a queue q, a *)
(* radio r, d packets gone), then of the variables.                        *)
(***************************************************************************)
EXTENDS Exchange, DataFramesProofs, SchedulesProofs

-----------------------------------------------------------------------------
(* A list is a sequence.                                                   *)
LEMMA ListsAreSeqs ==
  ASSUME NEW s
  PROVE  IsList(s) <=> IsSeq(s)
<1>1. ASSUME IsList(s) PROVE IsSeq(s)
  <2> DEFINE n == Len(s)
  <2>1. n \in Nat /\ s = [i \in 1..n |-> s[i]]
    BY <1>1 DEF IsList
  <2> HIDE DEF n
  <2>2. DOMAIN s = 1..n
    BY <2>1
  <2> QED
    BY <2>1, <2>2, Listed
<1>2. ASSUME IsSeq(s) PROVE IsList(s)
  BY <1>2, Shape DEF IsList
<1> QED
  BY <1>1, <1>2

(* A reception cut short: the radiotap header, and the start of a frame.   *)
IsCapture(x, bytes, cut) ==
  /\ IsSeq(x) /\ Len(x) = cut
  /\ cut = 0 => ~HasRadiotap(x)
  /\ cut > 0 => /\ x[1] = Radiotap /\ HasRadiotap(x)
                /\ Bare(x) = SubSeq(bytes, 1, cut - 1) /\ cut - 1 \in 0..Len(bytes)

(* A capture is the radiotap header and the start of the frame, or nothing.*)
LEMMA CaptureIs ==
  ASSUME NEW bytes, IsSeq(bytes), NEW cut \in 0..(Len(bytes) + 1), NEW x,
         x = SubSeq(<<Radiotap>> \o bytes, 1, cut)
  PROVE  IsCapture(x, bytes, cut)
<1> DEFINE one == <<Radiotap>>
           all == one \o bytes
           b == SubSeq(bytes, 1, cut - 1)
           c == Bare(x)
<1>0. Len(bytes) \in Nat
  BY Shape
<1>1. IsSeq(one) /\ Len(one) = 1 /\ one[1] = Radiotap
  <2>1. DOMAIN one = 1..1 /\ one = [i \in 1..1 |-> one[i]] /\ one[1] = Radiotap
    OBVIOUS
  <2> HIDE DEF one
  <2> QED
    BY <2>1, Listed
<1> HIDE DEF one
<1>2. IsJoin(all, one, bytes)
  BY <1>1, Joined
<1> HIDE DEF all
<1>3. IsSeq(all) /\ Len(all) = Len(bytes) + 1 /\ all[1] = Radiotap
  <2>1. IsSeq(all) /\ Len(all) = Len(one) + Len(bytes) /\ \A i \in 1..Len(one) : all[i] = one[i]
    BY <1>2 DEF IsJoin
  <2> QED
    BY <1>0, <1>1, <2>1
<1>4. \A i \in 1..Len(bytes) : all[1 + i] = bytes[i]
  BY <1>1, <1>2 DEF IsJoin
<1>5. IsPiece(x, all, 1, cut)
  <2>1. 1 \in Nat \ {0} /\ cut \in Nat /\ cut <= Len(all) /\ x = SubSeq(all, 1, cut)
    BY <1>0, <1>3 DEF all, one
  <2> QED
    BY <1>3, <2>1, Piece
<1>6. IsSeq(x) /\ Len(x) = cut /\ \A i \in 1..cut : x[i] = all[i]
  <2>1. cut \in Nat
    BY <1>0
  <2> QED
    BY <1>5, <2>1 DEF IsPiece
<1>7. cut = 0 => ~HasRadiotap(x)
  BY <1>6 DEF HasRadiotap, Has
<1>8. ASSUME cut > 0
      PROVE  /\ x[1] = Radiotap /\ HasRadiotap(x)
             /\ Bare(x) = SubSeq(bytes, 1, cut - 1) /\ cut - 1 \in 0..Len(bytes)
  <2>0. cut - 1 \in 0..Len(bytes) /\ cut - 1 \in Nat /\ cut \in Nat /\ cut - 1 <= Len(bytes) /\ 1 \in 1..cut
    BY <1>0, <1>8
  <2>1. x[1] = Radiotap
    BY <1>3, <1>6, <2>0
  <2>2. HasRadiotap(x)
    BY <1>6, <1>8, <2>1 DEF HasRadiotap, Has, Radiotap
  <2>3. IsRest(c, x, 1)
    BY <1>6, Rest DEF Bare
  <2>4. IsPiece(b, bytes, 1, cut - 1)
    BY <2>0, Piece
  <2> HIDE DEF b, c
  <2>5. IsSeq(b) /\ Len(b) = cut - 1 /\ \A i \in 1..(cut - 1) : b[i] = bytes[i]
    BY <2>0, <2>4 DEF IsPiece
  <2>6. IsSeq(c) /\ Len(c) = cut - 1 /\ \A i \in 1..(cut - 1) : c[i] = x[1 + i]
    BY <1>6, <2>0, <2>3 DEF IsRest
  <2>7. ASSUME NEW i \in 1..Len(c) PROVE c[i] = b[i]
    <3>1. i \in 1..(cut - 1) /\ 1 + i \in 1..cut /\ i \in 1..Len(bytes)
      BY <2>0, <2>6
    <3> QED
      BY <1>4, <1>6, <2>5, <2>6, <3>1
  <2>8. c = b
    BY <2>5, <2>6, <2>7, Same
  <2> QED
    BY <2>0, <2>1, <2>2, <2>8 DEF b, c
<1> QED
  BY <1>6, <1>7, <1>8 DEF IsCapture

-----------------------------------------------------------------------------
(* A set of numbers in order.                                              *)
Ranked(S, i) == {k \in S : k <= i}

(* A set of numbers, in order: a sequence of as many.                      *)
LEMMA InOrderIs ==
  ASSUME NEW n \in Nat, NEW S \in SUBSET (1..n)
  PROVE  /\ IsFiniteSet(S) /\ Cardinality(S) \in Nat
         /\ IsSeq(InOrder(S)) /\ Len(InOrder(S)) = Cardinality(S)
         /\ \A j \in 1..Cardinality(S) : InOrder(S)[j] \in S
         /\ \A j \in 1..Cardinality(S) : \A i \in 1..j : InOrder(S)[i] <= InOrder(S)[j]
         /\ \A i \in S : \E j \in 1..Cardinality(S) : InOrder(S)[j] = i
<1> DEFINE C == Cardinality(S)
           rank == [i \in S |-> Cardinality(Ranked(S, i))]
           t == InOrder(S)
<1>1. IsFiniteSet(1..n)
  BY FS_Interval
<1>2. IsFiniteSet(S) /\ C \in Nat
  BY <1>1, FS_Subset, FS_CardinalityType
<1>3. \A i \in S : i \in Int
  BY DEF C
<1>4. ASSUME NEW i \in S
      PROVE  IsFiniteSet(Ranked(S, i)) /\ Cardinality(Ranked(S, i)) \in 1..C
  <2>1. Ranked(S, i) \in SUBSET S /\ Ranked(S, i) # {}
    BY <1>3 DEF Ranked
  <2>2. IsFiniteSet(Ranked(S, i)) /\ Cardinality(Ranked(S, i)) <= C
    BY <1>2, <2>1, FS_Subset
  <2>3. Cardinality(Ranked(S, i)) \in Nat
    BY <2>2, FS_CardinalityType
  <2>4. Cardinality(Ranked(S, i)) # 0
    BY <2>1, <2>2, FS_EmptySet
  <2> QED
    BY <1>2, <2>2, <2>3, <2>4
<1>5. ASSUME NEW i \in S, NEW k \in S, i < k
      PROVE  Cardinality(Ranked(S, i)) < Cardinality(Ranked(S, k))
  <2>0. i \in Int /\ k \in Int
    BY <1>3
  <2>1. Ranked(S, i) \in SUBSET Ranked(S, k) /\ k \in Ranked(S, k) /\ k \notin Ranked(S, i)
    <3>1. \A x \in S : x <= i => x <= k
      BY <1>3, <1>5, <2>0
    <3>2. Ranked(S, i) \in SUBSET Ranked(S, k)
      BY <3>1 DEF Ranked
    <3>3. k \in Ranked(S, k)
      BY <2>0 DEF Ranked
    <3>4. k \notin Ranked(S, i)
      BY <1>5, <2>0 DEF Ranked
    <3> QED
      BY <3>2, <3>3, <3>4
  <2>2. Cardinality(Ranked(S, i)) <= Cardinality(Ranked(S, k))
    BY <1>4, <2>1, FS_Subset
  <2>3. Cardinality(Ranked(S, i)) # Cardinality(Ranked(S, k))
    BY <1>4, <2>1, FS_Subset
  <2>4. Cardinality(Ranked(S, i)) \in Nat /\ Cardinality(Ranked(S, k)) \in Nat
    BY <1>4
  <2> QED
    BY <2>2, <2>3, <2>4
<1>6. rank \in Injection(S, 1..C)
  <2>1. rank \in [S -> 1..C]
    BY <1>4
  <2>2. ASSUME NEW i \in S, NEW k \in S, rank[i] = rank[k] PROVE i = k
    <3>1. Cardinality(Ranked(S, i)) = Cardinality(Ranked(S, k))
      BY <2>2
    <3>2. ~(i < k) /\ ~(k < i)
      BY <1>4, <1>5, <3>1
    <3> QED
      BY <1>3, <3>2
  <2> QED
    BY <2>1, <2>2 DEF Injection, IsInjective
<1>7. \A j \in 1..C : \E i \in S : Cardinality(Ranked(S, i)) = j
  <2>1. IsFiniteSet(1..C) /\ Cardinality(1..C) = C
    BY <1>2, FS_Interval
  <2> HIDE DEF C, rank
  <2>2. rank \in Surjection(S, 1..C)
    BY <1>6, <2>1, FS_Injection DEF C
  <2>3. \A j \in 1..C : \E i \in S : rank[i] = j
    BY <2>2 DEF Surjection
  <2> QED
    BY <2>3 DEF rank
<1>8. t = [j \in 1..C |-> CHOOSE i \in S : Cardinality({k \in S : k <= i}) = j]
  BY DEF InOrder
<1>9. ASSUME NEW j \in 1..C PROVE t[j] \in S /\ Cardinality(Ranked(S, t[j])) = j
  <2>1. t[j] = CHOOSE i \in S : Cardinality({k \in S : k <= i}) = j
    BY <1>8
  <2>2. \E i \in S : Cardinality({k \in S : k <= i}) = j
    BY <1>7 DEF Ranked
  <2>3. t[j] \in S /\ Cardinality({k \in S : k <= t[j]}) = j
    BY <2>1, <2>2
  <2> QED
    BY <2>3 DEF Ranked
<1>10. IsSeq(t) /\ Len(t) = C
  <2> HIDE DEF t, C
  <2>1. t \in [1..C -> S]
    BY <1>8, <1>9
  <2>2. t = [j \in 1..C |-> t[j]] /\ DOMAIN t = 1..C
    BY <2>1
  <2> QED
    BY <1>2, <2>1, <2>2, Listed DEF C
<1>11. ASSUME NEW j \in 1..C, NEW i \in 1..j PROVE t[i] <= t[j]
  <2> HIDE DEF t, C
  <2>1. i \in 1..C /\ i <= j /\ i \in Int /\ j \in Int
    BY <1>2
  <2>2. t[i] \in S /\ t[j] \in S /\ t[i] \in Int /\ t[j] \in Int
    BY <1>3, <1>9, <2>1
  <2>3. Cardinality(Ranked(S, t[i])) = i /\ Cardinality(Ranked(S, t[j])) = j
    BY <1>9, <2>1
  <2>4. ~(t[j] < t[i])
    BY <1>5, <2>1, <2>2, <2>3
  <2> QED
    BY <2>2, <2>4
<1>12. ASSUME NEW i \in S PROVE \E j \in 1..C : t[j] = i
  <2> HIDE DEF t, C
  <2>1. PICK j \in 1..C : j = Cardinality(Ranked(S, i))
    BY <1>4
  <2>2. t[j] \in S /\ Cardinality(Ranked(S, t[j])) = Cardinality(Ranked(S, i))
    BY <1>9, <2>1
  <2>3. ASSUME NEW k \in S, Cardinality(Ranked(S, k)) = Cardinality(Ranked(S, i)) PROVE k = i
    <3>1. ~(k < i) /\ ~(i < k)
      BY <1>4, <1>5, <2>3
    <3> QED
      BY <1>3, <3>1
  <2>4. t[j] = i
    BY <2>2, <2>3
  <2> QED
    BY <2>4
<1> QED
  BY <1>2, <1>9, <1>10, <1>11, <1>12

-----------------------------------------------------------------------------
(* The destinations.                                                       *)
Route(dst) == dst_mac_for_ipv6([len |-> 40, version |-> 6, dst |-> dst])

(* A station has an address of its own, and packets for it find it.        *)
LEMMA Stationed ==
  ASSUME NEW n \in Stations
  PROVE  /\ Mac(n) \in MAC /\ ~is_ipv6_multicast(Mac(n))
         /\ IpOf(n) \in IPv6 /\ ~IsMulticast(IpOf(n)) /\ Route(IpOf(n)) = Mac(n)
         /\ \A m \in Stations : Mac(m) = Mac(n) => m = n
<1>1. Mac(n) \in MAC /\ ~is_ipv6_multicast(Mac(n)) /\ \A m \in Stations : Mac(m) = Mac(n) => m = n
  BY ExchangeAssumption DEF Mac
<1>2. IpOf(n) \in IPv6 /\ ~IsMulticast(IpOf(n))
  BY <1>1, DerivedIsLinkLocal DEF IpOf
<1> DEFINE pkt == [len |-> 40, version |-> 6, dst |-> IpOf(n)]
<1>3. pkt \in [len : Nat, version : Nat, dst : IPv6] /\ pkt.len >= 40 /\ pkt.version = 6
  BY <1>2
<1>4. pkt.dst = link_local_from_mac(Mac(n))
  BY DEF IpOf
<1> HIDE DEF pkt
<1>5. dst_mac_for_ipv6(pkt) = Mac(n)
  BY <1>1, <1>3, <1>4, PacketsReachTheirStation
<1> QED
  BY <1>1, <1>2, <1>5 DEF pkt, Route

(* A packet a receiver lets through is for that receiver or for a group.   *)
LEMMA DestinationIs ==
  ASSUME NEW dst \in Destinations, NEW m \in Ours, Route(dst) # None,
         Route(dst) = Mac(m) \/ is_ipv6_multicast(Route(dst))
  PROVE  \/ dst = IpOf(m) /\ ~IsMulticast(dst)
         \/ dst \in Groups /\ IsMulticast(dst)
<1>0. m \in Stations
  BY DEF Stations
<1>1. CASE \E k \in Stations : dst = IpOf(k)
  <2>1. PICK k \in Stations : dst = IpOf(k)
    BY <1>1
  <2>2. Route(dst) = Mac(k) /\ ~IsMulticast(dst) /\ ~is_ipv6_multicast(Mac(k))
    BY <2>1, Stationed
  <2>3. Mac(m) = Mac(k)
    BY <2>2
  <2>4. m = k
    BY <1>0, <2>3, Stationed
  <2> QED
    BY <2>1, <2>2, <2>4
<1>2. CASE dst \in Groups
  BY <1>2, ExchangeAssumption
<1>3. CASE dst \in Strangers
  <2>1. ~IsMulticast(dst) /\ ~IsLinkLocal(dst)
    BY <1>3, ExchangeAssumption
  <2> DEFINE pkt == [len |-> 40, version |-> 6, dst |-> dst]
  <2>2. pkt.len = 40 /\ pkt.version = 6 /\ pkt.dst = dst
    OBVIOUS
  <2> HIDE DEF pkt
  <2>3. dst_mac_for_ipv6(pkt) = mac_from_link_local(dst)
    BY <2>1, <2>2 DEF dst_mac_for_ipv6, multicast_mac
  <2>4. dst_mac_for_ipv6(pkt) = None
    BY <2>1, <2>3 DEF mac_from_link_local
  <2> QED
    BY <2>4 DEF pkt, Route
<1> QED
  BY <1>1, <1>2, <1>3 DEF Destinations

-----------------------------------------------------------------------------
(* The packets of a kernel, and the frames around them.                    *)
Opening(n, k, dst) == <<"packet", n, k, dst, 1>>

(* A packet of a kernel names its sender, its number and its destination.  *)
LEMMA PacketIs ==
  ASSUME NEW n, NEW k \in Nat, NEW dst
  PROVE  /\ IsSeq(Packet(n, k, dst)) /\ Measured(Packet(n, k, dst))
         /\ Len(Packet(n, k, dst)) \in 2..3
         /\ Packet(n, k, dst)[1] = Opening(n, k, dst)
<1> DEFINE s == Packet(n, k, dst)
           x == 2 + (k % 2)
<1>1. x \in 2..3 /\ x \in Nat
  OBVIOUS
<1> HIDE DEF x
<1>2. s = [i \in 1..x |-> <<"packet", n, k, dst, i>>]
  BY DEF Packet, x
<1> HIDE DEF s
<1>3. DOMAIN s = 1..x /\ \A i \in 1..x : s[i] = <<"packet", n, k, dst, i>>
  BY <1>2
<1>30. s = [i \in 1..x |-> s[i]]
  <2>1. s \in [1..x -> {<<"packet", n, k, dst, i>> : i \in 1..x}]
    BY <1>2
  <2> QED
    BY <2>1
<1>4. IsSeq(s) /\ Len(s) = x
  BY <1>1, <1>3, <1>30, Listed
<1>5. Measured(s)
  BY <1>3, <1>4 DEF Measured
<1>6. s[1] = Opening(n, k, dst)
  BY <1>1, <1>3 DEF Opening
<1> QED
  BY <1>1, <1>4, <1>5, <1>6 DEF s

(* f is a frame around packet k of kernel n, or a repeat of one.           *)
No(f) == f[12][3]
OwnIn(h, n, k, f) ==
  /\ k \in 1..Len(h)
  /\ Wraps(f, Route(h[k]), Mac(n), ((Earlier + k) - 1) % AwdlMod, Packet(n, k, h[k]))
  /\ f[5] = SequenceControl(((Earlier + k) - 1) % SeqMod)
Own(n, k, f) == OwnIn(handed[n], n, k, f)

(* A frame around a packet is data.                                        *)
LEMMA WrapsIsData ==
  ASSUME NEW f, NEW to, NEW from, NEW awdl, NEW packet, IsSeq(packet),
         Wraps(f, to, from, awdl, packet)
  PROVE  IsSeq(f) /\ IsData(f) /\ Len(f) \in Nat /\ Len(f) >= 11
<1>1. IsSeq(f) /\ Len(f) = 11 + Len(packet) /\ f[1][1] = "fc" /\ f[1][2] = 0 /\ f[1][3] = 2
  BY DEF Wraps
<1>2. Len(packet) \in Nat
  BY Shape
<1>3. Has(f, 0)
  BY <1>1, <1>2 DEF Has
<1>4. IsData(f)
  BY <1>1, <1>3 DEF IsData, TypeOf, IsFc
<1> QED
  BY <1>1, <1>2, <1>4

(* What a frame of a packet shows: receiver, both numbers, and the packet. *)
LEMMA OwnIs ==
  ASSUME NEW n, NEW k \in Nat, NEW f, Own(n, k, f)
  PROVE  /\ IsSeq(f) /\ IsData(f) /\ No(f) = k /\ f[2] = Address(Route(handed[n][k]))
         /\ f[9] = <<"awdl", ((Earlier + k) - 1) % AwdlMod>>
         /\ f[5] = SequenceControl(((Earlier + k) - 1) % SeqMod)
         /\ f[12] = Opening(n, k, handed[n][k])
<1> DEFINE dst == handed[n][k]
           s == Packet(n, k, dst)
           awdl == ((Earlier + k) - 1) % AwdlMod
<1>1. IsSeq(s) /\ Len(s) \in 2..3 /\ s[1] = Opening(n, k, dst)
  BY PacketIs
<1>2. Wraps(f, Route(dst), Mac(n), awdl, s) /\ f[5] = SequenceControl(((Earlier + k) - 1) % SeqMod)
  BY DEF Own, OwnIn
<1> HIDE DEF s, dst, awdl
<1>3. IsSeq(f) /\ IsData(f)
  BY <1>1, <1>2, WrapsIsData
<1>4. f[2] = Address(Route(dst)) /\ Len(f) = 11 + Len(s)
  BY <1>2 DEF Wraps
<1>5. f[9] = <<"awdl", awdl>>
  <2>1. f[9] = Symbol(3, awdl)
    BY <1>1, <1>2, <1>4 DEF Wraps
  <2> QED
    BY <2>1 DEF Symbol
<1>6. f[12] = s[1]
  BY <1>1, <1>2, <1>4 DEF Wraps
<1>7. f[12][3] = k
  BY <1>1, <1>6 DEF Opening
<1> QED
  BY <1>1, <1>2, <1>3, <1>4, <1>5, <1>6, <1>7 DEF No, dst, awdl

(* A repeat.                                                               *)
LEMMA RetryIsOwn ==
  ASSUME NEW n, NEW k \in Nat, NEW f, Own(n, k, f)
  PROVE  Own(n, k, Retried(f))
<1> DEFINE s == Packet(n, k, handed[n][k])
           to == Route(handed[n][k])
           awdl == ((Earlier + k) - 1) % AwdlMod
<1>1. IsSeq(s)
  BY PacketIs
<1>2. Wraps(f, to, Mac(n), awdl, s) /\ k \in 1..Len(handed[n])
      /\ f[5] = SequenceControl(((Earlier + k) - 1) % SeqMod)
  BY DEF Own, OwnIn
<1> HIDE DEF s, to, awdl
<1>3. Wraps(Retried(f), to, Mac(n), awdl, s) /\ Retried(f)[5] = f[5]
  BY <1>1, <1>2, RetryWraps
<1> QED
  BY <1>2, <1>3 DEF Own, OwnIn, s, to, awdl

-----------------------------------------------------------------------------
(* What a receiver takes from a frame is what its sender put there.        *)
TakenFrom(e, n, f) ==
  /\ e.src = Mac(n) /\ e.dst = Route(handed[n][No(f)])
  /\ IsStartOf(e.payload, Packet(n, No(f), handed[n][No(f)]))
  /\ e.payload # <<>> => e.payload[1] = Opening(n, No(f), handed[n][No(f)])

(* What a receiver takes from such a frame is the packet, or its start.    *)
LEMMA TakenIs ==
  ASSUME NEW n, NEW k \in Nat, NEW f, Own(n, k, f), NEW awdl,
         NEW m \in 0..Len(Packet(n, k, handed[n][k]))
  PROVE  TakenFrom(Taken(Route(handed[n][k]), Mac(n), awdl, Packet(n, k, handed[n][k]), m), n, f)
<1> DEFINE dst == handed[n][k]
           s == Packet(n, k, dst)
           e == Taken(Route(dst), Mac(n), awdl, s, m)
           b == SubSeq(s, 1, m)
<1>1. IsSeq(s) /\ Len(s) \in Nat /\ s[1] = Opening(n, k, dst) /\ m \in 0..Len(s)
  BY PacketIs
<1>2. No(f) = k
  BY OwnIs
<1>3. e.src = Mac(n) /\ e.dst = Route(dst) /\ e.payload = b
  BY DEF Taken
<1> HIDE DEF s, e, dst
<1>4. IsPiece(b, s, 1, m) /\ m \in Nat
  BY <1>1, Piece
<1>5. IsSeq(b) /\ Len(b) = m /\ \A i \in 1..m : b[i] = s[i]
  BY <1>1, <1>4 DEF IsPiece
<1>6. IsStartOf(b, s)
  BY <1>1, <1>5 DEF IsStartOf
<1> HIDE DEF b
<1>7. b # <<>> => b[1] = Opening(n, k, dst)
  <2>1. ASSUME m = 0 PROVE b = <<>>
    <3>1. DOMAIN b = 1..0 /\ b = [i \in 1..0 |-> b[i]]
      BY <1>5, <2>1, Shape
    <3> QED
      BY <3>1
  <2>2. m # 0 => 1 \in 1..m
    BY <1>4
  <2> QED
    BY <1>1, <1>5, <2>1, <2>2
<1> QED
  BY <1>2, <1>3, <1>6, <1>7 DEF TakenFrom, s, e, dst

(* A frame on the air, by the frames of kernel n it was made of.           *)
MadeOf(n, frames, bytes, needs) ==
  /\ IsSeq(bytes) /\ IsSeq(needs) /\ UnwrapsByNeed(bytes, needs)
  /\ \A c \in 0..Len(bytes) : \A i \in 1..Len(decapsulate_all(SubSeq(bytes, 1, c))) :
       i \in 1..Len(frames) /\ TakenFrom(decapsulate_all(SubSeq(bytes, 1, c))[i], n, frames[i])

(* Sequences of one and of none.                                           *)
LEMMA OneIsList ==
  ASSUME NEW x
  PROVE  IsSeq(<<x>>) /\ Len(<<x>>) = 1 /\ <<x>>[1] = x
<1> DEFINE one == <<x>>
<1>1. DOMAIN one = 1..1 /\ one = [i \in 1..1 |-> one[i]] /\ one[1] = x
  OBVIOUS
<1> HIDE DEF one
<1>2. IsSeq(one) /\ Len(one) = 1 /\ one[1] = x
  BY <1>1, Listed
<1> QED
  BY <1>2 DEF one

LEMMA NoneIsList ==
  IsSeq(<<>>) /\ Len(<<>>) = 0
BY DEF IsSeq

(* A frame of one packet, whose headers are `head' symbols.                *)
LEMMA LoneIsMadeOf ==
  ASSUME NEW n, NEW k \in Nat, NEW frames, Len(frames) = 1, Own(n, k, frames[1]),
         NEW bytes, IsSeq(bytes), NEW head \in Nat \ {0},
         Len(bytes) = head + Len(Packet(n, k, handed[n][k])),
         NEW awdl, \A c \in 0..Len(bytes) :
           decapsulate_all(SubSeq(bytes, 1, c)) =
             IF c >= head
             THEN <<Taken(Route(handed[n][k]), Mac(n), awdl, Packet(n, k, handed[n][k]), c - head)>>
             ELSE <<>>
  PROVE  MadeOf(n, frames, bytes, <<head>>)
<1> DEFINE s == Packet(n, k, handed[n][k])
           needs == <<head>>
           T(c) == Taken(Route(handed[n][k]), Mac(n), awdl, s, c - head)
           D(c) == decapsulate_all(SubSeq(bytes, 1, c))
<1>1. IsSeq(s) /\ Len(s) \in Nat /\ Len(s) \in 2..3
  BY PacketIs
<1>2. IsSeq(needs) /\ Len(needs) = 1 /\ needs[1] = head /\ DOMAIN needs = 1..1
  <2>1. IsSeq(needs) /\ Len(needs) = 1 /\ needs[1] = head
    BY OneIsList
  <2> QED
    BY <2>1, Shape
<1> HIDE DEF needs
<1>3. head \in 1..Len(bytes) /\ Len(bytes) \in Nat
  BY <1>1
<1>4. ASSUME NEW c \in 0..Len(bytes)
      PROVE  /\ IsList(D(c)) /\ Len(D(c)) = Cardinality(Needing(needs, c))
             /\ \A i \in 1..Len(D(c)) : i \in 1..Len(frames) /\ TakenFrom(D(c)[i], n, frames[i])
  <2>0. D(c) = IF c >= head THEN <<T(c)>> ELSE <<>>
    OBVIOUS
  <2> HIDE DEF D
  <2>1. CASE c >= head
    <3>1. c - head \in 0..Len(s)
      BY <1>1, <1>3, <2>1
    <3>2. TakenFrom(T(c), n, frames[1])
      BY <3>1, TakenIs
    <3> HIDE DEF T
    <3>3. D(c) = <<T(c)>>
      BY <2>0, <2>1
    <3>4. IsSeq(D(c)) /\ Len(D(c)) = 1 /\ D(c)[1] = T(c)
      BY <3>3, OneIsList
    <3>5. Needing(needs, c) = {1}
      BY <1>2, <2>1 DEF Needing
    <3>6. Cardinality(Needing(needs, c)) = 1
      BY <3>5, FS_Singleton
    <3>7. IsList(D(c))
      BY <3>4, ListsAreSeqs
    <3>8. \A i \in 1..Len(D(c)) : i = 1
      BY <3>4
    <3> QED
      BY <3>2, <3>4, <3>6, <3>7, <3>8
  <2>2. CASE ~(c >= head)
    <3>1. D(c) = <<>>
      BY <2>0, <2>2
    <3>2. IsSeq(D(c)) /\ Len(D(c)) = 0
      BY <3>1, NoneIsList
    <3>3. Needing(needs, c) = {}
      BY <1>2, <2>2 DEF Needing
    <3>4. Cardinality(Needing(needs, c)) = 0
      BY <3>3, FS_EmptySet
    <3>5. IsList(D(c))
      BY <3>2, ListsAreSeqs
    <3>6. \A i \in 1..Len(D(c)) : FALSE
      BY <3>2
    <3> QED
      BY <3>2, <3>4, <3>5, <3>6
  <2> QED
    BY <2>1, <2>2
<1>5. UnwrapsByNeed(bytes, needs)
  <2>1. \A i \in DOMAIN needs : needs[i] \in 1..Len(bytes)
    BY <1>2, <1>3
  <2>2. \A c \in 0..Len(bytes) : IsList(D(c)) /\ Len(D(c)) = Cardinality(Needing(needs, c))
    BY <1>4
  <2> QED
    BY <2>1, <2>2 DEF UnwrapsByNeed
<1>6. \A c \in 0..Len(bytes) : \A i \in 1..Len(D(c)) :
         i \in 1..Len(frames) /\ TakenFrom(D(c)[i], n, frames[i])
  BY <1>4
<1>7. MadeOf(n, frames, bytes, needs)
  BY <1>2, <1>5, <1>6 DEF MadeOf
<1> QED
  BY <1>7 DEF needs

-----------------------------------------------------------------------------
(* The shapes the radio gives frames of one kernel for one receiver.       *)
Together(n, frames) ==
  /\ IsSeq(frames) /\ Len(frames) \in Nat \ {0}
  /\ \A i \in 1..Len(frames) :
       /\ No(frames[i]) \in Nat /\ Own(n, No(frames[i]), frames[i])
       /\ frames[i][2] = frames[1][2]

(* A lone frame carries its packet, once the headers are there.            *)
LEMMA PlainIsMadeOf ==
  ASSUME NEW n, NEW frames, Together(n, frames), Len(frames) = 1
  PROVE  /\ MadeOf(n, frames, frames[1], <<11>>)
         /\ MadeOf(n, frames, Padded(frames[1]), <<12>>)
<1> DEFINE f == frames[1]
           k == No(f)
           to == Route(handed[n][k])
           awdl == ((Earlier + k) - 1) % AwdlMod
           s == Packet(n, k, handed[n][k])
<1>1. k \in Nat /\ Own(n, k, f)
  BY DEF Together
<1>2. IsSeq(s) /\ Len(s) \in 2..3
  BY <1>1, PacketIs
<1>3. Wraps(f, to, Mac(n), awdl, s)
  BY <1>1 DEF Own, OwnIn
<1>4. None \notin Nat
  BY ExchangeAssumption
<1>5. IsSeq(f) /\ Len(f) = 11 + Len(s)
  BY <1>3 DEF Wraps
<1>6. IsSeq(Padded(f)) /\ Len(Padded(f)) = 12 + Len(s) /\ Len(f) + 1 = 12 + Len(s)
  <2> HIDE DEF s, f
  <2>1. Len(f) >= 6
    BY <1>2, <1>5
  <2>2. IsSeq(Padded(f)) /\ Len(Padded(f)) = Len(f) + 1
    BY <1>5, <2>1, PaddedIs
  <2> QED
    BY <1>2, <1>5, <2>2
<1>7. \A c \in 0..Len(f) :
         decapsulate_all(SubSeq(f, 1, c)) =
           IF c >= 11 THEN <<Taken(to, Mac(n), awdl, s, c - 11)>> ELSE <<>>
  <2> HIDE DEF s, f, to, awdl
  <2> QED
    BY <1>2, <1>3, <1>4, LoneUnwraps
<1>8. \A c \in 0..Len(Padded(f)) :
         decapsulate_all(SubSeq(Padded(f), 1, c)) =
           IF c >= 12 THEN <<Taken(to, Mac(n), awdl, s, c - 12)>> ELSE <<>>
  <2> HIDE DEF s, f, to, awdl
  <2>1. \A c \in 0..(Len(f) + 1) :
           decapsulate_all(SubSeq(Padded(f), 1, c)) =
             IF c >= 12 THEN <<Taken(to, Mac(n), awdl, s, c - 12)>> ELSE <<>>
    BY <1>2, <1>3, <1>4, PaddedUnwraps
  <2> QED
    BY <1>6, <2>1
<1>9. MadeOf(n, frames, f, <<11>>)
  <2> HIDE DEF awdl, k
  <2>1. 11 \in Nat \ {0}
    OBVIOUS
  <2> QED
    BY <1>1, <1>5, <1>7, <2>1, LoneIsMadeOf
<1>10. MadeOf(n, frames, Padded(f), <<12>>)
  <2> HIDE DEF awdl, k
  <2>1. 12 \in Nat \ {0}
    OBVIOUS
  <2> QED
    BY <1>1, <1>6, <1>8, <2>1, LoneIsMadeOf
<1> QED
  BY <1>9, <1>10

(* The receiver and the packets of an aggregate.                           *)
Numbered(frames) == [i \in 1..Len(frames) |-> ((Earlier + No(frames[i])) - 1) % AwdlMod]
Carried(n, frames) ==
  [i \in 1..Len(frames) |-> Packet(n, No(frames[i]), handed[n][No(frames[i])])]
Receiver(n, frames) == Route(handed[n][No(frames[1])])

(* Frames for one receiver may be packed into an aggregate.                *)
LEMMA TogetherIsPacked ==
  ASSUME NEW n, NEW frames, Together(n, frames)
  PROVE  Packed(frames, Receiver(n, frames), Mac(n), Numbered(frames), Carried(n, frames))
<1>1. ASSUME NEW i \in 1..Len(frames)
      PROVE  /\ IsSeq(Carried(n, frames)[i]) /\ Measured(Carried(n, frames)[i])
             /\ Wraps(frames[i], Receiver(n, frames), Mac(n), Numbered(frames)[i],
                      Carried(n, frames)[i])
  <2> DEFINE f == frames[i]
             g == frames[1]
             k == No(f)
             s == Packet(n, k, handed[n][k])
  <2>1. k \in Nat /\ Own(n, k, f) /\ f[2] = g[2]
    BY DEF Together
  <2>2. IsSeq(s) /\ Measured(s)
    BY <2>1, PacketIs
  <2>3. Wraps(f, Route(handed[n][k]), Mac(n), ((Earlier + k) - 1) % AwdlMod, s)
    BY <2>1 DEF Own, OwnIn
  <2>4. No(g) \in Nat /\ Own(n, No(g), g)
    <3>1. 1 \in 1..Len(frames)
      BY DEF Together
    <3> QED
      BY <3>1 DEF Together
  <2>5. g[2] = Address(Receiver(n, frames))
    BY <2>4, OwnIs DEF Receiver
  <2>6. f[2] = Address(Route(handed[n][k]))
    BY <2>1, OwnIs
  <2>7. Route(handed[n][k]) = Receiver(n, frames)
    BY <2>1, <2>5, <2>6 DEF Address
  <2>8. Carried(n, frames)[i] = s /\ Numbered(frames)[i] = ((Earlier + k) - 1) % AwdlMod
    BY DEF Carried, Numbered
  <2> HIDE DEF f, k, s
  <2>9. Wraps(f, Receiver(n, frames), Mac(n), Numbered(frames)[i], Carried(n, frames)[i])
    BY <2>3, <2>7, <2>8
  <2> QED
    BY <2>2, <2>8, <2>9 DEF f
<1>2. Len(frames) \in Nat \ {0}
  BY DEF Together
<1> QED
  BY <1>1, <1>2 DEF Packed

(* An empty capture has no packet.                                         *)
LEMMA NothingCarriesNothing ==
  ASSUME NEW b, Len(b) = 0
  PROVE  decapsulate_all(b) = <<>>
<1>1. None \notin Nat
  BY ExchangeAssumption
<1>2. ~IsData(b)
  BY <1>1 DEF IsData, TypeOf, IsFc, Has
<1> QED
  BY <1>2 DEF decapsulate_all

(* The packets of an aggregate, one by one.                                *)
LEMMA PacketsAre ==
  ASSUME NEW to, NEW from, NEW A, NEW P, NEW K \in Nat
  PROVE  /\ IsSeq(Packets(to, from, A, P, K)) /\ Len(Packets(to, from, A, P, K)) = K
         /\ \A j \in 1..K : Packets(to, from, A, P, K)[j] = Taken(to, from, A[j], P[j], Len(P[j]))
<1> DEFINE s == Packets(to, from, A, P, K)
           R == {Taken(to, from, A[j], P[j], Len(P[j])) : j \in 1..K}
<1>1. s = [j \in 1..K |-> Taken(to, from, A[j], P[j], Len(P[j]))]
  BY DEF Packets
<1>2. s \in [1..K -> R]
  BY <1>1
<1>3. \A j \in 1..K : s[j] = Taken(to, from, A[j], P[j], Len(P[j]))
  BY <1>1
<1> HIDE DEF s, R
<1>4. DOMAIN s = 1..K /\ s = [j \in 1..K |-> s[j]]
  BY <1>2
<1>5. IsSeq(s) /\ Len(s) = K
  BY <1>4, Listed
<1> QED
  BY <1>3, <1>5 DEF s

(* An aggregate carries the packets of its frames, in their order.         *)
LEMMA AggregateIsMadeOf ==
  ASSUME NEW n, NEW frames, Together(n, frames), NEW present \in BOOLEAN, NEW needs,
         needs = [i \in 1..Len(frames) |-> Len(Aggregate(SubSeq(frames, 1, i), present))]
  PROVE  MadeOf(n, frames, Aggregate(frames, present), needs)
<1> DEFINE L == Len(frames)
           to == Receiver(n, frames)
           A == Numbered(frames)
           P == Carried(n, frames)
           bytes == Aggregate(frames, present)
           D(c) == decapsulate_all(SubSeq(bytes, 1, c))
           size(i) == Len(Aggregate(SubSeq(frames, 1, i), present))
           Reach(c, K) == /\ \A i \in 1..L : size(i) <= c <=> i <= K
                          /\ D(c) = Packets(to, Mac(n), A, P, K)
<1>1. Packed(frames, to, Mac(n), A, P) /\ IsSeq(frames) /\ L \in Nat \ {0} /\ None \notin Nat
  BY TogetherIsPacked, ExchangeAssumption DEF Together
<1> HIDE DEF to, A, P
<1>2. \A c \in 0..Len(bytes) : \E K \in 0..L : Reach(c, K)
  BY <1>1, AggregateUnwraps
<1>3. IsSeq(bytes) /\ Len(bytes) \in Nat
  <2>1. 0 \in 0..Len(bytes) => IsSeq(bytes)
    BY <1>1, AggregateUnwraps
  <2>2. PICK chain : bytes = HeadOf(frames[1], present) \o chain[L] /\ IsChain(chain, frames, present)
    BY <1>1, AggregateIs
  <2>3. IsSeq(P[1]) /\ Wraps(frames[1], to, Mac(n), A[1], P[1])
    BY <1>1 DEF Packed
  <2>4. IsSeq(HeadOf(frames[1], present))
    BY <2>3, HeadIs
  <2>5. IsSeq(chain[L])
    <3>1. Subframed(frames, present) /\ L \in 1..L
      BY <1>1, PackedSubframes
    <3> QED
      BY <2>2, <3>1, ChainLinks
  <2>6. IsSeq(bytes)
    BY <2>2, <2>4, <2>5, Joined DEF IsJoin
  <2> QED
    BY <2>6, Shape
<1> HIDE DEF bytes
<1>4. ASSUME NEW i \in 1..L PROVE needs[i] = size(i) /\ size(i) \in Nat
  <2> DEFINE part == SubSeq(frames, 1, i)
  <2>1. IsPiece(part, frames, 1, i) /\ i \in Nat
    <3>1. 1 \in Nat \ {0} /\ i \in Nat /\ i <= Len(frames)
      BY <1>1
    <3> QED
      BY <1>1, <3>1, Piece
  <2>2. IsSeq(part) /\ Len(part) = i /\ \A j \in 1..i : part[j] = frames[j]
    BY <2>1 DEF IsPiece
  <2> HIDE DEF part
  <2>3. Packed(part, to, Mac(n), A, P)
    <3>1. \A j \in 1..Len(part) : j \in 1..L /\ part[j] = frames[j]
      BY <1>1, <2>2
    <3>2. Len(part) \in Nat \ {0}
      BY <1>1, <2>2
    <3> QED
      BY <1>1, <3>1, <3>2 DEF Packed
  <2>4. PICK chain : Aggregate(part, present) = HeadOf(part[1], present) \o chain[i]
                     /\ IsChain(chain, part, present)
    <3>1. Len(part) \in Nat \ {0}
      BY <1>1, <2>2
    <3> QED
      BY <2>2, <3>1, AggregateIs
  <2>5. IsSeq(P[1]) /\ Wraps(part[1], to, Mac(n), A[1], P[1])
    BY <1>1, <2>2, <2>3 DEF Packed
  <2>6. IsSeq(HeadOf(part[1], present))
    BY <2>5, HeadIs
  <2>7. IsSeq(chain[i])
    <3>1. Subframed(part, present) /\ i \in 1..Len(part)
      BY <1>1, <2>2, <2>3, PackedSubframes
    <3> QED
      BY <2>4, <3>1, ChainLinks
  <2>8. IsSeq(Aggregate(part, present))
    BY <2>4, <2>6, <2>7, Joined DEF IsJoin
  <2>9. Len(Aggregate(part, present)) \in Nat
    BY <2>8, Shape
  <2>10. needs[i] = size(i)
    OBVIOUS
  <2> QED
    BY <2>9, <2>10 DEF part
<1>5. IsSeq(needs) /\ Len(needs) = L /\ DOMAIN needs = 1..L
  <2> HIDE DEF size
  <2>1. needs \in [1..L -> {size(i) : i \in 1..L}]
    BY <1>4 DEF size
  <2>2. DOMAIN needs = 1..L /\ needs = [i \in 1..L |-> needs[i]]
    BY <2>1
  <2> HIDE DEF L
  <2>3. IsSeq(needs) /\ Len(needs) = L
    BY <1>1, <2>2, Listed
  <2> QED
    BY <2>2, <2>3
<1>6. size(L) = Len(bytes)
  <2> DEFINE part == SubSeq(frames, 1, L)
  <2>1. IsPiece(part, frames, 1, L)
    <3>1. 1 \in Nat \ {0} /\ L \in Nat /\ L <= Len(frames)
      BY <1>1
    <3> QED
      BY <1>1, <3>1, Piece
  <2>2. IsSeq(part) /\ Len(part) = L /\ \A j \in 1..L : part[j] = frames[j]
    BY <1>1, <2>1 DEF IsPiece
  <2> HIDE DEF part
  <2>3. part = frames
    BY <1>1, <2>2, Same
  <2> QED
    BY <2>3 DEF part, bytes
<1> HIDE DEF size
<1>7. ASSUME NEW i \in 1..L PROVE needs[i] \in 1..Len(bytes)
  <2>1. PICK K \in 0..L : Reach(Len(bytes), K)
    BY <1>2, <1>3
  <2>2. L \in 1..L
    BY <1>1
  <2>3. size(L) <= Len(bytes)
    BY <1>3, <1>6
  <2>4. L <= K
    BY <2>1, <2>2, <2>3
  <2>5. i <= K
    BY <1>1, <2>4
  <2>6. size(i) <= Len(bytes)
    BY <2>1, <2>5
  <2>7. PICK J \in 0..L : Reach(0, J)
    BY <1>2, <1>3
  <2>8. D(0) = <<>>
    <3>1. IsPiece(SubSeq(bytes, 1, 0), bytes, 1, 0)
      BY <1>3, Piece
    <3>2. Len(SubSeq(bytes, 1, 0)) = 0
      BY <3>1 DEF IsPiece
    <3> QED
      BY <3>2, NothingCarriesNothing
  <2>9. J = 0
    <3>1. Len(Packets(to, Mac(n), A, P, J)) = J
      BY PacketsAre
    <3>2. Packets(to, Mac(n), A, P, J) = <<>>
      BY <2>7, <2>8
    <3> QED
      BY <3>1, <3>2, NoneIsList
  <2>10. ~(size(i) <= 0)
    BY <2>7, <2>9
  <2> QED
    BY <1>3, <1>4, <2>6, <2>10
<1>8. ASSUME NEW c \in 0..Len(bytes)
      PROVE  /\ IsList(D(c)) /\ Len(D(c)) = Cardinality(Needing(needs, c))
             /\ \A i \in 1..Len(D(c)) : i \in 1..L /\ TakenFrom(D(c)[i], n, frames[i])
  <2>1. PICK K \in 0..L : Reach(c, K)
    BY <1>2
  <2>2. K \in Nat /\ D(c) = Packets(to, Mac(n), A, P, K)
    BY <1>1, <2>1
  <2> HIDE DEF D
  <2>3. IsSeq(D(c)) /\ Len(D(c)) = K
        /\ \A j \in 1..K : D(c)[j] = Taken(to, Mac(n), A[j], P[j], Len(P[j]))
    BY <2>2, PacketsAre
  <2>4. Needing(needs, c) = 1..K
    <3>1. \A i \in 1..L : needs[i] <= c <=> i <= K
      BY <1>4, <2>1
    <3>2. \A i : i \in 1..K <=> i \in 1..L /\ i <= K
      BY <1>1, <2>1
    <3> QED
      BY <1>5, <3>1, <3>2 DEF Needing
  <2>5. Cardinality(Needing(needs, c)) = K
    BY <2>2, <2>4, FS_Interval
  <2>6. ASSUME NEW i \in 1..K PROVE i \in 1..L /\ TakenFrom(D(c)[i], n, frames[i])
    <3> DEFINE k == No(frames[i])
               s == Packet(n, k, handed[n][k])
    <3>1. i \in 1..L
      BY <1>1, <2>1
    <3>2. k \in Nat /\ Own(n, k, frames[i])
      BY <3>1 DEF Together
    <3>3. P[i] = s /\ Len(s) \in Nat
      BY <3>1, <3>2, PacketIs DEF P, Carried
    <3>4. to = Route(handed[n][k])
      <4>1. frames[i][2] = frames[1][2] /\ No(frames[1]) \in Nat /\ Own(n, No(frames[1]), frames[1])
        <5>1. 1 \in 1..L
          BY <1>1
        <5> QED
          BY <3>1, <5>1 DEF Together
      <4>2. frames[1][2] = Address(to)
        BY <4>1, OwnIs DEF to, Receiver
      <4>3. frames[i][2] = Address(Route(handed[n][k]))
        BY <3>2, OwnIs
      <4> QED
        BY <4>1, <4>2, <4>3 DEF Address
    <3>5. D(c)[i] = Taken(Route(handed[n][k]), Mac(n), A[i], s, Len(s))
      BY <2>3, <3>3, <3>4
    <3>6. Len(s) \in 0..Len(s)
      BY <3>3
    <3> HIDE DEF k
    <3>7. TakenFrom(D(c)[i], n, frames[i])
      BY <3>2, <3>5, <3>6, TakenIs
    <3> QED
      BY <3>1, <3>7
  <2>7. IsList(D(c))
    BY <2>3, ListsAreSeqs
  <2> QED
    BY <2>3, <2>5, <2>6, <2>7
<1>9. UnwrapsByNeed(bytes, needs)
  <2>1. \A i \in DOMAIN needs : needs[i] \in 1..Len(bytes)
    BY <1>5, <1>7
  <2>2. \A c \in 0..Len(bytes) : IsList(D(c)) /\ Len(D(c)) = Cardinality(Needing(needs, c))
    BY <1>8
  <2> QED
    BY <2>1, <2>2 DEF UnwrapsByNeed
<1>10. \A c \in 0..Len(bytes) : \A i \in 1..Len(D(c)) :
         i \in 1..Len(frames) /\ TakenFrom(D(c)[i], n, frames[i])
  BY <1>8
<1>11. MadeOf(n, frames, bytes, needs)
  BY <1>3, <1>5, <1>9, <1>10 DEF MadeOf
<1> QED
  BY <1>11 DEF bytes

(* Whatever shape the radio gives them.                                    *)
LEMMA ShapedIsMadeOf ==
  ASSUME NEW n, NEW frames, Together(n, frames), NEW shape \in Shapes,
         shape \in Alone => Len(frames) = 1
  PROVE  MadeOf(n, frames, Shaped(frames, shape), NeedsOf(frames, shape))
<1>1. CASE shape = "plain"
  <2>1. Shaped(frames, shape) = frames[1] /\ NeedsOf(frames, shape) = <<11>>
    BY <1>1 DEF Shaped, NeedsOf, QOS_HEADER_LEN
  <2>2. Len(frames) = 1
    BY <1>1 DEF Alone
  <2> QED
    BY <2>1, <2>2, PlainIsMadeOf
<1>2. CASE shape = "padded"
  <2>1. Shaped(frames, shape) = Padded(frames[1]) /\ NeedsOf(frames, shape) = <<12>>
    BY <1>2 DEF Shaped, NeedsOf, QOS_HEADER_LEN
  <2>2. Len(frames) = 1
    BY <1>2 DEF Alone
  <2> QED
    BY <2>1, <2>2, PlainIsMadeOf
<1>3. CASE shape \notin Alone
  <2> DEFINE present == shape = "marked"
             needs == NeedsOf(frames, shape)
  <2>1. shape # "plain" /\ shape # "padded"
    BY <1>3 DEF Alone
  <2>2. \A fs : Shaped(fs, shape) = Aggregate(fs, present)
    BY <2>1 DEF Shaped
  <2>3. needs = [i \in 1..Len(frames) |-> Len(Shaped(SubSeq(frames, 1, i), shape))]
    BY <2>1 DEF NeedsOf
  <2> HIDE DEF needs
  <2>4. needs = [i \in 1..Len(frames) |-> Len(Aggregate(SubSeq(frames, 1, i), present))]
    BY <2>2, <2>3
  <2>5. present \in BOOLEAN
    OBVIOUS
  <2> HIDE DEF present
  <2>6. MadeOf(n, frames, Aggregate(frames, present), needs)
    BY <2>4, <2>5, AggregateIsMadeOf
  <2> QED
    BY <2>2, <2>6 DEF needs
<1> QED
  BY <1>1, <1>2, <1>3 DEF Alone

-----------------------------------------------------------------------------
(* What is made by putting pieces behind a beginning.                      *)
IsGrown(f, base, T, N) == f = [n \in 0..N |-> IF n = 0 THEN base ELSE f[n - 1] \o T[n]]

(* A function that grows a sequence step by step exists, and its values    *)
(* are sequences.                                                          *)
LEMMA Grows ==
  ASSUME NEW base, NEW T, NEW N \in Nat
  PROVE  \E f : IsGrown(f, base, T, N)
<1> DEFINE Bad == {m \in 0..N : ~\E f : IsGrown(f, base, T, m)}
<1>10. \A m \in 0..N : m \notin Bad <=> \E f : IsGrown(f, base, T, m)
  BY Zenon
<1>0. Bad \subseteq 0..N
  BY Zenon
<1> HIDE DEF Bad
<1>1. CASE Bad = {}
  BY <1>1, <1>10
<1>2. CASE Bad # {}
  <2>0. Bad \in SUBSET Nat
    BY <1>0
  <2>1. PICK m \in Bad : \A k \in Bad : m <= k
    BY <1>2, <2>0, Least
  <2>2. CASE m = 0
    <3> DEFINE f == [n \in 0..0 |-> base]
    <3>1. ASSUME NEW n \in 0..0 PROVE f[n] = IF n = 0 THEN base ELSE f[n - 1] \o T[n]
      OBVIOUS
    <3>2. IsGrown(f, base, T, 0)
      BY <3>1 DEF IsGrown
    <3> QED
      BY <1>10, <1>0, <2>1, <2>2, <3>2
  <2>3. CASE m # 0
    <3>1. m \in 1..N /\ m - 1 \in 0..N /\ m - 1 \notin Bad
      BY <1>0, <2>1, <2>3
    <3>2. PICK g : IsGrown(g, base, T, m - 1)
      BY <1>10, <3>1
    <3> DEFINE x == g[m - 1] \o T[m]
               f == [n \in 0..m |-> IF n = m THEN x ELSE g[n]]
    <3>3. \A n \in 0..(m - 1) : g[n] = IF n = 0 THEN base ELSE g[n - 1] \o T[n]
      BY <3>2 DEF IsGrown
    <3> HIDE DEF x
    <3>4. ASSUME NEW n \in 0..m
          PROVE  f[n] = IF n = 0 THEN base ELSE f[n - 1] \o T[n]
      <4>1. CASE n = m
        <5>1. f[m - 1] = g[m - 1] /\ f[m] = x
          BY <3>1
        <5> QED
          BY <4>1, <5>1, <2>3 DEF x
      <4>2. CASE n # m /\ n # 0
        <5>1. f[n - 1] = g[n - 1] /\ f[n] = g[n]
          BY <4>2, <3>1
        <5>2. n \in 0..(m - 1)
          BY <4>2, <3>1
        <5> QED
          BY <4>2, <5>1, <5>2, <3>3
      <4>3. CASE n # m /\ n = 0
        BY <4>3, <3>3, <3>1
      <4> QED
        BY <4>1, <4>2, <4>3
    <3>5. IsGrown(f, base, T, m)
      BY <3>4 DEF IsGrown
    <3> QED
      BY <1>10, <3>1, <2>1, <3>5
  <2> QED
    BY <2>2, <2>3
<1> QED
  BY <1>1, <1>2

LEMMA GrownIsSeq ==
  ASSUME NEW f, NEW base, NEW T, NEW N \in Nat, IsGrown(f, base, T, N), IsSeq(base),
         \A n \in 1..N : IsSeq(T[n])
  PROVE  IsSeq(f[N])
<1> DEFINE Bad == {n \in 0..N : ~IsSeq(f[n])}
<1>1. \A n \in 0..N : f[n] = IF n = 0 THEN base ELSE f[n - 1] \o T[n]
  BY DEF IsGrown
<1>2. CASE Bad = {}
  BY <1>2
<1>3. CASE Bad # {}
  <2>1. Bad \in SUBSET Nat
    OBVIOUS
  <2>2. PICK m \in Bad : \A k \in Bad : m <= k
    BY <1>3, <2>1, Least
  <2>3. m \in 0..N /\ ~IsSeq(f[m])
    BY <2>2
  <2>4. m # 0
    <3>1. f[0] = base
      BY <1>1
    <3> QED
      BY <2>3, <3>1
  <2>5. m - 1 \in 0..N /\ m \in 1..N /\ ~(m <= m - 1)
    BY <2>3, <2>4
  <2>6. IsSeq(f[m - 1])
    BY <2>2, <2>5
  <2>7. f[m] = f[m - 1] \o T[m]
    BY <1>1, <2>3, <2>4
  <2>8. IsSeq(T[m])
    BY <2>5
  <2>9. IsSeq(f[m])
    BY <2>6, <2>7, <2>8, Joined DEF IsJoin
  <2> QED
    BY <2>3, <2>9
<1> QED
  BY <1>2, <1>3

(* Sequences put together, and sequences of two, three and five.           *)
LEMMA JoinIsSeq ==
  ASSUME NEW s, IsSeq(s), NEW t, IsSeq(t)
  PROVE  IsSeq(s \o t)
BY Joined DEF IsJoin

LEMMA TwoAreList ==
  ASSUME NEW x, NEW y
  PROVE  IsSeq(<<x, y>>) /\ Len(<<x, y>>) = 2
<1> DEFINE s == <<x, y>>
<1>1. DOMAIN s = 1..2 /\ s = [i \in 1..2 |-> s[i]]
  OBVIOUS
<1> HIDE DEF s
<1>2. IsSeq(s) /\ Len(s) = 2
  BY <1>1, Listed
<1> QED
  BY <1>2 DEF s

LEMMA ThreeAreList ==
  ASSUME NEW x, NEW y, NEW z
  PROVE  /\ IsSeq(<<x, y, z>>) /\ Len(<<x, y, z>>) = 3
         /\ <<x, y, z>>[1] = x /\ <<x, y, z>>[2] = y /\ <<x, y, z>>[3] = z
<1> DEFINE s == <<x, y, z>>
<1>1. DOMAIN s = 1..3 /\ s = [i \in 1..3 |-> s[i]] /\ s[1] = x /\ s[2] = y /\ s[3] = z
  OBVIOUS
<1> HIDE DEF s
<1>2. IsSeq(s) /\ Len(s) = 3
  BY <1>1, Listed
<1> QED
  BY <1>1, <1>2 DEF s

LEMMA FiveAreList ==
  ASSUME NEW u, NEW v, NEW x, NEW y, NEW z
  PROVE  /\ IsSeq(<<u, v, x, y, z>>) /\ Len(<<u, v, x, y, z>>) = 5
         /\ <<u, v, x, y, z>>[1] = u /\ <<u, v, x, y, z>>[2] = v /\ <<u, v, x, y, z>>[3] = x
         /\ <<u, v, x, y, z>>[4] = y /\ <<u, v, x, y, z>>[5] = z
<1> DEFINE s == <<u, v, x, y, z>>
<1>1. /\ DOMAIN s = 1..5 /\ s = [i \in 1..5 |-> s[i]]
      /\ s[1] = u /\ s[2] = v /\ s[3] = x /\ s[4] = y /\ s[5] = z
  OBVIOUS
<1> HIDE DEF s
<1>2. IsSeq(s) /\ Len(s) = 5
  BY <1>1, Listed
<1> QED
  BY <1>1, <1>2 DEF s

-----------------------------------------------------------------------------
(* What a beacon's tags are written as.                                    *)
LEMMA SequenceIsWritten ==
  ASSUME NEW s, IsFiniteSet(DOMAIN s.channels)
  PROVE  IsSeq(SequenceEncode(s))
<1> DEFINE n == Cardinality(DOMAIN s.channels)
           x == <<"count", n - 1, s.encoding>>
           t == [i \in 1..n |-> IF s.encoding = "Legacy"
                       THEN <<"slot", s.qualifiers[i - 1], s.channels[i - 1]>>
                       ELSE <<"slot", s.channels[i - 1], s.qualifiers[i - 1]>>]
<1>1. n \in Nat
  BY FS_CardinalityType
<1>2. SequenceEncode(s) = <<x>> \o t
  BY DEF SequenceEncode
<1> HIDE DEF n
<1>3. DOMAIN t = 1..n /\ t = [i \in 1..n |-> t[i]]
  OBVIOUS
<1> HIDE DEF t, x
<1>4. IsSeq(t)
  BY <1>1, <1>3, Listed
<1>5. IsSeq(<<x>>)
  BY OneIsList
<1> QED
  BY <1>2, <1>4, <1>5, JoinIsSeq

(* What a beacon writes for each of its tags is a sequence of symbols:     *)
(* the schedule, the data path, a name, a container, a block.              *)
LEMMA ScheduleIsFinite ==
  ASSUME NEW config
  PROVE  DOMAIN schedule(config) = Slot /\ IsFiniteSet(Slot)
<1>1. DOMAIN schedule(config) = Slot
  BY DEF schedule, Single, AppleShaped, Widened
<1>2. IsFiniteSet(Slot)
  BY 0 \in Int, 15 \in Int, FS_Interval, Zenon DEF Slot
<1> QED
  BY <1>1, <1>2

LEMMA OpClassIsWritten ==
  ASSUME NEW config
  PROVE  IsSeq(SequenceEncode(OpClassSequence(schedule(config))))
<1>1. OpClassSequence(schedule(config)).channels = schedule(config)
  BY DEF OpClassSequence
<1>2. IsFiniteSet(DOMAIN OpClassSequence(schedule(config)).channels)
  BY <1>1, ScheduleIsFinite
<1> QED
  BY <1>2, SequenceIsWritten

LEMMA DataPathIsWritten ==
  ASSUME NEW d
  PROVE  IsSeq(DataPathEncode(d))
<1> DEFINE at == {i \in DOMAIN FieldOrder : FieldOrder[i] \in DOMAIN d}
           N == Cardinality(at)
           p == Present(DOMAIN d)
           n == Len(p)
           x == <<"flags", DOMAIN d>>
           t == [i \in 1..n |-> <<"field", d[p[i]]>>]
<1>1. IsFiniteSet(at)
  <2>1. DOMAIN FieldOrder = 1..8
    BY DEF FieldOrder
  <2>2. IsFiniteSet(1..8)
    BY 1 \in Int, 8 \in Int, FS_Interval
  <2>3. at \in SUBSET (1..8)
    BY <2>1
  <2> QED
    BY <2>2, <2>3, FS_Subset
<1>2. N \in Nat
  BY <1>1, FS_CardinalityType
<1>3. DOMAIN p = 1..N /\ p = [i \in 1..N |-> p[i]]
  <2>1. p = [j \in 1..N |->
               FieldOrder[CHOOSE i \in at : Cardinality({k \in at : k <= i}) = j]]
    BY DEF Present
  <2> HIDE DEF N, at
  <2> DEFINE q == [j \in 1..N |->
               FieldOrder[CHOOSE i \in at : Cardinality({k \in at : k <= i}) = j]]
  <2>2. DOMAIN q = 1..N /\ q = [i \in 1..N |-> q[i]]
    OBVIOUS
  <2>3. p = q
    BY <2>1
  <2> HIDE DEF p, q
  <2> QED
    BY <2>2, <2>3
<1>4. n = N
  <2> HIDE DEF p, N
  <2> QED
    BY <1>2, <1>3, Listed
<1>5. DataPathEncode(d) = <<x>> \o t
  BY DEF DataPathEncode
<1> HIDE DEF p, N, n
<1>6. DOMAIN t = 1..n /\ t = [i \in 1..n |-> t[i]]
  OBVIOUS
<1> HIDE DEF t, x
<1>7. IsSeq(t)
  BY <1>2, <1>4, <1>6, Listed
<1>8. IsSeq(<<x>>)
  BY OneIsList
<1> QED
  BY <1>5, <1>7, <1>8, JoinIsSeq

LEMMA NameIsWritten ==
  ASSUME NEW name, Len(name) \in Nat
  PROVE  IsSeq(encode_name(name)) /\ Len(encode_name(name)) \in Nat
<1> DEFINE covered == {k \in 0..(Len(name) - 1) : From(name, k) \in Dictionary}
           k == IF covered = {} THEN Len(name) ELSE CHOOSE i \in covered : \A j \in covered : i <= j
           t == [i \in 1..k |-> <<"label", name[i]>>]
           x == <<"code", From(name, k)>>
<1>1. k \in Nat
  <2>1. covered \in SUBSET Nat
    OBVIOUS
  <2> HIDE DEF covered
  <2>2. covered # {} => \E i \in covered : \A j \in covered : i <= j
    BY <2>1, Least
  <2> QED
    BY <2>1, <2>2
<1>2. encode_name(name) = t \o <<x>>
  BY DEF encode_name
<1> HIDE DEF k
<1>3. DOMAIN t = 1..k /\ t = [i \in 1..k |-> t[i]]
  OBVIOUS
<1> HIDE DEF t, x
<1>4. IsSeq(t)
  BY <1>1, <1>3, Listed
<1>5. IsSeq(<<x>>)
  BY OneIsList
<1>6. IsSeq(encode_name(name))
  BY <1>2, <1>4, <1>5, JoinIsSeq
<1> QED
  BY <1>6, Shape

LEMMA ContainerIsWritten ==
  ASSUME NEW elements, Len(elements) \in Nat
  PROVE  IsSeq(ContainerEncode(elements))
<1> DEFINE N == Len(elements)
           T == [n \in 1..N |-> <<<<"element", elements[n].id, 1>>, <<"body", elements[n].body>>>>]
           out[n \in 0..Len(elements)] ==
             IF n = 0 THEN <<>>
             ELSE out[n - 1] \o <<<<"element", elements[n].id, 1>>, <<"body", elements[n].body>>>>
<1>1. PICK f : IsGrown(f, <<>>, T, N)
  BY Grows
<1>2. f = [n \in 0..N |-> IF n = 0 THEN <<>> ELSE f[n - 1] \o T[n]]
  BY <1>1 DEF IsGrown
<1>3. f = [n \in 0..N |-> IF n = 0 THEN <<>> ELSE
             f[n - 1] \o <<<<"element", elements[n].id, 1>>, <<"body", elements[n].body>>>>]
  BY <1>2
<1>4. out = [n \in 0..N |-> IF n = 0 THEN <<>> ELSE
             out[n - 1] \o <<<<"element", elements[n].id, 1>>, <<"body", elements[n].body>>>>]
  BY <1>3
<1>5. ContainerEncode(elements) = out[N]
  BY DEF ContainerEncode
<1>6. \A n \in 1..N : IsSeq(T[n])
  BY TwoAreList
<1> HIDE DEF out
<1>7. IsGrown(out, <<>>, T, N)
  <2>1. \A n \in 0..N : n # 0 =>
           T[n] = <<<<"element", elements[n].id, 1>>, <<"body", elements[n].body>>>>
    OBVIOUS
  <2> HIDE DEF T
  <2>2. out = [n \in 0..N |-> IF n = 0 THEN <<>> ELSE out[n - 1] \o T[n]]
    BY <1>4, <2>1
  <2> QED
    BY <2>2 DEF IsGrown
<1> HIDE DEF T
<1>8. IsSeq(out[N])
  BY <1>6, <1>7, NoneIsList, GrownIsSeq
<1> QED
  BY <1>5, <1>8

-----------------------------------------------------------------------------
(* The tags of a beacon: the first is tag 4, and no other is.              *)
IsWritten(x) == IsSeq(Encode(x[1], x[2]))
Others(t) == IsSeq(t) /\ \A i \in 1..Len(t) : IsWritten(t[i]) /\ t[i][1] # 4
LedBy(t, s) ==
  /\ IsSeq(t) /\ Len(t) >= 1 /\ t[1] = <<4, s>>
  /\ \A i \in 1..Len(t) : IsWritten(t[i])
  /\ \A i \in 2..Len(t) : t[i][1] # 4

(* A list of tags led by the sync parameters, with others behind it.       *)
LEMMA LedJoins ==
  ASSUME NEW t, NEW s, LedBy(t, s), NEW u, Others(u)
  PROVE  LedBy(t \o u, s)
<1> DEFINE r == t \o u
<1>1. IsSeq(t) /\ IsSeq(u) /\ Len(t) \in Nat /\ Len(u) \in Nat /\ Len(t) >= 1
  BY Shape DEF LedBy, Others
<1>2. IsJoin(r, t, u)
  BY <1>1, Joined
<1> HIDE DEF r
<1>3. IsSeq(r) /\ Len(r) = Len(t) + Len(u)
  BY <1>2 DEF IsJoin
<1>4. ASSUME NEW i \in 1..Len(r)
      PROVE  IsWritten(r[i]) /\ (i # 1 => r[i][1] # 4) /\ (i = 1 => r[i] = <<4, s>>)
  <2>1. CASE i <= Len(t)
    <3>1. i \in 1..Len(t) /\ (i # 1 => i \in 2..Len(t))
      BY <1>1, <1>3, <2>1
    <3>2. r[i] = t[i]
      BY <1>2, <3>1 DEF IsJoin
    <3> QED
      BY <3>1, <3>2 DEF LedBy
  <2>2. CASE ~(i <= Len(t))
    <3>1. i - Len(t) \in 1..Len(u) /\ i = Len(t) + (i - Len(t)) /\ i # 1
      BY <1>1, <1>3, <2>2
    <3>2. r[i] = u[i - Len(t)]
      BY <1>2, <3>1 DEF IsJoin
    <3> QED
      BY <3>1, <3>2 DEF Others
  <2> QED
    BY <2>1, <2>2
<1>5. Len(r) >= 1 /\ 1 \in 1..Len(r) /\ \A i \in 2..Len(r) : i \in 1..Len(r) /\ i # 1
  BY <1>1, <1>3
<1> QED
  BY <1>3, <1>4, <1>5 DEF LedBy, r

LEMMA BlockIsWritten ==
  ASSUME NEW tag \in {5, 6, 7, 24}, NEW s
  PROVE  IsWritten(<<tag, s>>)
<1>1. Encode(tag, s) = Block(s)
  BY DEF Encode
<1>2. IsSeq(Block(s))
  BY OneIsList DEF Block
<1> QED
  BY <1>1, <1>2 DEF IsWritten

LEMMA SyncIsWritten ==
  ASSUME NEW b, NEW instant
  PROVE  IsWritten(<<4, sync(b, instant)>>)
<1> DEFINE s == sync(b, instant)
<1>1. s.channel_sequence = OpClassSequence(schedule(b.config))
  BY DEF sync
<1> HIDE DEF s
<1>2. IsSeq(SequenceEncode(s.channel_sequence))
  BY <1>1, OpClassIsWritten
<1>3. IsSeq(Block(s.fixed)) /\ IsSeq(<<<<"trailing", 0>>>>)
  BY OneIsList DEF Block
<1>4. IsSeq(SyncEncode(s))
  BY <1>2, <1>3, JoinIsSeq DEF SyncEncode
<1>5. Encode(4, s) = SyncEncode(s)
  BY DEF Encode
<1> QED
  BY <1>4, <1>5 DEF IsWritten, s

(* The tags of a beacon start with its sync parameters, and no other tag   *)
(* has their number (beacon.rs, state_tlvs and mif_tlvs).                  *)
LEMMA TlvsAreWritten ==
  ASSUME NEW b, NEW subtype, NEW instant
  PROVE  LedBy(TlvsOf(b, subtype, instant), sync(b, instant))
<1> DEFINE s == sync(b, instant)
           x == <<5, election(b)>>
           y == <<18, OpClassSequence(schedule(b.config))>>
           t == <<<<4, s>>, x, y>>
           e24 == <<24, election_v2(b, instant)>>
           u == IF b.config.no_t24 THEN <<>> ELSE <<e24>>
           e12 == <<12, data_path(b)>>
           e7 == <<7, "ht">>
           e6 == <<6, SERVICE_PARAMS_AIRDROP>>
           e17 == <<17, <<[id |-> "vht capabilities", body |-> "vht"]>>>>
           e21 == <<21, [major |-> 3, minor |-> 4, device_class |-> 2]>>
           v == <<e12, e7, e6, e17, e21>>
           e16 == <<16, [flags |-> 3, name |-> <<"host", "local">>]>>
           e2 == <<2, [name |-> <<"_airdrop", "_tcp", "local">>,
                       target |-> <<"instance", "_airdrop", "_tcp", "local">>]>>
           w == <<e16, e2>>
<1>1. state_tlvs(b, instant) = (t \o u) \o v
  BY DEF state_tlvs
<1>2. mif_tlvs(b, instant) = state_tlvs(b, instant) \o w
  BY DEF mif_tlvs
<1>3. IsWritten(<<4, s>>) /\ IsWritten(x) /\ x[1] # 4
  BY SyncIsWritten, BlockIsWritten
<1>4. IsWritten(y) /\ y[1] # 4
  <2> DEFINE q == OpClassSequence(schedule(b.config))
  <2>1. IsSeq(SequenceEncode(q))
    BY OpClassIsWritten
  <2> HIDE DEF q
  <2>2. IsSeq(<<<<"trailing", 0, 0>>>>)
    BY OneIsList
  <2>3. Encode(18, q) = SequenceEncode(q) \o <<<<"trailing", 0, 0>>>>
    BY DEF Encode, encode_tag18
  <2>4. IsSeq(Encode(18, q))
    BY <2>1, <2>2, <2>3, JoinIsSeq
  <2> QED
    BY <2>4 DEF IsWritten, q
<1>5. IsWritten(e24) /\ e24[1] # 4 /\ IsWritten(e7) /\ e7[1] # 4 /\ IsWritten(e6) /\ e6[1] # 4
  BY BlockIsWritten
<1>6. IsWritten(e12) /\ e12[1] # 4
  <2>1. Encode(12, data_path(b)) = DataPathEncode(data_path(b))
    BY DEF Encode
  <2> QED
    BY <2>1, DataPathIsWritten DEF IsWritten
<1>7. IsWritten(e17) /\ e17[1] # 4
  <2> DEFINE q == <<[id |-> "vht capabilities", body |-> "vht"]>>
  <2>1. Encode(17, q) = ContainerEncode(q)
    BY DEF Encode
  <2>2. Len(q) \in Nat
    BY OneIsList
  <2>4. e17 = <<17, q>>
    BY DEF q
  <2> HIDE DEF q
  <2>3. IsSeq(Encode(17, q))
    BY <2>1, <2>2, ContainerIsWritten
  <2>5. <<17, q>>[1] = 17 /\ <<17, q>>[2] = q
    OBVIOUS
  <2>6. IsWritten(<<17, q>>)
    BY <2>3, <2>5 DEF IsWritten
  <2> HIDE DEF e17
  <2>7. e17[1] = 17
    BY <2>4, <2>5
  <2> QED
    BY <2>4, <2>6, <2>7
<1>8. IsWritten(e21) /\ e21[1] # 4
  <2> DEFINE q == [major |-> 3, minor |-> 4, device_class |-> 2]
  <2>1. Encode(21, q) = VersionEncode(q)
    BY DEF Encode
  <2>2. IsSeq(VersionEncode(q))
    BY OneIsList DEF VersionEncode
  <2> HIDE DEF q
  <2> QED
    BY <2>1, <2>2 DEF IsWritten, q
<1>9. IsWritten(e16) /\ e16[1] # 4
  <2> DEFINE q == [flags |-> 3, name |-> <<"host", "local">>]
  <2>1. Encode(16, q) = ArpaEncode(q)
    BY DEF Encode
  <2>2. Len(q.name) \in Nat
    BY TwoAreList
  <2> HIDE DEF q
  <2>3. IsSeq(encode_name(q.name)) /\ IsSeq(<<<<"flags", q.flags>>>>)
    BY <2>2, NameIsWritten, OneIsList
  <2>4. IsSeq(ArpaEncode(q))
    BY <2>3, JoinIsSeq DEF ArpaEncode
  <2> QED
    BY <2>1, <2>4 DEF IsWritten, q
<1>10. IsWritten(e2) /\ e2[1] # 4
  <2> DEFINE q == [name |-> <<"_airdrop", "_tcp", "local">>,
                   target |-> <<"instance", "_airdrop", "_tcp", "local">>]
             n == encode_name(q.name)
             g == encode_name(q.target)
             h == <<Length(Len(n) + 1)>>
             m == <<<<"type", "PTR">>, Length(Len(g)), Filler>>
  <2>1. Encode(2, q) = RecordEncode(q)
    BY DEF Encode
  <2>2. RecordEncode(q) = ((h \o n) \o m) \o g
    BY DEF RecordEncode
  <2>3. Len(q.name) \in Nat /\ Len(q.target) \in Nat
    OBVIOUS
  <2> HIDE DEF q
  <2>4. IsSeq(n) /\ IsSeq(g)
    BY <2>3, NameIsWritten
  <2>5. IsSeq(h) /\ IsSeq(m)
    BY OneIsList, ThreeAreList
  <2> HIDE DEF n, g, h, m
  <2>6. IsSeq((h \o n) \o m)
    BY <2>4, <2>5, JoinIsSeq
  <2>7. IsSeq(RecordEncode(q))
    BY <2>2, <2>4, <2>6, JoinIsSeq
  <2> QED
    BY <2>1, <2>7 DEF IsWritten, q
<1> HIDE DEF s, x, y, e24, e12, e7, e6, e17, e21, e16, e2
<1>11. LedBy(t, s)
  <2>1. /\ IsSeq(t) /\ Len(t) = 3 /\ t[1] = <<4, s>> /\ t[2] = x /\ t[3] = y
    BY ThreeAreList
  <2> HIDE DEF t
  <2>2. \A i \in 1..Len(t) : i = 1 \/ i = 2 \/ i = 3
    BY <2>1
  <2>3. \A i \in 2..Len(t) : i = 2 \/ i = 3
    BY <2>1
  <2>4. \A i \in 1..Len(t) : IsWritten(t[i])
    BY <1>3, <1>4, <2>1, <2>2
  <2>5. \A i \in 2..Len(t) : t[i][1] # 4
    BY <1>3, <1>4, <2>1, <2>3
  <2> QED
    BY <2>1, <2>4, <2>5 DEF LedBy
<1>12. Others(u)
  <2>1. CASE b.config.no_t24
    <3>1. u = <<>>
      BY <2>1
    <3>2. IsSeq(u) /\ \A i \in 1..Len(u) : FALSE
      BY <3>1, NoneIsList
    <3> QED
      BY <3>2 DEF Others
  <2>2. CASE ~b.config.no_t24
    <3>1. u = <<e24>>
      BY <2>2
    <3>2. IsSeq(u) /\ \A i \in 1..Len(u) : u[i] = e24
      BY <3>1, OneIsList
    <3> QED
      BY <1>5, <3>2 DEF Others
  <2> QED
    BY <2>1, <2>2
<1>13. Others(v)
  <2>1. IsSeq(v) /\ Len(v) = 5 /\ v[1] = e12 /\ v[2] = e7 /\ v[3] = e6 /\ v[4] = e17 /\ v[5] = e21
    BY FiveAreList
  <2> HIDE DEF v
  <2>2. \A i \in 1..Len(v) : i = 1 \/ i = 2 \/ i = 3 \/ i = 4 \/ i = 5
    BY <2>1
  <2>3. \A i \in 1..Len(v) : IsWritten(v[i]) /\ v[i][1] # 4
    BY <1>5, <1>6, <1>7, <1>8, <2>1, <2>2
  <2> QED
    BY <2>1, <2>3 DEF Others
<1>14. Others(w)
  <2>1. IsSeq(w) /\ Len(w) = 2 /\ w[1] = e16 /\ w[2] = e2
    BY TwoAreList
  <2> HIDE DEF w
  <2>2. \A i \in 1..Len(w) : i = 1 \/ i = 2
    BY <2>1
  <2>3. \A i \in 1..Len(w) : IsWritten(w[i]) /\ w[i][1] # 4
    BY <1>9, <1>10, <2>1, <2>2
  <2> QED
    BY <2>1, <2>3 DEF Others
<1> HIDE DEF t, u, v, w
<1>15. LedBy(state_tlvs(b, instant), s)
  <2>1. LedBy(t \o u, s)
    BY <1>11, <1>12, LedJoins
  <2> QED
    BY <1>1, <1>13, <2>1, LedJoins
<1>16. LedBy(mif_tlvs(b, instant), s)
  BY <1>2, <1>14, <1>15, LedJoins
<1> QED
  BY <1>15, <1>16 DEF TlvsOf, s

LEMMA TagIsSeq ==
  ASSUME NEW tag, NEW value, IsSeq(value)
  PROVE  IsSeq(Tag(tag, value))
<1>1. IsSeq(<<<<"tlv", tag, Len(value)>>>>)
  BY OneIsList
<1> QED
  BY <1>1, JoinIsSeq DEF Tag

(* The body of a beacon is a sequence of symbols.                          *)
LEMMA BodyIsSeq ==
  ASSUME NEW header, NEW tlvs, NEW s, LedBy(tlvs, s)
  PROVE  IsSeq(encode_body(header, tlvs))
<1> DEFINE N == Len(tlvs)
           T == [n \in 1..N |-> Tag(tlvs[n][1], Encode(tlvs[n][1], tlvs[n][2]))]
           body[n \in 0..Len(tlvs)] ==
             IF n = 0 THEN <<header>>
             ELSE body[n - 1] \o Tag(tlvs[n][1], Encode(tlvs[n][1], tlvs[n][2]))
<1>0. N \in Nat /\ IsSeq(<<header>>)
  BY Shape, OneIsList DEF LedBy
<1>1. PICK f : IsGrown(f, <<header>>, T, N)
  BY <1>0, Grows
<1>2. f = [n \in 0..N |-> IF n = 0 THEN <<header>> ELSE f[n - 1] \o T[n]]
  BY <1>1 DEF IsGrown
<1>20. \A n \in 0..N : n # 0 => T[n] = Tag(tlvs[n][1], Encode(tlvs[n][1], tlvs[n][2]))
  BY <1>0
<1>21. \A n \in 1..N : T[n] = Tag(tlvs[n][1], Encode(tlvs[n][1], tlvs[n][2]))
  OBVIOUS
<1> HIDE DEF T
<1>3. f = [n \in 0..N |-> IF n = 0 THEN <<header>>
                          ELSE f[n - 1] \o Tag(tlvs[n][1], Encode(tlvs[n][1], tlvs[n][2]))]
  BY <1>2, <1>20
<1>4. body = [n \in 0..N |-> IF n = 0 THEN <<header>>
                          ELSE body[n - 1] \o Tag(tlvs[n][1], Encode(tlvs[n][1], tlvs[n][2]))]
  BY <1>3
<1>5. encode_body(header, tlvs) = body[N]
  BY DEF encode_body
<1> HIDE DEF body
<1>6. body = [n \in 0..N |-> IF n = 0 THEN <<header>> ELSE body[n - 1] \o T[n]]
  BY <1>4, <1>20
<1>7. IsGrown(body, <<header>>, T, N)
  BY <1>6 DEF IsGrown
<1>8. ASSUME NEW n \in 1..N PROVE IsSeq(T[n])
  <2>1. IsSeq(Encode(tlvs[n][1], tlvs[n][2]))
    BY DEF LedBy, IsWritten
  <2> QED
    BY <1>21, <2>1, TagIsSeq
<1> HIDE DEF N
<1>9. IsSeq(body[N])
  BY <1>0, <1>7, <1>8, GrownIsSeq
<1> QED
  BY <1>5, <1>9

(* A management frame carries no packet.                                   *)
Silent(bytes) == IsSeq(bytes) /\ Len(bytes) >= 1 /\ bytes[1] = FC_ACTION

(* One that is no AWDL frame tells a session nothing either.               *)
Mute(bytes) == Silent(bytes) /\ ~IsAwdl(bytes)

(* Beacons, requests and answers are management frames: silent.            *)
LEMMA ManagementIsSilent ==
  ASSUME NEW peer, NEW us, NEW seq, NEW rest, IsSeq(rest)
  PROVE  Silent(MgmtHeader(peer, us, seq) \o rest)
<1> DEFINE h == MgmtHeader(peer, us, seq)
           r == h \o rest
<1>1. IsSeq(h) /\ Len(h) = 5 /\ h[1] = FC_ACTION
  BY FiveAreList DEF MgmtHeader
<1> HIDE DEF h
<1>2. IsJoin(r, h, rest) /\ Len(rest) \in Nat
  BY <1>1, Joined, Shape
<1> HIDE DEF r
<1>3. IsSeq(r) /\ Len(r) = 5 + Len(rest) /\ r[1] = h[1]
  BY <1>1, <1>2 DEF IsJoin
<1> QED
  BY <1>1, <1>2, <1>3 DEF Silent, r, h

LEMMA BeaconIsSilent ==
  ASSUME NEW b, NEW subtype, NEW instant
  PROVE  Silent(Frame(b, subtype, instant))
<1> DEFINE body == encode_body(Fixed(subtype, instant + Latency, instant), TlvsOf(b, subtype, instant))
<1>1. IsSeq(body)
  BY TlvsAreWritten, BodyIsSeq
<1>2. Frame(b, subtype, instant) = MgmtHeader(BROADCAST, b.addr, b.sent) \o body
  BY DEF Frame, management_header
<1> HIDE DEF body
<1> QED
  BY <1>1, <1>2, ManagementIsSilent

(* Requests and answers are mute: another category.                        *)
LEMMA RequestIsMute ==
  ASSUME NEW peer, NEW us, NEW seq, NEW dialog, NEW tid, NEW ssn, NEW size
  PROVE  Mute(addba_request(peer, us, seq, dialog, tid, ssn, size))
<1> DEFINE rest == <<<<"action", CATEGORY_BLOCK_ACK, ACTION_ADDBA_REQUEST>>,
         <<"agreement", [dialog_token |-> dialog, tid |-> tid % 16,
                         buffer_size |-> size % 1024, immediate |-> TRUE]>>,
         <<"start", ssn % SeqMod>>>>
           header == MgmtHeader(peer, us, seq)
           f == header \o rest
<1>1. IsSeq(rest) /\ Len(rest) = 3 /\ rest[1][1] = "action"
  BY ThreeAreList
<1>2. addba_request(peer, us, seq, dialog, tid, ssn, size) = f
  BY DEF addba_request
<1> HIDE DEF rest
<1>3. Silent(f)
  BY <1>1, ManagementIsSilent
<1>4. IsSeq(header) /\ Len(header) = 5
  BY FiveAreList DEF MgmtHeader
<1> HIDE DEF header
<1>5. IsJoin(f, header, rest)
  BY <1>1, <1>4, Joined
<1> HIDE DEF f
<1>6. f[5 + 1] = rest[1]
  BY <1>1, <1>4, <1>5 DEF IsJoin
<1>7. ~IsAwdl(f)
  BY <1>1, <1>6 DEF IsAwdl, MGMT_HEADER_LEN
<1> QED
  BY <1>2, <1>3, <1>7 DEF Mute

LEMMA AnswerIsMute ==
  ASSUME NEW request, NEW from
  PROVE  Mute(Answered(request, from))
<1> DEFINE s == Answered(request, from)
<1>1. DOMAIN s = 1..8 /\ s = [i \in 1..8 |-> s[i]] /\ s[1] = FC_ACTION /\ s[6][1] = "action"
  BY DEF Answered
<1> HIDE DEF s
<1>2. IsSeq(s) /\ Len(s) = 8
  BY <1>1, Listed
<1>3. ~IsAwdl(s)
  BY <1>1 DEF IsAwdl, MGMT_HEADER_LEN
<1> QED
  BY <1>1, <1>2, <1>3 DEF Mute, Silent, s

(* A silent frame is no data, and no packet is taken from any of it.       *)
LEMMA SilentIsNoData ==
  ASSUME NEW bytes, Silent(bytes)
  PROVE  ~IsData(bytes)
<1>1. bytes[1] = FC_ACTION /\ None \notin Nat
  BY ExchangeAssumption DEF Silent
<1>2. FC_ACTION[3] = 0
  BY DEF FC_ACTION, Fc
<1> QED
  BY <1>1, <1>2 DEF IsData, TypeOf

(* Nor does any start of it.                                               *)
LEMMA SilentUnwraps ==
  ASSUME NEW bytes, Silent(bytes) \/ bytes = <<>>
  PROVE  /\ IsSeq(bytes) /\ UnwrapsByNeed(bytes, <<>>)
         /\ \A c \in 0..Len(bytes) : Len(decapsulate_all(SubSeq(bytes, 1, c))) = 0
<1>1. IsSeq(bytes) /\ Len(bytes) \in Nat
  BY NoneIsList, Shape DEF Silent
<1>2. None \notin Nat
  BY ExchangeAssumption
<1>3. ASSUME NEW c \in 0..Len(bytes) PROVE decapsulate_all(SubSeq(bytes, 1, c)) = <<>>
  <2> DEFINE b == SubSeq(bytes, 1, c)
  <2>1. IsPiece(b, bytes, 1, c) /\ c \in Nat
    BY <1>1, Piece
  <2>2. Len(b) = c /\ \A i \in 1..c : b[i] = bytes[i]
    BY <2>1 DEF IsPiece
  <2> HIDE DEF b
  <2>3. CASE c = 0
    BY <2>2, <2>3, NothingCarriesNothing DEF b
  <2>4. CASE c # 0
    <3>1. 1 \in 1..c /\ bytes # <<>>
      BY <1>1, <2>1, <2>4, NoneIsList
    <3>2. b[1] = FC_ACTION
      BY <2>2, <3>1 DEF Silent
    <3>3. FC_ACTION[3] = 0
      BY DEF FC_ACTION, Fc
    <3>4. ~IsData(b)
      BY <1>2, <3>2, <3>3 DEF IsData, TypeOf
    <3> QED
      BY <3>4 DEF decapsulate_all, b
  <2> QED
    BY <2>3, <2>4
<1>4. ASSUME NEW c \in 0..Len(bytes)
      PROVE  LET packets == decapsulate_all(SubSeq(bytes, 1, c)) IN
             IsList(packets) /\ Len(packets) = Cardinality(Needing(<<>>, c)) /\ Len(packets) = 0
  <2>1. Needing(<<>>, c) = {}
    BY DEF Needing
  <2>2. Cardinality(Needing(<<>>, c)) = 0
    BY <2>1, FS_EmptySet
  <2>3. IsList(<<>>) /\ Len(<<>>) = 0
    BY NoneIsList, ListsAreSeqs
  <2> QED
    BY <1>3, <2>2, <2>3
<1>5. \A i \in DOMAIN <<>> : FALSE
  OBVIOUS
<1> QED
  BY <1>1, <1>4, <1>5 DEF UnwrapsByNeed

-----------------------------------------------------------------------------
(* The sending side of one kernel: what it handed over, and its numbers.   *)
HandedIs(h, s) ==
  /\ IsSeq(h)
  /\ \A k \in 1..Len(h) : h[k] \in Destinations /\ Route(h[k]) # None
  /\ s = [d11 |-> (Earlier + Len(h)) % SeqMod, awdl |-> (Earlier + Len(h)) % AwdlMod]

(* Its queue holds the last packets handed over, under their numbers.      *)
QueueIs(n, h, q) ==
  /\ IsSeq(q) /\ Len(q) <= QueueMax /\ Len(q) <= Len(h)
  /\ \A i \in 1..Len(q) : OwnIn(h, n, (Len(h) - Len(q)) + i, q[i])

(* The radio holds earlier packets, the d drained, in order, and requests. *)
IsSent(h, n, d, f) ==
  IF IsData(f) THEN No(f) \in 1..d /\ OwnIn(h, n, No(f), f) ELSE Mute(f)
NotAfter(f, g) == IsData(f) /\ IsData(g) => No(f) <= No(g)
RadioIs(n, h, d, r) ==
  /\ IsSeq(r) /\ Len(r) <= RadioMax
  /\ \A i \in 1..Len(r) : IsSent(h, n, d, r[i])
  /\ \A i \in 1..Len(r) : \A j \in i..Len(r) : NotAfter(r[i], r[j])

(* None of them is older than the frames behind it and the faults allow.   *)
Recent(d, r, slack) ==
  \A i \in 1..Len(r) : IsData(r[i]) => d - No(r[i]) <= (Len(r) - i) + slack

(* Counting on from a remainder.                                           *)
LEMMA NextIs ==
  ASSUME NEW x \in Nat, NEW m \in Nat \ {0}
  PROVE  ((x % m) + 1) % m = (x + 1) % m
<1>1. (x + 1) % m = ((x % m) + 1) % m
  <2> DEFINE q == x \div m
             r == x % m
  <2>1. q \in Nat /\ r \in 0..(m - 1) /\ x = (m * q) + r
    OBVIOUS
  <2> HIDE DEF q, r
  <2>2. CASE r + 1 < m
    <3>1. x + 1 = (m * q) + (r + 1)
      BY <2>1
    <3>2. (x + 1) % m = r + 1 /\ (r + 1) % m = r + 1
      BY <2>1, <2>2, <3>1
    <3> QED
      BY <3>2 DEF r
  <2>3. CASE ~(r + 1 < m)
    <3>1. r + 1 = m
      BY <2>1, <2>3
    <3>2. x + 1 = (m * (q + 1)) + 0
      BY <2>1, <3>1
    <3>3. (x + 1) % m = 0 /\ (r + 1) % m = 0
      BY <2>1, <3>1, <3>2
    <3> QED
      BY <3>3 DEF r
  <2> QED
    BY <2>2, <2>3
<1> QED
  BY <1>1

(* A frame stays a frame of its packet when more are handed over.          *)
LEMMA OwnGrows ==
  ASSUME NEW n, NEW h, IsSeq(h), NEW dst, NEW k, NEW f, OwnIn(h, n, k, f)
  PROVE  OwnIn(Append(h, dst), n, k, f)
<1> DEFINE g == Append(h, dst)
<1>1. Len(h) \in Nat /\ Len(g) = Len(h) + 1 /\ \A i \in 1..Len(h) : g[i] = h[i]
  BY Appended, Shape
<1> HIDE DEF g
<1>2. k \in 1..Len(h) /\ k \in 1..Len(g) /\ g[k] = h[k]
  BY <1>1 DEF OwnIn
<1>3. OwnIn(g, n, k, f)
  BY <1>2 DEF OwnIn
<1> QED
  BY <1>3 DEF g

(* enqueue_from_tun.                                                       *)
LEMMA ReadKeeps ==
  ASSUME NEW n, NEW h, NEW s, HandedIs(h, s), NEW q, QueueIs(n, h, q), Len(q) < QueueMax,
         NEW dst \in Destinations, Route(dst) # None
  PROVE  /\ HandedIs(Append(h, dst), NextSeqs(s))
         /\ QueueIs(n, Append(h, dst),
              Append(q, FrameOf(Mac(n), Route(dst), s.d11, s.awdl, Packet(n, Len(h) + 1, dst))))
<1> DEFINE g == Append(h, dst)
           p == Packet(n, Len(h) + 1, dst)
           f == FrameOf(Mac(n), Route(dst), s.d11, s.awdl, p)
           r == Append(q, f)
           H == Len(h)
<1>0. H \in Nat /\ IsSeq(h) /\ Earlier \in Nat /\ SeqMod \in Nat \ {0} /\ AwdlMod \in Nat \ {0} /\ QueueMax \in Nat
  BY Shape, ExchangeAssumption DEF HandedIs
<1>1. IsSeq(g) /\ Len(g) = H + 1 /\ g[H + 1] = dst /\ \A i \in 1..H : g[i] = h[i]
  BY <1>0, Appended
<1>2. IsSeq(q) /\ Len(q) \in Nat /\ Len(q) <= H /\ Len(q) <= QueueMax
      /\ \A i \in 1..Len(q) : OwnIn(h, n, (H - Len(q)) + i, q[i])
  BY Shape DEF QueueIs
<1>3. IsSeq(r) /\ Len(r) = Len(q) + 1 /\ r[Len(q) + 1] = f /\ \A i \in 1..Len(q) : r[i] = q[i]
  BY <1>2, Appended
<1>4. s = [d11 |-> (Earlier + H) % SeqMod, awdl |-> (Earlier + H) % AwdlMod]
  BY DEF HandedIs
<1>5. IsSeq(p)
  BY <1>0, PacketIs
<1> HIDE DEF p
<1>6. Wraps(f, Route(dst), Mac(n), s.awdl, p) /\ f[5] = SequenceControl(s.d11)
  BY <1>5, FrameWraps
<1> HIDE DEF f, r
<1>7. s.awdl = ((Earlier + (H + 1)) - 1) % AwdlMod
  <2>1. Earlier + H = (Earlier + (H + 1)) - 1
    BY <1>0
  <2> QED
    BY <1>4, <2>1
<1>8. s.d11 = ((Earlier + (H + 1)) - 1) % SeqMod
  <2>1. Earlier + H = (Earlier + (H + 1)) - 1
    BY <1>0
  <2> QED
    BY <1>4, <2>1
<1> HIDE DEF g
<1>9. OwnIn(g, n, H + 1, f)
  <2>1. H + 1 \in 1..Len(g)
    BY <1>0, <1>1
  <2>2. Wraps(f, Route(g[H + 1]), Mac(n), ((Earlier + (H + 1)) - 1) % AwdlMod, Packet(n, H + 1, g[H + 1]))
    BY <1>1, <1>6, <1>7 DEF p
  <2>3. f[5] = SequenceControl(((Earlier + (H + 1)) - 1) % SeqMod)
    BY <1>6, <1>8
  <2> QED
    BY <2>1, <2>2, <2>3 DEF OwnIn
<1>10. QueueIs(n, g, r)
  <2>1. Len(r) <= QueueMax /\ Len(r) <= Len(g) /\ Len(g) - Len(r) = H - Len(q)
    BY <1>0, <1>1, <1>2, <1>3
  <2>2. ASSUME NEW i \in 1..Len(r) PROVE OwnIn(g, n, (Len(g) - Len(r)) + i, r[i])
    <3>1. CASE i \in 1..Len(q)
      <4>1. r[i] = q[i] /\ OwnIn(h, n, (H - Len(q)) + i, q[i])
        BY <1>2, <1>3, <3>1
      <4>2. OwnIn(g, n, (H - Len(q)) + i, q[i])
        BY <1>0, <4>1, OwnGrows DEF g
      <4> QED
        BY <2>1, <4>1, <4>2
    <3>2. CASE i = Len(q) + 1
      <4>1. (Len(g) - Len(r)) + i = H + 1
        BY <1>0, <1>2, <2>1, <3>2
      <4> QED
        BY <1>3, <1>9, <3>2, <4>1
    <3> QED
      BY <1>2, <1>3, <3>1, <3>2
  <2> QED
    BY <1>3, <2>1, <2>2 DEF QueueIs
<1>11. HandedIs(g, NextSeqs(s))
  <2>1. ASSUME NEW k \in 1..Len(g) PROVE g[k] \in Destinations /\ Route(g[k]) # None
    <3>1. \A j \in 1..H : h[j] \in Destinations /\ Route(h[j]) # None
      BY DEF HandedIs
    <3>2. k \in 1..H \/ k = H + 1
      BY <1>0, <1>1
    <3> QED
      BY <1>1, <3>1, <3>2
  <2>2. (s.d11 + 1) % SeqMod = (Earlier + Len(g)) % SeqMod
    <3>1. Earlier + H \in Nat /\ (Earlier + H) + 1 = Earlier + Len(g)
      BY <1>0, <1>1
    <3>2. s.d11 = (Earlier + H) % SeqMod
      BY <1>4
    <3> QED
      BY <1>0, <3>1, <3>2, NextIs
  <2>3. (s.awdl + 1) % AwdlMod = (Earlier + Len(g)) % AwdlMod
    <3>1. Earlier + H \in Nat /\ (Earlier + H) + 1 = Earlier + Len(g)
      BY <1>0, <1>1
    <3>2. s.awdl = (Earlier + H) % AwdlMod
      BY <1>4
    <3> QED
      BY <1>0, <3>1, <3>2, NextIs
  <2>4. NextSeqs(s) = [d11 |-> (Earlier + Len(g)) % SeqMod, awdl |-> (Earlier + Len(g)) % AwdlMod]
    BY <2>2, <2>3 DEF NextSeqs
  <2> QED
    BY <1>1, <2>1, <2>4 DEF HandedIs
<1> QED
  BY <1>10, <1>11 DEF g, r, f, p

(* The radio's frames stay what they are when a packet is handed over.     *)
LEMMA RadioKeeps ==
  ASSUME NEW n, NEW h, IsSeq(h), NEW d, NEW r, RadioIs(n, h, d, r), NEW dst
  PROVE  RadioIs(n, Append(h, dst), d, r)
<1>1. ASSUME NEW i \in 1..Len(r) PROVE IsSent(Append(h, dst), n, d, r[i])
  <2>1. IsSent(h, n, d, r[i])
    BY DEF RadioIs
  <2> QED
    BY <2>1, OwnGrows DEF IsSent
<1> QED
  BY <1>1 DEF RadioIs

-----------------------------------------------------------------------------
(* A frame and its repeats.                                                *)
AreCopies(c, h, n, k, first, others) ==
  /\ IsSeq(c) /\ Len(c) = (IF first THEN 1 ELSE 0) + others
  /\ \A i \in 1..Len(c) : IsData(c[i]) /\ No(c[i]) = k /\ OwnIn(h, n, k, c[i])

(* The copies of a frame are frames of its packet.                         *)
LEMMA CopiesAre ==
  ASSUME NEW n, NEW h, NEW k \in Nat, NEW f, OwnIn(h, n, k, f), NEW first \in BOOLEAN, NEW others \in Nat
  PROVE  AreCopies(Copies(f, first, others), h, n, k, first, others)
<1> DEFINE a == IF first THEN <<f>> ELSE <<>>
           b == [i \in 1..others |-> Retried(f)]
           c == Copies(f, first, others)
<1>1. IsSeq(a) /\ Len(a) = (IF first THEN 1 ELSE 0) /\ \A i \in 1..Len(a) : a[i] = f
  <2>1. CASE first
    <3>1. IsSeq(<<f>>) /\ Len(<<f>>) = 1 /\ <<f>>[1] = f
      BY OneIsList
    <3> QED
      BY <2>1, <3>1
  <2>2. CASE ~first
    <3>1. IsSeq(<<>>) /\ Len(<<>>) = 0
      BY NoneIsList
    <3> QED
      BY <2>2, <3>1
  <2> QED
    BY <2>1, <2>2
<1>2. IsSeq(b) /\ Len(b) = others /\ \A i \in 1..Len(b) : b[i] = Retried(f)
  <2>1. DOMAIN b = 1..others /\ b = [i \in 1..others |-> b[i]] /\ \A i \in 1..others : b[i] = Retried(f)
    OBVIOUS
  <2> HIDE DEF b
  <2> QED
    BY <2>1, Listed
<1>3. IsJoin(c, a, b)
  <2>1. c = a \o b
    BY DEF Copies
  <2> HIDE DEF a, b, c
  <2> QED
    BY <1>1, <1>2, <2>1, Joined
<1> HIDE DEF a, b, c
<1>4. IsSeq(c) /\ Len(c) = (IF first THEN 1 ELSE 0) + others
  BY <1>1, <1>2, <1>3 DEF IsJoin
<1>5. Len(a) \in Nat /\ Len(b) \in Nat /\ Len(c) = Len(a) + Len(b)
      /\ (\A i \in 1..Len(a) : c[i] = a[i]) /\ (\A i \in 1..Len(b) : c[Len(a) + i] = b[i])
  BY <1>1, <1>2, <1>3, Shape DEF IsJoin
<1>6. ASSUME NEW i \in 1..Len(c) PROVE c[i] = f \/ c[i] = Retried(f)
  <2>1. CASE i <= Len(a)
    <3>1. i \in 1..Len(a)
      BY <1>5, <2>1
    <3> QED
      BY <1>1, <1>5, <3>1
  <2>2. CASE i > Len(a)
    <3>1. i - Len(a) \in 1..Len(b) /\ Len(a) + (i - Len(a)) = i
      BY <1>5, <2>2
    <3>2. c[Len(a) + (i - Len(a))] = b[i - Len(a)] /\ b[i - Len(a)] = Retried(f)
      BY <1>2, <1>5, <3>1
    <3> QED
      BY <3>1, <3>2
  <2> QED
    BY <1>5, <2>1, <2>2
<1>7. ASSUME NEW g, OwnIn(h, n, k, g)
      PROVE  IsData(g) /\ No(g) = k /\ OwnIn(h, n, k, Retried(g))
  <2> DEFINE p == Packet(n, k, h[k])
             to == Route(h[k])
             awdl == ((Earlier + k) - 1) % AwdlMod
  <2>1. Wraps(g, to, Mac(n), awdl, p) /\ k \in 1..Len(h) /\ g[5] = SequenceControl(((Earlier + k) - 1) % SeqMod)
    BY <1>7 DEF OwnIn
  <2>2. IsSeq(p) /\ Len(p) \in 2..3 /\ p[1] = Opening(n, k, h[k])
    BY PacketIs
  <2> HIDE DEF p, to, awdl
  <2>3. IsData(g)
    BY <2>1, <2>2, WrapsIsData
  <2>4. Wraps(Retried(g), to, Mac(n), awdl, p) /\ Retried(g)[5] = g[5]
    BY <2>1, <2>2, RetryWraps
  <2>5. OwnIn(h, n, k, Retried(g))
    BY <2>1, <2>4 DEF OwnIn, p, to, awdl
  <2>6. g[12] = p[1]
    <3>1. Len(g) = 11 + Len(p) /\ \A i \in 7..Len(g) : g[i] = IF i <= 11 THEN Symbol(i - 6, awdl) ELSE p[i - 11]
      BY <2>1 DEF Wraps
    <3>2. 12 \in 7..Len(g) /\ ~(12 <= 11) /\ 12 - 11 = 1
      BY <2>2, <3>1
    <3> QED
      BY <3>1, <3>2
  <2>7. No(g) = k
    BY <2>2, <2>6 DEF No, Opening
  <2> QED
    BY <2>3, <2>5, <2>7
<1>8. \A i \in 1..Len(c) : IsData(c[i]) /\ No(c[i]) = k /\ OwnIn(h, n, k, c[i])
  <2>1. IsData(f) /\ No(f) = k /\ OwnIn(h, n, k, Retried(f))
    BY <1>7
  <2>2. IsData(Retried(f)) /\ No(Retried(f)) = k
    BY <1>7, <2>1
  <2> QED
    BY <1>6, <2>1, <2>2
<1> QED
  BY <1>4, <1>8 DEF c, AreCopies

(* Frames behind those the radio has, none before them.                    *)
LEMMA RadioTakes ==
  ASSUME NEW n, NEW h, NEW d \in Nat, NEW r, RadioIs(n, h, d, r), NEW e \in Nat, d <= e, NEW c, IsSeq(c),
         Len(r) + Len(c) <= RadioMax,
         \A i \in 1..Len(c) : IsSent(h, n, e, c[i]),
         \A i \in 1..Len(c) : \A j \in 1..Len(c) : NotAfter(c[i], c[j]),
         \A i \in 1..Len(r) : \A j \in 1..Len(c) : NotAfter(r[i], c[j])
  PROVE  RadioIs(n, h, e, r \o c)
<1> DEFINE t == r \o c
<1>1. IsSeq(r) /\ Len(r) \in Nat /\ Len(c) \in Nat
  BY Shape DEF RadioIs
<1>2. IsSeq(t) /\ Len(t) = Len(r) + Len(c) /\ (\A i \in 1..Len(r) : t[i] = r[i])
      /\ (\A i \in 1..Len(c) : t[Len(r) + i] = c[i])
  BY <1>1, Joined DEF IsJoin
<1> HIDE DEF t
<1>3. ASSUME NEW i \in 1..Len(t)
      PROVE  (i \in 1..Len(r) /\ t[i] = r[i]) \/ (i - Len(r) \in 1..Len(c) /\ t[i] = c[i - Len(r)])
  <2>1. CASE i <= Len(r)
    BY <1>1, <1>2, <2>1
  <2>2. CASE i > Len(r)
    <3>1. i - Len(r) \in 1..Len(c) /\ Len(r) + (i - Len(r)) = i
      BY <1>1, <1>2, <2>2
    <3> QED
      BY <1>2, <3>1
  <2> QED
    BY <1>1, <2>1, <2>2
<1>4. ASSUME NEW i \in 1..Len(t) PROVE IsSent(h, n, e, t[i])
  <2>1. ASSUME NEW f, IsSent(h, n, d, f) PROVE IsSent(h, n, e, f)
    <3>1. \A k \in 1..d : k \in 1..e
      OBVIOUS
    <3> QED
      BY <2>1, <3>1 DEF IsSent
  <2>2. \A k \in 1..Len(r) : IsSent(h, n, d, r[k])
    BY DEF RadioIs
  <2> QED
    BY <1>3, <2>1, <2>2
<1>5. ASSUME NEW i \in 1..Len(t), NEW j \in i..Len(t) PROVE NotAfter(t[i], t[j])
  <2>0. j \in 1..Len(t) /\ i \in Int /\ j \in Int /\ i <= j
    BY <1>1, <1>2
  <2>1. CASE i \in 1..Len(r) /\ t[i] = r[i]
    <3>1. CASE j \in 1..Len(r) /\ t[j] = r[j]
      <4>1. j \in i..Len(r)
        BY <2>0, <3>1
      <4>2. NotAfter(r[i], r[j])
        BY <2>1, <4>1 DEF RadioIs
      <4> QED
        BY <2>1, <3>1, <4>2
    <3>2. CASE j - Len(r) \in 1..Len(c) /\ t[j] = c[j - Len(r)]
      <4>1. NotAfter(r[i], c[j - Len(r)])
        BY <2>1, <3>2
      <4> QED
        BY <2>1, <3>2, <4>1
    <3> QED
      BY <1>3, <2>0, <3>1, <3>2
  <2>2. CASE i - Len(r) \in 1..Len(c) /\ t[i] = c[i - Len(r)]
    <3>1. ~(j \in 1..Len(r))
      BY <1>1, <2>0, <2>2
    <3>2. j - Len(r) \in 1..Len(c) /\ t[j] = c[j - Len(r)]
      BY <1>3, <2>0, <3>1
    <3>3. NotAfter(c[i - Len(r)], c[j - Len(r)])
      BY <2>2, <3>2
    <3> QED
      BY <2>2, <3>2, <3>3
  <2> QED
    BY <1>3, <2>1, <2>2
<1> QED
  BY <1>2, <1>4, <1>5 DEF RadioIs, t

(* A request.                                                              *)
LEMMA RequestKeeps ==
  ASSUME NEW n, NEW h, NEW d \in Nat, NEW r, RadioIs(n, h, d, r), Len(r) < RadioMax,
         NEW f, Mute(f), NEW slack \in Nat, Recent(d, r, slack)
  PROVE  RadioIs(n, h, d, Append(r, f)) /\ Recent(d, Append(r, f), slack)
<1>0. ~IsData(f)
  BY SilentIsNoData DEF Mute
<1>1. IsSeq(r) /\ Len(r) \in Nat /\ RadioMax \in Nat
  BY Shape, ExchangeAssumption DEF RadioIs
<1> DEFINE t == Append(r, f)
<1>2. IsSeq(t) /\ Len(t) = Len(r) + 1 /\ t[Len(r) + 1] = f /\ \A i \in 1..Len(r) : t[i] = r[i]
  BY <1>1, Appended
<1> HIDE DEF t
<1>3. \A i \in 1..Len(t) : i \in 1..Len(r) \/ i = Len(r) + 1
  BY <1>1, <1>2
<1>4. ASSUME NEW i \in 1..Len(t) PROVE IsSent(h, n, d, t[i])
  <2>1. \A k \in 1..Len(r) : IsSent(h, n, d, r[k])
    BY DEF RadioIs
  <2>2. IsSent(h, n, d, f)
    BY <1>0 DEF IsSent
  <2> QED
    BY <1>2, <1>3, <2>1, <2>2
<1>5. ASSUME NEW i \in 1..Len(t), NEW j \in i..Len(t) PROVE NotAfter(t[i], t[j])
  <2>1. CASE i = Len(r) + 1 \/ j = Len(r) + 1
    BY <1>0, <1>2, <2>1 DEF NotAfter
  <2>2. CASE ~(i = Len(r) + 1 \/ j = Len(r) + 1)
    <3>1. i \in 1..Len(r) /\ j \in i..Len(r) /\ j \in 1..Len(r)
      BY <1>1, <1>2, <2>2
    <3>2. NotAfter(r[i], r[j])
      BY <3>1 DEF RadioIs
    <3> QED
      BY <1>2, <3>1, <3>2
  <2> QED
    BY <2>1, <2>2
<1>6. RadioIs(n, h, d, t)
  <2>1. Len(t) <= RadioMax
    BY <1>1, <1>2
  <2> QED
    BY <1>2, <1>4, <1>5, <2>1 DEF RadioIs
<1>7. ASSUME NEW i \in 1..Len(t), IsData(t[i]) PROVE d - No(t[i]) <= (Len(t) - i) + slack
  <2>1. i # Len(r) + 1
    BY <1>0, <1>2, <1>7
  <2>2. i \in 1..Len(r) /\ t[i] = r[i]
    BY <1>2, <1>3, <2>1
  <2>3. d - No(r[i]) <= (Len(r) - i) + slack
    BY <1>7, <2>2 DEF Recent
  <2>4. No(r[i]) \in Nat
    <3>1. IsSent(h, n, d, r[i])
      BY <2>2 DEF RadioIs
    <3> QED
      BY <1>7, <2>2, <3>1 DEF IsSent
  <2> DEFINE x == No(r[i])
  <2> HIDE DEF x
  <2>5. x \in Nat /\ d - x <= (Len(r) - i) + slack /\ i \in Nat
    BY <2>2, <2>3, <2>4 DEF x
  <2>6. d - x <= (Len(t) - i) + slack
    BY <1>1, <1>2, <2>5
  <2> QED
    BY <2>2, <2>6 DEF x
<1> QED
  BY <1>6, <1>7 DEF Recent, t

-----------------------------------------------------------------------------
(* A drain.                                                                *)
LEMMA TailIs ==
  ASSUME NEW q, IsSeq(q), q # <<>>
  PROVE  /\ Len(q) \in Nat \ {0} /\ IsSeq(Tail(q)) /\ Len(Tail(q)) = Len(q) - 1
         /\ Head(q) = q[1] /\ \A i \in 1..(Len(q) - 1) : Tail(q)[i] = q[i + 1]
<1> DEFINE S == {q[i] : i \in DOMAIN q}
<1>1. q \in Seq(S)
  BY DEF IsSeq
<1> HIDE DEF S
<1>2. Len(q) \in Nat /\ Len(q) # 0
  BY <1>1, EmptySeq
<1>3. Tail(q) \in Seq(S) /\ Len(Tail(q)) = Len(q) - 1 /\ Head(q) = q[1]
  BY <1>1, HeadTailProperties
<1>4. IsSeq(Tail(q))
  BY <1>3, SeqIsSeq
<1>5. \A i \in 1..(Len(q) - 1) : Tail(q)[i] = q[i + 1]
  BY <1>1
<1> QED
  BY <1>2, <1>3, <1>4, <1>5

(* Drain: the first of the queue, if it is taken, and its repeats.         *)
LEMMA DrainKeeps ==
  ASSUME NEW n, NEW h, IsSeq(h), NEW q, QueueIs(n, h, q), q # <<>>,
         NEW d \in Nat, d = Len(h) - Len(q), NEW r, RadioIs(n, h, d, r),
         NEW first \in BOOLEAN, NEW others \in Nat, (Len(r) + 1) + others <= RadioMax,
         NEW slack \in Nat, Recent(d, r, slack)
  PROVE  /\ QueueIs(n, h, Tail(q)) /\ Len(h) - Len(Tail(q)) = d + 1
         /\ RadioIs(n, h, d + 1, r \o Copies(Head(q), first, others))
         /\ Recent(d + 1, r \o Copies(Head(q), first, others), IF first THEN slack ELSE slack + 1)
<1> DEFINE t == Tail(q)
           f == Head(q)
           c == Copies(f, first, others)
           x == r \o c
           k == d + 1
           room == IF first THEN slack ELSE slack + 1
<1>0. Len(h) \in Nat /\ k \in Nat \ {0} /\ room \in Nat
  BY Shape
<1>1. IsSeq(q) /\ Len(q) <= QueueMax /\ Len(q) <= Len(h)
      /\ \A i \in 1..Len(q) : OwnIn(h, n, (Len(h) - Len(q)) + i, q[i])
  BY DEF QueueIs
<1>2. Len(q) \in Nat \ {0} /\ IsSeq(t) /\ Len(t) = Len(q) - 1 /\ f = q[1]
      /\ \A i \in 1..(Len(q) - 1) : t[i] = q[i + 1]
  BY <1>1, TailIs
<1>3. OwnIn(h, n, k, f)
  <2>1. 1 \in 1..Len(q)
    BY <1>2
  <2>2. (Len(h) - Len(q)) + 1 = k
    OBVIOUS
  <2> HIDE DEF k
  <2> QED
    BY <1>1, <1>2, <2>1, <2>2
<1> HIDE DEF t, f
<1>4. QueueIs(n, h, t) /\ Len(h) - Len(t) = k
  <2>0. QueueMax \in Nat
    BY ExchangeAssumption
  <2>1. Len(t) <= QueueMax /\ Len(t) <= Len(h) /\ Len(h) - Len(t) = k
    BY <1>0, <1>1, <1>2, <2>0
  <2>2. ASSUME NEW i \in 1..Len(t) PROVE OwnIn(h, n, (Len(h) - Len(t)) + i, t[i])
    <3>1. i + 1 \in 1..Len(q) /\ i \in 1..(Len(q) - 1)
      BY <1>2
    <3>2. (Len(h) - Len(t)) + i = (Len(h) - Len(q)) + (i + 1)
      BY <1>0, <1>2
    <3> QED
      BY <1>1, <1>2, <3>1, <3>2
  <2> QED
    BY <1>2, <2>1, <2>2 DEF QueueIs
<1>5. IsSeq(c) /\ Len(c) = (IF first THEN 1 ELSE 0) + others
      /\ \A i \in 1..Len(c) : IsData(c[i]) /\ No(c[i]) = k /\ OwnIn(h, n, k, c[i])
  BY <1>0, <1>3, CopiesAre DEF AreCopies
<1> HIDE DEF c
<1>6. IsSeq(r) /\ Len(r) \in Nat /\ Len(c) \in Nat /\ \A i \in 1..Len(r) : IsSent(h, n, d, r[i])
  BY <1>5, Shape DEF RadioIs
<1>7. RadioIs(n, h, k, x)
  <2>1. Len(r) + Len(c) <= RadioMax
    <3>1. RadioMax \in Nat
      BY ExchangeAssumption
    <3> QED
      BY <1>5, <1>6, <3>1
  <2>2. \A i \in 1..Len(c) : IsSent(h, n, k, c[i])
    <3>1. k \in 1..k
      BY <1>0
    <3> QED
      BY <1>5, <3>1 DEF IsSent
  <2>3. \A i \in 1..Len(c) : \A j \in 1..Len(c) : NotAfter(c[i], c[j])
    BY <1>0, <1>5 DEF NotAfter
  <2>4. ASSUME NEW i \in 1..Len(r), NEW j \in 1..Len(c) PROVE NotAfter(r[i], c[j])
    <3>1. IsData(r[i]) => No(r[i]) \in 1..d
      BY <1>6 DEF IsSent
    <3>2. No(c[j]) = k
      BY <1>5
    <3> QED
      BY <3>1, <3>2 DEF NotAfter
  <2>5. d <= k
    OBVIOUS
  <2> HIDE DEF k
  <2> QED
    BY <1>0, <1>5, <2>1, <2>2, <2>3, <2>4, <2>5, RadioTakes
<1>8. IsSeq(x) /\ Len(x) = Len(r) + Len(c) /\ (\A i \in 1..Len(r) : x[i] = r[i])
      /\ (\A i \in 1..Len(c) : x[Len(r) + i] = c[i])
  <2>1. IsJoin(x, r, c)
    BY <1>5, <1>6, Joined
  <2> HIDE DEF x
  <2> QED
    BY <2>1 DEF IsJoin
<1> HIDE DEF x
<1>9. ASSUME NEW i \in 1..Len(x), IsData(x[i]) PROVE k - No(x[i]) <= (Len(x) - i) + room
  <2>1. CASE i <= Len(r)
    <3>1. i \in 1..Len(r) /\ x[i] = r[i]
      BY <1>6, <1>8, <2>1
    <3>2. d - No(r[i]) <= (Len(r) - i) + slack
      BY <1>9, <3>1 DEF Recent
    <3>3. No(r[i]) \in Nat
      BY <1>6, <1>9, <3>1 DEF IsSent
    <3> DEFINE y == No(r[i])
    <3> HIDE DEF y
    <3>4. y \in Nat /\ d - y <= (Len(r) - i) + slack /\ i \in Nat
      BY <3>1, <3>2, <3>3 DEF y
    <3>5. (d + 1) - y <= (Len(x) - i) + room
      <4>1. CASE first
        <5>1. Len(x) >= Len(r) + 1
          BY <1>5, <1>6, <1>8, <4>1
        <5> QED
          BY <1>6, <1>8, <3>4, <4>1, <5>1
      <4>2. CASE ~first
        <5>1. Len(x) >= Len(r)
          BY <1>6, <1>8
        <5> QED
          BY <1>6, <1>8, <3>4, <4>2, <5>1
      <4> QED
        BY <4>1, <4>2
    <3> QED
      BY <3>1, <3>5 DEF y
  <2>2. CASE i > Len(r)
    <3>1. i - Len(r) \in 1..Len(c) /\ Len(r) + (i - Len(r)) = i
      BY <1>6, <1>8, <2>2
    <3>2. x[i] = c[i - Len(r)] /\ No(x[i]) = k
      BY <1>5, <1>8, <3>1
    <3>3. k - No(x[i]) = 0
      BY <1>0, <3>2
    <3>4. Len(x) - i >= 0 /\ Len(x) - i \in Int
      BY <1>6, <1>8
    <3> QED
      BY <1>0, <3>3, <3>4
  <2> QED
    BY <1>6, <1>8, <2>1, <2>2
<1> QED
  BY <1>4, <1>7, <1>9 DEF Recent, t, f, c, x

(* The radio sends the first k of its frames.                              *)
LEMMA EmitKeeps ==
  ASSUME NEW n, NEW h, NEW d \in Nat, NEW r, RadioIs(n, h, d, r), NEW k \in Nat, k <= Len(r),
         NEW slack \in Nat, Recent(d, r, slack)
  PROVE  /\ IsRest(SubSeq(r, k + 1, Len(r)), r, k)
         /\ RadioIs(n, h, d, SubSeq(r, k + 1, Len(r)))
         /\ Recent(d, SubSeq(r, k + 1, Len(r)), slack)
<1> DEFINE x == SubSeq(r, k + 1, Len(r))
<1>1. IsSeq(r) /\ Len(r) \in Nat /\ RadioMax \in Nat /\ Len(r) <= RadioMax
  BY Shape, ExchangeAssumption DEF RadioIs
<1>2. IsRest(x, r, k)
  BY <1>1, Rest DEF From
<1> HIDE DEF x
<1>3. IsSeq(x) /\ Len(x) = Len(r) - k /\ \A i \in 1..Len(x) : x[i] = r[k + i] /\ k + i \in 1..Len(r)
  <2>1. IsSeq(x) /\ Len(x) = Len(r) - k /\ \A i \in 1..(Len(r) - k) : x[i] = r[k + i]
    BY <1>1, <1>2 DEF IsRest
  <2> QED
    BY <1>1, <2>1
<1>4. \A i \in 1..Len(x) : IsSent(h, n, d, x[i])
  BY <1>3 DEF RadioIs
<1>5. ASSUME NEW i \in 1..Len(x), NEW j \in i..Len(x) PROVE NotAfter(x[i], x[j])
  <2>1. j \in 1..Len(x) /\ k + j \in (k + i)..Len(r) /\ k + i \in 1..Len(r)
    BY <1>1, <1>3
  <2>2. NotAfter(r[k + i], r[k + j])
    BY <2>1 DEF RadioIs
  <2> QED
    BY <1>3, <2>1, <2>2
<1>6. RadioIs(n, h, d, x)
  <2>1. Len(x) <= RadioMax
    BY <1>1, <1>3
  <2> QED
    BY <1>3, <1>4, <1>5, <2>1 DEF RadioIs
<1>7. ASSUME NEW i \in 1..Len(x), IsData(x[i]) PROVE d - No(x[i]) <= (Len(x) - i) + slack
  <2>1. x[i] = r[k + i] /\ k + i \in 1..Len(r)
    BY <1>3
  <2>2. d - No(r[k + i]) <= (Len(r) - (k + i)) + slack
    BY <1>7, <2>1 DEF Recent
  <2>3. Len(x) - i = Len(r) - (k + i)
    BY <1>1, <1>3
  <2> QED
    BY <2>1, <2>2, <2>3
<1> QED
  BY <1>2, <1>6, <1>7 DEF Recent, x

-----------------------------------------------------------------------------
(* The receiving side.  A packet that speaks for kernel n is one of its d. *)
KnownIn(n, h, d, p) ==
  p.src = Mac(n) \/ Names(p, n) =>
    /\ p.src = Mac(n)
    /\ p.payload # <<>> =>
         /\ Names(p, n) /\ Number(p) \in 1..d
         /\ p.dst = Route(h[Number(p)]) /\ DestinationOf(p) = h[Number(p)]
         /\ IsStartOf(p.payload, Packet(n, Number(p), h[Number(p)]))

(* It comes before what the radio still has, and before another.           *)
Below(n, p, r) ==
  Names(p, n) => \A j \in 1..Len(r) : IsData(r[j]) => Number(p) <= No(r[j])
Before(n, p, q) == Names(p, n) /\ Names(q, n) => Number(p) <= Number(q)

(* The packets of a capture, and of every capture of a frame.              *)
PacketsFor(n, h, d, r, s) ==
  \A i \in 1..Len(s) :
    KnownIn(n, h, d, s[i]) /\ Below(n, s[i], r) /\ \A j \in i..Len(s) : Before(n, s[i], s[j])
Capture(bytes, c) == decapsulate_all(SubSeq(bytes, 1, c))
AirFor(n, h, d, r, bytes) ==
  \A c \in 0..Len(bytes) : PacketsFor(n, h, d, r, Capture(bytes, c))

(* What a tap was given: a packet another kernel handed over, for us.      *)
TakenBy(m, n, h, d, e) ==
  /\ e.src # Mac(m) /\ (e.payload = <<>> => e.dst = Mac(m))
  /\ Names(e, n) => e.src = Mac(n)
  /\ e.src = Mac(n) /\ e.payload # <<>> =>
       /\ Names(e, n) /\ Number(e) \in 1..d
       /\ IsStartOf(e.payload, Packet(n, Number(e), h[Number(e)]))
       /\ \/ h[Number(e)] = IpOf(m) /\ e.dst = Mac(m)
          \/ h[Number(e)] \in Groups /\ e.dst = multicast_mac(h[Number(e)])
TapFor(m, n, h, d, r, t) ==
  /\ IsSeq(t)
  /\ \A i \in 1..Len(t) :
       TakenBy(m, n, h, d, t[i]) /\ Below(n, t[i], r) /\ \A j \in i..Len(t) : Before(n, t[i], t[j])

(* The frame being sent comes after what a tap has.                        *)
AllBefore(n, t, s) == \A j \in 1..Len(t), i \in 1..Len(s) : Before(n, t[j], s[i])
Follows(n, t, bytes) == \A c \in 0..Len(bytes) : AllBefore(n, t, Capture(bytes, c))

(* A step of the sender: the history grows, what is drained stays drained, *)
(* and what the radio gains is younger.                                    *)
Later(d, r, x) ==
  \A j \in 1..Len(x) : IsData(x[j]) =>
    No(x[j]) \in Nat /\ (No(x[j]) > d \/ \E i \in 1..Len(r) : x[j] = r[i])
Moves(h, d, r, g, e, x) ==
  /\ d \in Nat /\ e \in Nat /\ d <= e
  /\ \A k \in 1..d : g[k] = h[k]
  /\ Later(d, r, x)

(* What a step of the sender keeps: of a packet, of those of a capture, of *)
(* those of the air, and of a tap.                                         *)
LEMMA KnownStays ==
  ASSUME NEW n, NEW h, NEW d, NEW r, NEW g, NEW e, NEW x, Moves(h, d, r, g, e, x),
         NEW p, KnownIn(n, h, d, p)
  PROVE  KnownIn(n, g, e, p)
<1> SUFFICES ASSUME p.src = Mac(n) \/ Names(p, n)
             PROVE  /\ p.src = Mac(n)
                    /\ p.payload # <<>> =>
                         /\ Names(p, n) /\ Number(p) \in 1..e
                         /\ p.dst = Route(g[Number(p)]) /\ DestinationOf(p) = g[Number(p)]
                         /\ IsStartOf(p.payload, Packet(n, Number(p), g[Number(p)]))
  BY DEF KnownIn
<1>1. p.src = Mac(n)
  BY DEF KnownIn
<1>2. ASSUME p.payload # <<>>
      PROVE  /\ Names(p, n) /\ Number(p) \in 1..e
             /\ p.dst = Route(g[Number(p)]) /\ DestinationOf(p) = g[Number(p)]
             /\ IsStartOf(p.payload, Packet(n, Number(p), g[Number(p)]))
  <2> DEFINE k == Number(p)
  <2>1. Names(p, n) /\ k \in 1..d /\ p.dst = Route(h[k]) /\ DestinationOf(p) = h[k]
        /\ IsStartOf(p.payload, Packet(n, k, h[k]))
    BY <1>2 DEF KnownIn
  <2> HIDE DEF k
  <2>2. k \in 1..e /\ g[k] = h[k]
    BY <2>1 DEF Moves
  <2>3. Names(p, n) /\ k \in 1..e /\ p.dst = Route(g[k]) /\ DestinationOf(p) = g[k]
        /\ IsStartOf(p.payload, Packet(n, k, g[k]))
    BY <2>1, <2>2
  <2> QED
    BY <2>3 DEF k
<1> QED
  BY <1>1, <1>2

LEMMA BelowStays ==
  ASSUME NEW n, NEW h, NEW d, NEW r, NEW g, NEW e, NEW x, Moves(h, d, r, g, e, x),
         NEW p, Below(n, p, r), Names(p, n) => Number(p) \in 1..d
  PROVE  Below(n, p, x)
<1> SUFFICES ASSUME Names(p, n), NEW j \in 1..Len(x), IsData(x[j])
             PROVE  Number(p) <= No(x[j])
  BY DEF Below
<1> DEFINE k == Number(p)
           y == No(x[j])
<1>1. k \in 1..d /\ d \in Nat
  BY DEF Moves
<1>2. y \in Nat /\ (y > d \/ \E i \in 1..Len(r) : x[j] = r[i])
  BY DEF Moves, Later
<1>3. CASE y > d
  <2> HIDE DEF k, y
  <2>1. k <= y
    BY <1>1, <1>2, <1>3
  <2> QED
    BY <2>1 DEF k, y
<1>4. CASE \E i \in 1..Len(r) : x[j] = r[i]
  <2>1. PICK i \in 1..Len(r) : x[j] = r[i]
    BY <1>4
  <2>2. Number(p) <= No(r[i])
    BY <2>1 DEF Below
  <2> QED
    BY <2>1, <2>2
<1> QED
  BY <1>2, <1>3, <1>4

LEMMA PacketsStay ==
  ASSUME NEW n, NEW h, NEW d, NEW r, NEW g, NEW e, NEW x, Moves(h, d, r, g, e, x),
         NEW s, PacketsFor(n, h, d, r, s)
  PROVE  PacketsFor(n, g, e, x, s)
<1>1. ASSUME NEW i \in 1..Len(s)
      PROVE  KnownIn(n, g, e, s[i]) /\ Below(n, s[i], x) /\ \A j \in i..Len(s) : Before(n, s[i], s[j])
  <2> DEFINE p == s[i]
  <2>1. KnownIn(n, h, d, p) /\ Below(n, p, r) /\ \A j \in i..Len(s) : Before(n, p, s[j])
    BY DEF PacketsFor
  <2>2. Names(p, n) => Number(p) \in 1..d
    BY <2>1 DEF KnownIn, Names
  <2> HIDE DEF p
  <2>3. KnownIn(n, g, e, p)
    BY <2>1, KnownStays
  <2>4. Below(n, p, x)
    BY <2>1, <2>2, BelowStays
  <2> QED
    BY <2>1, <2>3, <2>4 DEF p
<1> QED
  BY <1>1 DEF PacketsFor

LEMMA AirStays ==
  ASSUME NEW n, NEW h, NEW d, NEW r, NEW g, NEW e, NEW x, Moves(h, d, r, g, e, x),
         NEW bytes, AirFor(n, h, d, r, bytes)
  PROVE  AirFor(n, g, e, x, bytes)
<1>1. ASSUME NEW c \in 0..Len(bytes) PROVE PacketsFor(n, g, e, x, Capture(bytes, c))
  <2>1. PacketsFor(n, h, d, r, Capture(bytes, c))
    BY DEF AirFor
  <2> QED
    BY <2>1, PacketsStay
<1> QED
  BY <1>1 DEF AirFor

LEMMA TapStays ==
  ASSUME NEW m, NEW n, NEW h, NEW d, NEW r, NEW g, NEW e, NEW x, Moves(h, d, r, g, e, x),
         NEW t, TapFor(m, n, h, d, r, t)
  PROVE  TapFor(m, n, g, e, x, t)
<1>1. ASSUME NEW i \in 1..Len(t)
      PROVE  TakenBy(m, n, g, e, t[i]) /\ Below(n, t[i], x) /\ \A j \in i..Len(t) : Before(n, t[i], t[j])
  <2> DEFINE p == t[i]
             k == Number(p)
  <2>1. TakenBy(m, n, h, d, p) /\ Below(n, p, r) /\ \A j \in i..Len(t) : Before(n, p, t[j])
    BY DEF TapFor
  <2>2. Names(p, n) => Number(p) \in 1..d
    BY <2>1 DEF TakenBy, Names
  <2> HIDE DEF p, k
  <2>3. ASSUME p.src = Mac(n), p.payload # <<>>
        PROVE  /\ Names(p, n) /\ k \in 1..e
               /\ IsStartOf(p.payload, Packet(n, k, g[k]))
               /\ \/ g[k] = IpOf(m) /\ p.dst = Mac(m)
                  \/ g[k] \in Groups /\ p.dst = multicast_mac(g[k])
    <3>1. Names(p, n) /\ k \in 1..d /\ IsStartOf(p.payload, Packet(n, k, h[k]))
          /\ \/ h[k] = IpOf(m) /\ p.dst = Mac(m)
             \/ h[k] \in Groups /\ p.dst = multicast_mac(h[k])
      BY <2>1, <2>3 DEF TakenBy, k
    <3>2. k \in 1..e /\ g[k] = h[k]
      BY <3>1 DEF Moves
    <3> QED
      BY <3>1, <3>2
  <2>4. TakenBy(m, n, g, e, p)
    BY <2>1, <2>3 DEF TakenBy, k
  <2>5. Below(n, p, x)
    BY <2>1, <2>2, BelowStays
  <2> QED
    BY <2>1, <2>4, <2>5 DEF p
<1> QED
  BY <1>1 DEF TapFor

-----------------------------------------------------------------------------
(* The sender's steps are such.                                            *)
LEMMA StillMoves ==
  ASSUME NEW n, NEW h, IsSeq(h), NEW d \in Nat, d <= Len(h), NEW r, RadioIs(n, h, d, r)
  PROVE  /\ Moves(h, d, r, h, d, r)
         /\ \A dst : Moves(h, d, r, Append(h, dst), d, r)
<1>1. Later(d, r, r)
  <2>1. \A j \in 1..Len(r) : IsData(r[j]) => No(r[j]) \in Nat
    BY DEF RadioIs, IsSent
  <2> QED
    BY <2>1 DEF Later
<1>2. Len(h) \in Nat
  BY Shape
<1>3. ASSUME NEW dst, NEW k \in 1..d PROVE Append(h, dst)[k] = h[k]
  <2>1. k \in 1..Len(h)
    BY <1>2
  <2> QED
    BY <2>1, Appended
<1> QED
  BY <1>1, <1>3 DEF Moves

(* The radio takes younger frames, a request, or gives frames away.        *)
LEMMA TakingMoves ==
  ASSUME NEW n, NEW h, NEW d \in Nat, NEW r, RadioIs(n, h, d, r), NEW e \in Nat, d <= e,
         NEW c, IsSeq(c), \A i \in 1..Len(c) : IsData(c[i]) => No(c[i]) \in Nat /\ No(c[i]) > d
  PROVE  Moves(h, d, r, h, e, r \o c)
<1> DEFINE x == r \o c
<1>1. IsSeq(r) /\ Len(r) \in Nat /\ Len(c) \in Nat
  BY Shape DEF RadioIs
<1>2. IsJoin(x, r, c)
  BY <1>1, Joined
<1> HIDE DEF x
<1>3. ASSUME NEW j \in 1..Len(x), IsData(x[j])
      PROVE  No(x[j]) \in Nat /\ (No(x[j]) > d \/ \E i \in 1..Len(r) : x[j] = r[i])
  <2>1. CASE j <= Len(r)
    <3>1. j \in 1..Len(r) /\ x[j] = r[j]
      BY <1>1, <1>2, <2>1 DEF IsJoin
    <3>2. No(r[j]) \in Nat
      BY <1>3, <3>1 DEF RadioIs, IsSent
    <3> QED
      BY <3>1, <3>2
  <2>2. CASE j > Len(r)
    <3>0. Len(x) = Len(r) + Len(c) /\ \A i \in 1..Len(c) : x[Len(r) + i] = c[i]
      BY <1>2 DEF IsJoin
    <3>1. j - Len(r) \in 1..Len(c) /\ Len(r) + (j - Len(r)) = j
      BY <1>1, <2>2, <3>0
    <3>2. x[j] = c[j - Len(r)]
      BY <3>0, <3>1
    <3> QED
      BY <1>3, <3>1, <3>2
  <2> QED
    BY <1>1, <2>1, <2>2
<1> QED
  BY <1>3 DEF Moves, Later, x

LEMMA RequestMoves ==
  ASSUME NEW n, NEW h, NEW d \in Nat, NEW r, RadioIs(n, h, d, r), NEW f, ~IsData(f)
  PROVE  Moves(h, d, r, h, d, Append(r, f))
<1> DEFINE x == Append(r, f)
<1>1. IsSeq(r) /\ Len(r) \in Nat
  BY Shape DEF RadioIs
<1>2. Len(x) = Len(r) + 1 /\ x[Len(r) + 1] = f /\ \A i \in 1..Len(r) : x[i] = r[i]
  BY <1>1, Appended
<1> HIDE DEF x
<1>3. ASSUME NEW j \in 1..Len(x), IsData(x[j])
      PROVE  No(x[j]) \in Nat /\ \E i \in 1..Len(r) : x[j] = r[i]
  <2>1. j # Len(r) + 1
    BY <1>2, <1>3
  <2>2. j \in 1..Len(r) /\ x[j] = r[j]
    BY <1>1, <1>2, <2>1
  <2>3. No(r[j]) \in Nat
    BY <1>3, <2>2 DEF RadioIs, IsSent
  <2> QED
    BY <2>2, <2>3
<1> QED
  BY <1>3 DEF Moves, Later, x

LEMMA DroppingMoves ==
  ASSUME NEW n, NEW h, NEW d \in Nat, NEW r, RadioIs(n, h, d, r), NEW k \in Nat, k <= Len(r)
  PROVE  Moves(h, d, r, h, d, SubSeq(r, k + 1, Len(r)))
<1> DEFINE x == SubSeq(r, k + 1, Len(r))
<1>1. IsSeq(r) /\ Len(r) \in Nat
  BY Shape DEF RadioIs
<1>2. IsRest(x, r, k)
  BY <1>1, Rest DEF From
<1> HIDE DEF x
<1>3. Len(x) = Len(r) - k /\ \A i \in 1..(Len(r) - k) : x[i] = r[k + i]
  BY <1>1, <1>2 DEF IsRest
<1>4. ASSUME NEW j \in 1..Len(x), IsData(x[j])
      PROVE  No(x[j]) \in Nat /\ \E i \in 1..Len(r) : x[j] = r[i]
  <2>1. k + j \in 1..Len(r) /\ x[j] = r[k + j]
    BY <1>1, <1>3
  <2>2. No(r[k + j]) \in Nat
    BY <1>4, <2>1 DEF RadioIs, IsSent
  <2> QED
    BY <2>1, <2>2
<1>5. Moves(h, d, r, h, d, x)
  BY <1>4 DEF Moves, Later
<1> QED
  BY <1>5 DEF x

-----------------------------------------------------------------------------
(* What is sent.                                                           *)
Speaks(p, n) == p.src = Mac(n) \/ Names(p, n)

(* Packets of nobody here say nothing of a sender.                         *)
LEMMA NobodyIsKnown ==
  ASSUME NEW n, NEW h, NEW d, NEW r, NEW s, \A i \in 1..Len(s) : ~Speaks(s[i], n)
  PROVE  PacketsFor(n, h, d, r, s) /\ \A t : AllBefore(n, t, s)
BY DEF PacketsFor, KnownIn, Below, Before, AllBefore, Speaks

(* frames are the first k of the radio's.                                  *)
Sent(n, d, k, frames) ==
  /\ d \in Nat /\ d <= Len(handed[n]) /\ k \in Nat /\ k <= Len(radio[n])
  /\ IsSeq(frames) /\ Len(frames) = k
  /\ \A i \in 1..k : frames[i] = radio[n][i] /\ IsData(frames[i])

(* A packet of a frame the radio had is one handed over, in its place.     *)
LEMMA TakenIsKnown ==
  ASSUME NEW n \in Ours, NEW d, NEW k, NEW frames, Sent(n, d, k, frames),
         RadioIs(n, handed[n], d, radio[n]), NEW i \in 1..k, NEW p, TakenFrom(p, n, frames[i])
  PROVE  /\ KnownIn(n, handed[n], d, p)
         /\ Names(p, n) => Number(p) = No(frames[i])
         /\ \A m \in Ours : Speaks(p, m) => m = n
<1> DEFINE f == frames[i]
           a == No(f)
           dst == handed[n][a]
<1>1. f = radio[n][i] /\ IsData(f) /\ i \in 1..Len(radio[n])
  BY DEF Sent
<1>2. a \in 1..d
  <2>1. IsSent(handed[n], n, d, f)
    BY <1>1 DEF RadioIs
  <2> QED
    BY <1>1, <2>1 DEF IsSent
<1>3. p.src = Mac(n) /\ p.dst = Route(dst) /\ IsStartOf(p.payload, Packet(n, a, dst))
      /\ (p.payload # <<>> => p.payload[1] = Opening(n, a, dst))
  BY DEF TakenFrom
<1> HIDE DEF f, a, dst
<1>4. p.payload # <<>> => Names(p, n) /\ Number(p) = a /\ DestinationOf(p) = dst
  <2> DEFINE o == Opening(n, a, dst)
  <2>1. o[2] = n /\ o[3] = a /\ o[4] = dst
    BY DEF Opening
  <2> HIDE DEF o
  <2> QED
    BY <1>3, <2>1 DEF Names, Number, DestinationOf, o
<1>5. ASSUME NEW m \in Ours, Speaks(p, m) PROVE m = n
  <2>1. CASE p.src = Mac(m)
    <3>1. m \in Stations /\ n \in Stations /\ Mac(m) = Mac(n)
      BY <1>3, <2>1 DEF Stations
    <3> QED
      BY <3>1, Stationed
  <2>2. CASE Names(p, m)
    BY <1>4, <2>2 DEF Names
  <2> QED
    BY <1>5, <2>1, <2>2 DEF Speaks
<1>6. KnownIn(n, handed[n], d, p)
  <2>1. p.payload # <<>> =>
          /\ Names(p, n) /\ Number(p) \in 1..d
          /\ p.dst = Route(handed[n][Number(p)]) /\ DestinationOf(p) = handed[n][Number(p)]
          /\ IsStartOf(p.payload, Packet(n, Number(p), handed[n][Number(p)]))
    BY <1>2, <1>3, <1>4 DEF dst
  <2> QED
    BY <1>3, <2>1 DEF KnownIn
<1>7. Names(p, n) => Number(p) = a
  BY <1>4 DEF Names
<1> QED
  BY <1>5, <1>6, <1>7 DEF a, f

(* What the radio sends is known, comes before what it still has, and      *)
(* after what every tap has.                                               *)
LEMMA SentIsKnown ==
  ASSUME NEW n \in Ours, NEW d, NEW k, NEW frames, Sent(n, d, k, frames),
         RadioIs(n, handed[n], d, radio[n]), NEW bytes, NEW needs, MadeOf(n, frames, bytes, needs)
  PROVE  /\ AirFor(n, handed[n], d, SubSeq(radio[n], k + 1, Len(radio[n])), bytes)
         /\ \A m \in Ours : m # n => \A h, e, r : AirFor(m, h, e, r, bytes)
         /\ \A m, t : TapFor(m, n, handed[n], d, radio[n], t) => Follows(n, t, bytes)
         /\ \A m \in Ours : m # n => \A t : Follows(m, t, bytes)
<1> DEFINE r == radio[n]
           h == handed[n]
           x == SubSeq(r, k + 1, Len(r))
<1>1. IsSeq(r) /\ Len(r) \in Nat /\ k \in Nat /\ k <= Len(r)
  BY Shape DEF RadioIs, Sent
<1>2. IsRest(x, r, k)
  BY <1>1, Rest DEF From
<1> HIDE DEF x
<1>3. Len(x) = Len(r) - k /\ \A i \in 1..(Len(r) - k) : x[i] = r[k + i]
  BY <1>1, <1>2 DEF IsRest
<1>4. ASSUME NEW c \in 0..Len(bytes), NEW i \in 1..Len(Capture(bytes, c))
      PROVE  i \in 1..k /\ TakenFrom(Capture(bytes, c)[i], n, frames[i])
  BY <1>4 DEF MadeOf, Capture, Sent
<1>5. ASSUME NEW i \in 1..k, NEW j \in i..Len(r), IsData(r[j])
      PROVE  frames[i] = r[i] /\ No(frames[i]) <= No(r[j])
  <2>1. i \in 1..Len(r) /\ frames[i] = r[i] /\ IsData(r[i])
    BY <1>1 DEF Sent
  <2>2. NotAfter(r[i], r[j])
    BY <2>1 DEF RadioIs
  <2> QED
    BY <1>5, <2>1, <2>2 DEF NotAfter
<1>6. ASSUME NEW c \in 0..Len(bytes)
      PROVE  PacketsFor(n, h, d, x, Capture(bytes, c))
  <2> DEFINE s == Capture(bytes, c)
  <2>1. ASSUME NEW i \in 1..Len(s)
        PROVE  KnownIn(n, h, d, s[i]) /\ Below(n, s[i], x) /\ \A j \in i..Len(s) : Before(n, s[i], s[j])
    <3>1. i \in 1..k /\ TakenFrom(s[i], n, frames[i])
      BY <1>4
    <3>2. KnownIn(n, h, d, s[i]) /\ (Names(s[i], n) => Number(s[i]) = No(frames[i]))
      BY <3>1, TakenIsKnown
    <3>3. ASSUME Names(s[i], n), NEW j \in 1..Len(x), IsData(x[j])
          PROVE  Number(s[i]) <= No(x[j])
      <4>1. k + j \in i..Len(r) /\ x[j] = r[k + j]
        BY <1>1, <1>3, <3>1
      <4> QED
        BY <1>5, <3>1, <3>2, <3>3, <4>1
    <3>4. ASSUME NEW j \in i..Len(s) PROVE Before(n, s[i], s[j])
      <4>0. j \in 1..Len(s)
        BY <3>1
      <4>1. j \in 1..k /\ TakenFrom(s[j], n, frames[j])
        BY <1>4, <4>0
      <4>2. Names(s[j], n) => Number(s[j]) = No(frames[j])
        BY <4>1, TakenIsKnown
      <4>3. frames[j] = r[j] /\ IsData(r[j]) /\ j \in i..Len(r)
        BY <1>1, <3>1, <4>1 DEF Sent
      <4>4. No(frames[i]) <= No(frames[j])
        BY <1>5, <3>1, <4>3
      <4> QED
        BY <3>2, <4>2, <4>4 DEF Before
    <3> HIDE DEF s
    <3> QED
      BY <3>2, <3>3, <3>4 DEF Below
  <2> HIDE DEF s
  <2>2. PacketsFor(n, h, d, x, s)
    BY <2>1 DEF PacketsFor
  <2> QED
    BY <2>2 DEF s
<1>7. ASSUME NEW m \in Ours, m # n, NEW c \in 0..Len(bytes)
      PROVE  \A i \in 1..Len(Capture(bytes, c)) : ~Speaks(Capture(bytes, c)[i], m)
  <2>1. ASSUME NEW i \in 1..Len(Capture(bytes, c)) PROVE ~Speaks(Capture(bytes, c)[i], m)
    <3> DEFINE p == Capture(bytes, c)[i]
    <3>1. i \in 1..k /\ TakenFrom(p, n, frames[i])
      BY <1>4
    <3> HIDE DEF p
    <3>2. Speaks(p, m) => m = n
      BY <3>1, TakenIsKnown
    <3> QED
      BY <1>7, <3>2 DEF p
  <2> QED
    BY <2>1
<1>8. ASSUME NEW m, NEW t, TapFor(m, n, h, d, r, t) PROVE Follows(n, t, bytes)
  <2>1. ASSUME NEW c \in 0..Len(bytes), NEW j \in 1..Len(t), NEW i \in 1..Len(Capture(bytes, c))
        PROVE  Before(n, t[j], Capture(bytes, c)[i])
    <3> DEFINE p == Capture(bytes, c)[i]
    <3>1. i \in 1..k /\ TakenFrom(p, n, frames[i])
      BY <1>4
    <3>2. Names(p, n) => Number(p) = No(frames[i])
      BY <3>1, TakenIsKnown
    <3>3. i \in 1..Len(r) /\ frames[i] = r[i] /\ IsData(r[i])
      BY <1>1, <3>1 DEF Sent
    <3>4. Below(n, t[j], r)
      BY <1>8 DEF TapFor
    <3>5. Names(t[j], n) => Number(t[j]) <= No(r[i])
      BY <3>3, <3>4 DEF Below
    <3> QED
      BY <3>2, <3>3, <3>5 DEF Before, p
  <2> QED
    BY <2>1 DEF Follows, AllBefore
<1>9. AirFor(n, h, d, x, bytes)
  BY <1>6 DEF AirFor
<1>10. ASSUME NEW m \in Ours, m # n
       PROVE  (\A g, e, y : AirFor(m, g, e, y, bytes)) /\ (\A t : Follows(m, t, bytes))
  <2>1. \A c \in 0..Len(bytes) : \A g, e, y : PacketsFor(m, g, e, y, Capture(bytes, c))
    BY <1>7, <1>10, NobodyIsKnown
  <2>2. \A c \in 0..Len(bytes) : \A t : AllBefore(m, t, Capture(bytes, c))
    BY <1>7, <1>10, NobodyIsKnown
  <2> QED
    BY <2>1, <2>2 DEF AirFor, Follows
<1> QED
  BY <1>8, <1>9, <1>10 DEF x

(* What nobody of ours is named in.                                        *)
LEMMA NobodyIsHeard ==
  ASSUME NEW n, NEW bytes,
         \A c \in 0..Len(bytes) : \A i \in 1..Len(Capture(bytes, c)) : ~Speaks(Capture(bytes, c)[i], n)
  PROVE  (\A h, d, r : AirFor(n, h, d, r, bytes)) /\ (\A t : Follows(n, t, bytes))
<1>1. \A c \in 0..Len(bytes) : \A h, d, r : PacketsFor(n, h, d, r, Capture(bytes, c))
  BY NobodyIsKnown
<1>2. \A c \in 0..Len(bytes) : \A t : AllBefore(n, t, Capture(bytes, c))
  BY NobodyIsKnown
<1> QED
  BY <1>1, <1>2 DEF AirFor, Follows

(* A silent frame, or one of another make, is heard as nothing of ours.    *)
LEMMA SilentIsHeard ==
  ASSUME NEW bytes, Silent(bytes) \/ bytes = <<>>, NEW n
  PROVE  (\A h, d, r : AirFor(n, h, d, r, bytes)) /\ (\A t : Follows(n, t, bytes))
<1>1. \A c \in 0..Len(bytes) : Len(Capture(bytes, c)) = 0
  BY SilentUnwraps DEF Capture
<1>2. \A c \in 0..Len(bytes) : \A i \in 1..Len(Capture(bytes, c)) : FALSE
  BY <1>1
<1> QED
  BY <1>2, NobodyIsHeard

LEMMA ForeignIsHeard ==
  ASSUME NEW frame \in Foreign, NEW n \in Ours
  PROVE  /\ IsSeq(frame.bytes) /\ IsSeq(frame.needs) /\ UnwrapsByNeed(frame.bytes, frame.needs)
         /\ (\A h, d, r : AirFor(n, h, d, r, frame.bytes)) /\ (\A t : Follows(n, t, frame.bytes))
<1> DEFINE bytes == frame.bytes
<1>1. IsSeq(bytes) /\ IsSeq(frame.needs) /\ UnwrapsByNeed(bytes, frame.needs)
  BY ForeignAssumption, ListsAreSeqs
<1>2. ASSUME NEW c \in 0..Len(bytes), NEW i \in 1..Len(Capture(bytes, c))
      PROVE  ~Speaks(Capture(bytes, c)[i], n)
  <2> DEFINE s == Capture(bytes, c)
  <2>1. \A j \in DOMAIN s : s[j].src # Mac(n) /\ (s[j].payload # <<>> => s[j].payload[1][2] # n)
    BY ForeignAssumption DEF Capture
  <2>2. IsList(s)
    BY <1>1 DEF UnwrapsByNeed, Capture
  <2> HIDE DEF s
  <2>3. DOMAIN s = 1..Len(s)
    BY <2>2, ListsAreSeqs, Shape
  <2>4. i \in DOMAIN s
    BY <2>3 DEF s
  <2> QED
    BY <2>1, <2>4 DEF Speaks, Names, s
<1> HIDE DEF bytes
<1>3. (\A h, d, r : AirFor(n, h, d, r, bytes)) /\ (\A t : Follows(n, t, bytes))
  BY <1>2, NobodyIsHeard
<1> QED
  BY <1>1, <1>3 DEF bytes

-----------------------------------------------------------------------------
(* What a receiver makes of the packets of a capture.                      *)
LEMMA PartsCount ==
  ASSUME NEW m, NEW s, IsSeq(s), NEW refused \in SUBSET ForUs(m, s)
  PROVE  /\ Cardinality(FromSelf(m, s)) \in Nat /\ Cardinality(NotOurs(m, s)) \in Nat
         /\ Cardinality(ForUs(m, s) \ refused) \in Nat /\ Cardinality(refused) \in Nat
         /\ ForUs(m, s) \ refused \in SUBSET (1..Len(s))
         /\ ((Cardinality(FromSelf(m, s)) + Cardinality(NotOurs(m, s)))
              + Cardinality(ForUs(m, s) \ refused)) + Cardinality(refused) = Len(s)
<1> DEFINE D == DOMAIN s
           A == FromSelf(m, s)
           B == NotOurs(m, s)
           C == ForUs(m, s)
           T == C \ refused
<1>1. Len(s) \in Nat /\ D = 1..Len(s)
  BY Shape
<1>2. IsFiniteSet(D) /\ Cardinality(D) = Len(s)
  <2> HIDE DEF D
  <2>1. 1 \in Int /\ Len(s) \in Int /\ Len(s) >= 0
    BY <1>1
  <2>2. IsFiniteSet(1..Len(s)) /\ Cardinality(1..Len(s)) = IF 1 > Len(s) THEN 0 ELSE (Len(s) - 1) + 1
    BY <2>1, FS_Interval
  <2>3. Cardinality(1..Len(s)) = Len(s)
    BY <2>1, <2>2
  <2> QED
    BY <1>1, <2>2, <2>3
<1>3. A \in SUBSET D /\ B \in SUBSET (D \ A) /\ C = D \ (A \cup B)
  BY DEF FromSelf, NotOurs, ForUs
<1>4. T \in SUBSET D /\ refused \in SUBSET D /\ refused \in SUBSET C
  BY <1>3
<1> HIDE DEF A, B, C
<1>5. IsFiniteSet(A) /\ IsFiniteSet(B) /\ IsFiniteSet(T) /\ IsFiniteSet(refused)
  BY <1>2, <1>3, <1>4, FS_Subset
<1> HIDE DEF T, D
<1>6. Cardinality(A) \in Nat /\ Cardinality(B) \in Nat /\ Cardinality(T) \in Nat /\ Cardinality(refused) \in Nat
  BY <1>5, FS_CardinalityType
<1>7. ASSUME NEW X, NEW Y, IsFiniteSet(X), IsFiniteSet(Y), X \cap Y = {}
      PROVE  IsFiniteSet(X \cup Y) /\ Cardinality(X \cup Y) = Cardinality(X) + Cardinality(Y)
  <2>1. IsFiniteSet(X \cup Y) /\ Cardinality(X \cup Y) = Cardinality(X) + (Cardinality(Y) - Cardinality(X \cap Y))
    BY <1>7, FS_Union
  <2>2. Cardinality(X \cap Y) = 0
    BY <1>7, FS_EmptySet
  <2>3. Cardinality(X) \in Nat /\ Cardinality(Y) \in Nat
    BY <1>7, FS_CardinalityType
  <2> QED
    BY <2>1, <2>2, <2>3
<1>8. IsFiniteSet(A \cup B) /\ Cardinality(A \cup B) = Cardinality(A) + Cardinality(B)
  <2>1. A \cap B = {}
    BY <1>3
  <2> QED
    BY <1>5, <1>7, <2>1
<1>9. IsFiniteSet(T \cup refused) /\ Cardinality(T \cup refused) = Cardinality(T) + Cardinality(refused)
  <2>1. T \cap refused = {}
    BY DEF T
  <2> QED
    BY <1>5, <1>7, <2>1
<1>10. Cardinality((A \cup B) \cup (T \cup refused)) = Cardinality(A \cup B) + Cardinality(T \cup refused)
  <2>1. (A \cup B) \cap (T \cup refused) = {}
    BY <1>3, <1>4 DEF T
  <2> QED
    BY <1>7, <1>8, <1>9, <2>1
<1>11. (A \cup B) \cup (T \cup refused) = D
  BY <1>3, <1>4 DEF T
<1>12. ((Cardinality(A) + Cardinality(B)) + Cardinality(T)) + Cardinality(refused) = Len(s)
  <2>1. Len(s) = Cardinality(A \cup B) + Cardinality(T \cup refused)
    BY <1>2, <1>10, <1>11
  <2> QED
    BY <1>6, <1>8, <1>9, <2>1
<1>13. T \in SUBSET (1..Len(s))
  BY <1>1, <1>4
<1> QED
  BY <1>6, <1>12, <1>13 DEF A, B, C, T

(* What is written to the tap.                                             *)
WrittenAs(m, n, h, d, p, e) ==
  TakenBy(m, n, h, d, e) /\ (Names(e, n) <=> Names(p, n)) /\ Number(e) = Number(p)

(* What is written to a tap is right for the station it is written to.     *)
LEMMA WrittenIsTaken ==
  ASSUME NEW m \in Ours, NEW n, NEW h, NEW q, HandedIs(h, q), NEW d \in Nat, d <= Len(h),
         NEW s, IsSeq(s), NEW i \in ForUs(m, s), KnownIn(n, h, d, s[i])
  PROVE  WrittenAs(m, n, h, d, s[i], ToTap(m, s[i]))
<1> DEFINE p == s[i]
           e == ToTap(m, p)
           k == Number(p)
<1>1. i \in DOMAIN s /\ p.src # Mac(m) /\ (p.dst = Mac(m) \/ is_ipv6_multicast(p.dst))
  BY DEF ForUs, FromSelf, NotOurs
<1> HIDE DEF p
<1>2. e.src = p.src /\ e.payload = p.payload
      /\ e.dst = IF p.payload # <<>> /\ IsMulticast(DestinationOf(p))
                 THEN multicast_mac(DestinationOf(p)) ELSE Mac(m)
  BY DEF ToTap
<1> HIDE DEF e
<1>3. (Names(e, n) <=> Names(p, n)) /\ Number(e) = k
  BY <1>2 DEF Names, Number
<1> HIDE DEF k
<1>4. KnownIn(n, h, d, p)
  BY DEF p
<1>5. Names(e, n) => e.src = Mac(n)
  BY <1>2, <1>3, <1>4 DEF KnownIn
<1>6. ASSUME e.src = Mac(n), e.payload # <<>>
      PROVE  /\ Names(e, n) /\ Number(e) \in 1..d
             /\ IsStartOf(e.payload, Packet(n, Number(e), h[Number(e)]))
             /\ \/ h[Number(e)] = IpOf(m) /\ e.dst = Mac(m)
                \/ h[Number(e)] \in Groups /\ e.dst = multicast_mac(h[Number(e)])
  <2>1. Names(p, n) /\ k \in 1..d /\ p.dst = Route(h[k]) /\ DestinationOf(p) = h[k]
        /\ IsStartOf(p.payload, Packet(n, k, h[k]))
    BY <1>2, <1>4, <1>6 DEF KnownIn, k
  <2>2. k \in 1..Len(h)
    <3>1. Len(h) \in Nat
      BY Shape DEF HandedIs
    <3> QED
      BY <2>1, <3>1
  <2>3. h[k] \in Destinations /\ Route(h[k]) # None
    BY <2>2 DEF HandedIs
  <2> DEFINE dst == h[k]
  <2> HIDE DEF dst
  <2>4. \/ dst = IpOf(m) /\ ~IsMulticast(dst)
        \/ dst \in Groups /\ IsMulticast(dst)
    BY <1>1, <2>1, <2>3, DestinationIs DEF dst
  <2>5. \/ dst = IpOf(m) /\ e.dst = Mac(m)
        \/ dst \in Groups /\ e.dst = multicast_mac(dst)
    BY <1>2, <1>6, <2>1, <2>4 DEF dst
  <2> QED
    BY <1>2, <1>3, <2>1, <2>5 DEF dst
<1>7. e.payload = <<>> => e.dst = Mac(m)
  BY <1>2
<1>8. TakenBy(m, n, h, d, e)
  BY <1>1, <1>2, <1>5, <1>6, <1>7 DEF TakenBy
<1> QED
  BY <1>3, <1>8 DEF e, p, k, WrittenAs

(* A reception adds to a tap only what is right and in its order.          *)
LEMMA HearKeeps ==
  ASSUME NEW m \in Ours, NEW n, NEW h, NEW q, HandedIs(h, q), NEW d \in Nat, d <= Len(h), NEW r,
         NEW t, TapFor(m, n, h, d, r, t), NEW s, IsSeq(s), PacketsFor(n, h, d, r, s),
         AllBefore(n, t, s), NEW S, S \in SUBSET ForUs(m, s),
         NEW new, new = [j \in DOMAIN InOrder(S) |-> ToTap(m, s[InOrder(S)[j]])]
  PROVE  TapFor(m, n, h, d, r, t \o new)
<1> DEFINE o == InOrder(S)
           C == Cardinality(S)
           x == t \o new
<1>1. Len(s) \in Nat /\ DOMAIN s = 1..Len(s) /\ S \in SUBSET (1..Len(s))
  <2>1. ForUs(m, s) \in SUBSET DOMAIN s
    BY DEF ForUs
  <2> QED
    BY <2>1, Shape
<1>2. C \in Nat /\ IsSeq(o) /\ Len(o) = C /\ (\A j \in 1..C : o[j] \in S)
      /\ \A j \in 1..C : \A i \in 1..j : o[i] <= o[j]
  BY <1>1, InOrderIs
<1> HIDE DEF o, C
<1>3. IsSeq(new) /\ Len(new) = C /\ \A j \in 1..C : new[j] = ToTap(m, s[o[j]])
  <2>1. DOMAIN o = 1..C
    BY <1>2, Shape
  <2>2. new = [j \in 1..C |-> ToTap(m, s[o[j]])]
    BY <2>1 DEF o
  <2>3. DOMAIN new = 1..C /\ new = [j \in 1..C |-> new[j]]
    BY <2>2
  <2> QED
    BY <1>2, <2>2, <2>3, Listed
<1>4. IsSeq(t) /\ Len(t) \in Nat
  BY Shape DEF TapFor
<1>5. IsJoin(x, t, new)
  BY <1>3, <1>4, Joined
<1> HIDE DEF x
<1>6. ASSUME NEW j \in 1..Len(x)
      PROVE  (j \in 1..Len(t) /\ x[j] = t[j]) \/ (j - Len(t) \in 1..C /\ x[j] = new[j - Len(t)])
  <2>0. Len(x) = Len(t) + C /\ (\A i \in 1..Len(t) : x[i] = t[i]) /\ \A i \in 1..C : x[Len(t) + i] = new[i]
    BY <1>3, <1>5 DEF IsJoin
  <2>1. CASE j <= Len(t)
    <3>1. j \in 1..Len(t)
      BY <1>4, <2>1
    <3> QED
      BY <2>0, <3>1
  <2>2. CASE j > Len(t)
    <3>1. j - Len(t) \in 1..C /\ Len(t) + (j - Len(t)) = j
      BY <1>2, <1>4, <2>0, <2>2
    <3> QED
      BY <2>0, <3>1
  <2> QED
    BY <1>4, <2>1, <2>2
<1>7. ASSUME NEW j \in 1..C
      PROVE  /\ o[j] \in 1..Len(s) /\ TakenBy(m, n, h, d, new[j])
             /\ (Names(new[j], n) <=> Names(s[o[j]], n)) /\ Number(new[j]) = Number(s[o[j]])
  <2>1. o[j] \in ForUs(m, s) /\ o[j] \in 1..Len(s)
    BY <1>1, <1>2
  <2>2. KnownIn(n, h, d, s[o[j]])
    BY <2>1 DEF PacketsFor
  <2> DEFINE i == o[j]
  <2>0. i \in ForUs(m, s) /\ KnownIn(n, h, d, s[i])
    BY <2>1, <2>2
  <2> HIDE DEF i
  <2>3. WrittenAs(m, n, h, d, s[i], ToTap(m, s[i]))
    BY <2>0, WrittenIsTaken
  <2>4. new[j] = ToTap(m, s[i])
    BY <1>3 DEF i
  <2> QED
    BY <2>1, <2>3, <2>4 DEF i, WrittenAs
<1>8. ASSUME NEW j \in 1..C PROVE Below(n, new[j], r)
  <2>1. Below(n, s[o[j]], r)
    BY <1>7 DEF PacketsFor
  <2> QED
    BY <1>7, <2>1 DEF Below
<1>9. ASSUME NEW i \in 1..Len(t), NEW j \in 1..C PROVE Before(n, t[i], new[j])
  <2>1. Before(n, t[i], s[o[j]])
    BY <1>7 DEF AllBefore
  <2> QED
    BY <1>7, <2>1 DEF Before
<1>10. ASSUME NEW i \in 1..C, NEW j \in i..C PROVE Before(n, new[i], new[j])
  <2>1. j \in 1..C /\ i \in 1..j
    BY <1>2
  <2>2. o[i] <= o[j] /\ o[i] \in 1..Len(s) /\ o[j] \in 1..Len(s)
    BY <1>2, <1>7, <2>1
  <2>3. o[j] \in o[i]..Len(s)
    BY <1>1, <2>2
  <2>4. Before(n, s[o[i]], s[o[j]])
    BY <2>2, <2>3 DEF PacketsFor
  <2> QED
    BY <1>7, <2>1, <2>4 DEF Before
<1>11. ASSUME NEW i \in 1..Len(x)
       PROVE  TakenBy(m, n, h, d, x[i]) /\ Below(n, x[i], r)
  BY <1>6, <1>7, <1>8 DEF TapFor
<1>12. ASSUME NEW i \in 1..Len(x), NEW j \in i..Len(x) PROVE Before(n, x[i], x[j])
  <2>0. j \in 1..Len(x) /\ i \in Int /\ j \in Int /\ i <= j
    OBVIOUS
  <2>1. CASE i \in 1..Len(t) /\ x[i] = t[i]
    <3>1. CASE j \in 1..Len(t) /\ x[j] = t[j]
      <4>1. j \in i..Len(t)
        BY <2>0, <3>1
      <4>2. Before(n, t[i], t[j])
        BY <2>1, <4>1 DEF TapFor
      <4> QED
        BY <2>1, <3>1, <4>2
    <3>2. CASE j - Len(t) \in 1..C /\ x[j] = new[j - Len(t)]
      BY <1>9, <2>1, <3>2
    <3> QED
      BY <1>6, <2>0, <3>1, <3>2
  <2>2. CASE i - Len(t) \in 1..C /\ x[i] = new[i - Len(t)]
    <3>1. ~(j \in 1..Len(t))
      BY <1>4, <2>0, <2>2
    <3>2. j - Len(t) \in 1..C /\ x[j] = new[j - Len(t)]
      BY <1>6, <2>0, <3>1
    <3>3. j - Len(t) \in (i - Len(t))..C
      BY <1>2, <1>4, <2>0, <2>2, <3>2
    <3> QED
      BY <1>10, <2>2, <3>2, <3>3
  <2> QED
    BY <1>6, <2>1, <2>2
<1>13. IsSeq(x)
  BY <1>5 DEF IsJoin
<1> QED
  BY <1>11, <1>12, <1>13 DEF TapFor, x

-----------------------------------------------------------------------------
(* One sender, and a step of it.                                           *)
SenderIs(n, h, q, s, r) ==
  HandedIs(h, s) /\ QueueIs(n, h, q) /\ RadioIs(n, h, Len(h) - Len(q), r)
SenderRecent(h, q, r, slack) == Recent(Len(h) - Len(q), r, slack)
SenderMoves(h, q, r, g, p, x) == Moves(h, Len(h) - Len(q), r, g, Len(g) - Len(p), x)
SenderStep(n, h, q, r, g, p, z, x, slack) ==
  SenderIs(n, g, p, z, x) /\ SenderMoves(h, q, r, g, p, x) /\ SenderRecent(g, p, x, slack)

(* The parts of a sender.                                                  *)
LEMMA SenderHas ==
  ASSUME NEW n, NEW h, NEW q, NEW s, NEW r, SenderIs(n, h, q, s, r)
  PROVE  /\ IsSeq(h) /\ Len(h) \in Nat /\ IsSeq(q) /\ Len(q) \in Nat /\ Len(q) <= QueueMax
         /\ IsSeq(r) /\ Len(r) \in Nat /\ Len(r) <= RadioMax
         /\ Len(h) - Len(q) \in Nat /\ Len(h) - Len(q) <= Len(h)
<1>1. IsSeq(h) /\ IsSeq(q) /\ Len(q) <= Len(h) /\ Len(q) <= QueueMax /\ IsSeq(r) /\ Len(r) <= RadioMax
  BY DEF SenderIs, HandedIs, QueueIs, RadioIs
<1>2. Len(h) \in Nat /\ Len(q) \in Nat /\ Len(r) \in Nat
  BY <1>1, Shape
<1> QED
  BY <1>1, <1>2

(* A sender through each of its actions.                                   *)
LEMMA SenderStays ==
  ASSUME NEW n, NEW h, NEW q, NEW s, NEW r, SenderIs(n, h, q, s, r),
         NEW slack, SenderRecent(h, q, r, slack)
  PROVE  SenderStep(n, h, q, r, h, q, s, r, slack)
<1> DEFINE d == Len(h) - Len(q)
<1>1. IsSeq(h) /\ d \in Nat /\ d <= Len(h)
  BY SenderHas
<1>2. RadioIs(n, h, d, r)
  BY DEF SenderIs
<1> HIDE DEF d
<1>3. Moves(h, d, r, h, d, r)
  BY <1>1, <1>2, StillMoves
<1> QED
  BY <1>3 DEF SenderStep, SenderMoves, d

LEMMA SenderReads ==
  ASSUME NEW n, NEW h, NEW q, NEW s, NEW r, SenderIs(n, h, q, s, r),
         NEW slack, SenderRecent(h, q, r, slack), Len(q) < QueueMax,
         NEW dst \in Destinations, Route(dst) # None,
         NEW f, f = FrameOf(Mac(n), Route(dst), s.d11, s.awdl, Packet(n, Len(h) + 1, dst))
  PROVE  SenderStep(n, h, q, r, Append(h, dst), Append(q, f), NextSeqs(s), r, slack)
<1> DEFINE d == Len(h) - Len(q)
           g == Append(h, dst)
           p == Append(q, f)
<1>1. IsSeq(h) /\ IsSeq(q) /\ Len(h) \in Nat /\ Len(q) \in Nat /\ d \in Nat /\ d <= Len(h)
  BY SenderHas
<1>2. HandedIs(h, s) /\ QueueIs(n, h, q) /\ RadioIs(n, h, d, r) /\ Recent(d, r, slack)
  BY DEF SenderIs, SenderRecent
<1>3. HandedIs(g, NextSeqs(s)) /\ QueueIs(n, g, p)
  BY <1>2, ReadKeeps
<1>4. Len(g) = Len(h) + 1 /\ Len(p) = Len(q) + 1
  BY <1>1, Appended
<1>5. Len(g) - Len(p) = d
  BY <1>1, <1>4
<1> HIDE DEF d
<1>6. RadioIs(n, g, d, r) /\ Moves(h, d, r, g, d, r)
  BY <1>1, <1>2, RadioKeeps, StillMoves
<1> HIDE DEF g, p
<1>7. SenderIs(n, g, p, NextSeqs(s), r) /\ SenderRecent(g, p, r, slack)
  BY <1>2, <1>3, <1>5, <1>6 DEF SenderIs, SenderRecent
<1>8. SenderMoves(h, q, r, g, p, r)
  BY <1>5, <1>6 DEF SenderMoves, d
<1>9. SenderStep(n, h, q, r, g, p, NextSeqs(s), r, slack)
  BY <1>7, <1>8 DEF SenderStep
<1> QED
  BY <1>9 DEF g, p

LEMMA SenderDrains ==
  ASSUME NEW n, NEW h, NEW q, NEW s, NEW r, SenderIs(n, h, q, s, r),
         NEW slack \in Nat, SenderRecent(h, q, r, slack), q # <<>>,
         NEW first \in BOOLEAN, NEW others \in Nat, (Len(r) + 1) + others <= RadioMax
  PROVE  SenderStep(n, h, q, r, h, Tail(q), s, r \o Copies(Head(q), first, others),
                    IF first THEN slack ELSE slack + 1)
<1> DEFINE d == Len(h) - Len(q)
           p == Tail(q)
           c == Copies(Head(q), first, others)
           x == r \o c
           room == IF first THEN slack ELSE slack + 1
<1>1. IsSeq(h) /\ IsSeq(q) /\ Len(h) \in Nat /\ Len(q) \in Nat /\ d \in Nat
  BY SenderHas
<1>2. HandedIs(h, s) /\ QueueIs(n, h, q) /\ RadioIs(n, h, d, r) /\ Recent(d, r, slack)
  BY DEF SenderIs, SenderRecent
<1> DEFINE e == d + 1
<1>3. OwnIn(h, n, e, Head(q)) /\ e \in Nat /\ d <= e /\ e > d
  <2>1. Head(q) = q[1] /\ Len(q) \in Nat \ {0}
    BY <1>1, TailIs
  <2>2. 1 \in 1..Len(q)
    BY <2>1
  <2>3. OwnIn(h, n, (Len(h) - Len(q)) + 1, q[1])
    BY <1>2, <2>2 DEF QueueIs
  <2>4. e = (Len(h) - Len(q)) + 1 /\ e \in Nat /\ d <= e /\ e > d
    BY <1>1
  <2> QED
    BY <2>1, <2>3, <2>4
<1>4. QueueIs(n, h, p) /\ Len(h) - Len(p) = e /\ RadioIs(n, h, e, x) /\ Recent(e, x, room)
  <2>1. d = Len(h) - Len(q)
    OBVIOUS
  <2> HIDE DEF d
  <2> QED
    BY <1>1, <1>2, <2>1, DrainKeeps
<1>5. IsSeq(c) /\ \A i \in 1..Len(c) : IsData(c[i]) /\ No(c[i]) = e
  <2> DEFINE f == Head(q)
  <2>1. OwnIn(h, n, e, f) /\ e \in Nat /\ c = Copies(f, first, others)
    BY <1>3
  <2> HIDE DEF e, d, f, c
  <2>2. AreCopies(Copies(f, first, others), h, n, e, first, others)
    BY <2>1, CopiesAre
  <2> QED
    BY <2>1, <2>2 DEF AreCopies
<1> HIDE DEF c, e, p, room, d
<1>6. Moves(h, d, r, h, e, x)
  BY <1>1, <1>2, <1>3, <1>5, TakingMoves
<1> HIDE DEF x
<1>7. SenderIs(n, h, p, s, x) /\ SenderRecent(h, p, x, room)
  BY <1>2, <1>4 DEF SenderIs, SenderRecent
<1>8. SenderMoves(h, q, r, h, p, x)
  BY <1>4, <1>6 DEF SenderMoves, d
<1>9. SenderStep(n, h, q, r, h, p, s, x, room)
  BY <1>7, <1>8 DEF SenderStep
<1> QED
  BY <1>9 DEF p, x, c, room

LEMMA SenderRequests ==
  ASSUME NEW n, NEW h, NEW q, NEW s, NEW r, SenderIs(n, h, q, s, r),
         NEW slack \in Nat, SenderRecent(h, q, r, slack), Len(r) < RadioMax, NEW f, Mute(f)
  PROVE  SenderStep(n, h, q, r, h, q, s, Append(r, f), slack)
<1> DEFINE d == Len(h) - Len(q)
           x == Append(r, f)
<1>1. d \in Nat
  BY SenderHas
<1>2. HandedIs(h, s) /\ QueueIs(n, h, q) /\ RadioIs(n, h, d, r) /\ Recent(d, r, slack)
  BY DEF SenderIs, SenderRecent
<1> HIDE DEF d
<1>3. RadioIs(n, h, d, x) /\ Recent(d, x, slack)
  BY <1>1, <1>2, RequestKeeps
<1>4. Moves(h, d, r, h, d, x)
  BY <1>1, <1>2, RequestMoves, SilentIsNoData DEF Mute
<1> HIDE DEF x
<1>5. SenderStep(n, h, q, r, h, q, s, x, slack)
  BY <1>2, <1>3, <1>4 DEF SenderStep, SenderIs, SenderMoves, SenderRecent, d
<1> QED
  BY <1>5 DEF x

LEMMA SenderEmits ==
  ASSUME NEW n, NEW h, NEW q, NEW s, NEW r, SenderIs(n, h, q, s, r),
         NEW slack \in Nat, SenderRecent(h, q, r, slack), NEW k \in Nat, k <= Len(r)
  PROVE  SenderStep(n, h, q, r, h, q, s, SubSeq(r, k + 1, Len(r)), slack)
<1> DEFINE d == Len(h) - Len(q)
           x == SubSeq(r, k + 1, Len(r))
<1>1. d \in Nat
  BY SenderHas
<1>2. HandedIs(h, s) /\ QueueIs(n, h, q) /\ RadioIs(n, h, d, r) /\ Recent(d, r, slack)
  BY DEF SenderIs, SenderRecent
<1> HIDE DEF d
<1>3. RadioIs(n, h, d, x) /\ Recent(d, x, slack)
  BY <1>1, <1>2, EmitKeeps
<1>4. Moves(h, d, r, h, d, x)
  BY <1>1, <1>2, DroppingMoves
<1> HIDE DEF x
<1>5. SenderStep(n, h, q, r, h, q, s, x, slack)
  BY <1>2, <1>3, <1>4 DEF SenderStep, SenderIs, SenderMoves, SenderRecent, d
<1> QED
  BY <1>5 DEF x

-----------------------------------------------------------------------------
(* All senders, and the faults their drains have had.                      *)
Budgeted == budget \in [faults : Nat, beacons : Nat, events : Nat]
Kept == DOMAIN handed = Ours /\ DOMAIN queue = Ours /\ DOMAIN seqs = Ours /\ DOMAIN radio = Ours
Senders ==
  /\ Kept /\ Budgeted
  /\ \A n \in Ours : SenderIs(n, handed[n], queue[n], seqs[n], radio[n])
Allowance(b) ==
  /\ budget.faults <= b.faults
  /\ \A n \in Ours : SenderRecent(handed[n], queue[n], radio[n], b.faults - budget.faults)
RadioIsRecent == \E b \in Budgets : Allowance(b)
Advance ==
  \A n \in Ours :
    SenderMoves(handed[n], queue[n], radio[n], handed'[n], queue'[n], radio'[n])

(* What a step does to one sender; the faults it cost.                     *)
Stepped(n, cost) ==
  \A slack \in Nat : SenderRecent(handed[n], queue[n], radio[n], slack) =>
    SenderStep(n, handed[n], queue[n], radio[n],
               handed'[n], queue'[n], seqs'[n], radio'[n], slack + cost)

(* If every sender steps, all of them keep what they keep.                 *)
LEMMA Advancing ==
  ASSUME Senders, RadioIsRecent, Kept', Budgeted', NEW cost \in Nat,
         budget'.faults = budget.faults - cost, \A n \in Ours : Stepped(n, cost)
  PROVE  Senders' /\ RadioIsRecent' /\ Advance
<1>1. PICK b \in Budgets : Allowance(b)
  BY DEF RadioIsRecent
<1>2. b.faults \in Nat /\ budget.faults \in Nat /\ budget'.faults \in Nat
  <2>1. b \in [faults : Nat, beacons : Nat, events : Nat]
    BY ExchangeAssumption
  <2> QED
    BY <2>1 DEF Senders, Budgeted
<1> DEFINE slack == b.faults - budget.faults
<1>3. slack \in Nat /\ \A n \in Ours : SenderRecent(handed[n], queue[n], radio[n], slack)
  BY <1>1, <1>2 DEF Allowance
<1>4. ASSUME NEW n \in Ours
      PROVE  SenderStep(n, handed[n], queue[n], radio[n],
                        handed'[n], queue'[n], seqs'[n], radio'[n], slack + cost)
  <2> HIDE DEF slack
  <2> QED
    BY <1>3 DEF Stepped
<1>5. b.faults - budget'.faults = slack + cost /\ budget'.faults <= b.faults
  BY <1>1, <1>2 DEF Allowance
<1>6. \A n \in Ours : SenderIs(n, handed'[n], queue'[n], seqs'[n], radio'[n])
  BY <1>4 DEF SenderStep
<1>7. \A n \in Ours : SenderRecent(handed'[n], queue'[n], radio'[n], b.faults - budget'.faults)
  BY <1>4, <1>5 DEF SenderStep
<1>8. \A n \in Ours :
        SenderMoves(handed[n], queue[n], radio[n], handed'[n], queue'[n], radio'[n])
  BY <1>4 DEF SenderStep
<1>9. Allowance(b)'
  BY <1>5, <1>7 DEF Allowance
<1> QED
  BY <1>6, <1>8, <1>9 DEF Senders, RadioIsRecent, Advance

(* A sender that does nothing.                                             *)
LEMMA OthersStep ==
  ASSUME Senders, NEW n \in Ours, handed'[n] = handed[n], queue'[n] = queue[n],
         seqs'[n] = seqs[n], radio'[n] = radio[n], NEW cost \in Nat
  PROVE  Stepped(n, cost)
<1> DEFINE h == handed[n]
           q == queue[n]
           s == seqs[n]
           r == radio[n]
<1>1. SenderIs(n, h, q, s, r)
  BY DEF Senders
<1> HIDE DEF h, q, s, r
<1>2. ASSUME NEW slack \in Nat, SenderRecent(h, q, r, slack)
      PROVE  SenderStep(n, h, q, r, h, q, s, r, slack + cost)
  <2>1. SenderRecent(h, q, r, slack + cost)
    <3>1. ASSUME NEW i \in 1..Len(r), IsData(r[i])
          PROVE  (Len(h) - Len(q)) - No(r[i]) <= (Len(r) - i) + (slack + cost)
      <4>1. (Len(h) - Len(q)) - No(r[i]) <= (Len(r) - i) + slack
        BY <1>2, <3>1 DEF SenderRecent, Recent
      <4>2. No(r[i]) \in Int /\ Len(h) - Len(q) \in Nat /\ Len(r) \in Nat
        <5>1. Len(h) - Len(q) \in Nat /\ Len(r) \in Nat
          BY <1>1, SenderHas
        <5>2. No(r[i]) \in 1..(Len(h) - Len(q))
          BY <1>1, <3>1 DEF SenderIs, RadioIs, IsSent
        <5> QED
          BY <5>1, <5>2
      <4> DEFINE a == Len(h) - Len(q)
                 y == No(r[i])
      <4> HIDE DEF a, y
      <4>3. a - y <= (Len(r) - i) + slack /\ a \in Nat /\ y \in Int /\ Len(r) \in Nat /\ i \in Int
        BY <3>1, <4>1, <4>2 DEF a, y
      <4>4. a - y <= (Len(r) - i) + (slack + cost)
        BY <4>3
      <4> QED
        BY <4>4 DEF a, y
    <3> QED
      BY <3>1 DEF SenderRecent, Recent
  <2> QED
    BY <1>1, <2>1, SenderStays
<1> QED
  BY <1>2 DEF Stepped, h, q, s, r

(* Steps that leave the senders alone, whatever they cost.                 *)
LEMMA LeftAlone ==
  ASSUME Senders, RadioIsRecent, UNCHANGED <<handed, queue, seqs, radio>>, Budgeted',
         budget'.faults = budget.faults \/ budget'.faults = budget.faults - 1
  PROVE  Senders' /\ RadioIsRecent' /\ Advance
<1>1. Kept'
  BY DEF Senders, Kept
<1>2. budget.faults \in Nat
  BY DEF Senders, Budgeted
<1>3. PICK cost \in Nat : budget'.faults = budget.faults - cost
  <2>1. budget.faults = budget.faults - 0
    BY <1>2
  <2> QED
    BY <2>1
<1>4. \A n \in Ours : Stepped(n, cost)
  BY OthersStep
<1> QED
  BY <1>1, <1>3, <1>4, Advancing

(* What an event and a fault cost.                                         *)
LEMMA BudgetSteps ==
  ASSUME Budgeted
  PROVE  /\ Event => Budgeted' /\ budget'.faults = budget.faults
         /\ \A yes \in BOOLEAN : Fault(yes) =>
              /\ Budgeted'
              /\ budget'.faults = IF yes THEN budget.faults - 1 ELSE budget.faults
<1>1. Event => Budgeted' /\ budget'.faults = budget.faults
  BY DEF Event, Budgeted
<1>2. ASSUME NEW yes \in BOOLEAN, Fault(yes)
      PROVE  Budgeted' /\ budget'.faults = IF yes THEN budget.faults - 1 ELSE budget.faults
  <2>1. CASE yes
    <3>1. budget.faults > 0 /\ budget.events > 0
          /\ budget' = [budget EXCEPT !.faults = @ - 1, !.events = @ - 1]
      BY <1>2, <2>1 DEF Fault
    <3>2. budget.faults \in Nat /\ budget.events \in Nat
      BY DEF Budgeted
    <3>3. budget.faults - 1 \in Nat /\ budget.events - 1 \in Nat
      BY <3>1, <3>2
    <3>4. Budgeted' /\ budget'.faults = budget.faults - 1
      BY <3>1, <3>3 DEF Budgeted
    <3> QED
      BY <2>1, <3>4
  <2>2. CASE ~yes
    <3>1. budget' = budget
      BY <1>2, <2>2 DEF Fault
    <3>2. Budgeted' /\ budget'.faults = budget.faults
      BY <3>1 DEF Budgeted
    <3> QED
      BY <2>2, <3>2
  <2> QED
    BY <2>1, <2>2
<1> QED
  BY <1>1, <1>2

-----------------------------------------------------------------------------
(* The actions of a sender, for all of them.                               *)
LEMMA ReadAdvances ==
  ASSUME Senders, RadioIsRecent, NEW n \in Ours, NEW dst \in Destinations, Read(n, dst)
  PROVE  Senders' /\ RadioIsRecent' /\ Advance
<1> DEFINE h == handed[n]
           q == queue[n]
           s == seqs[n]
           r == radio[n]
           f == FrameOf(Mac(n), Route(dst), s.d11, s.awdl, Packet(n, Len(h) + 1, dst))
<1>1. Len(q) < QueueMax /\ Route(dst) # None
      /\ handed' = [handed EXCEPT ![n] = Append(@, dst)]
      /\ queue' = [queue EXCEPT ![n] = Append(@, f)]
      /\ seqs' = [seqs EXCEPT ![n] = NextSeqs(@)]
      /\ radio' = radio /\ Event
  BY DEF Read, Route
<1>2. Kept /\ Budgeted
  BY DEF Senders
<1> HIDE DEF f
<1>3. Kept'
  BY <1>1, <1>2 DEF Kept
<1>4. Budgeted' /\ budget'.faults = budget.faults - 0
  <2>1. Budgeted' /\ budget'.faults = budget.faults
    BY <1>1, <1>2, BudgetSteps
  <2> QED
    BY <1>2, <2>1 DEF Budgeted
<1>5. handed'[n] = Append(h, dst) /\ queue'[n] = Append(q, f) /\ seqs'[n] = NextSeqs(s) /\ radio'[n] = r
  BY <1>1, <1>2 DEF Kept
<1>6. \A m \in Ours : m # n => handed'[m] = handed[m] /\ queue'[m] = queue[m]
                               /\ seqs'[m] = seqs[m] /\ radio'[m] = radio[m]
  BY <1>1, <1>2 DEF Kept
<1>7. Stepped(n, 0)
  <2>1. SenderIs(n, h, q, s, r) /\ f = FrameOf(Mac(n), Route(dst), s.d11, s.awdl, Packet(n, Len(h) + 1, dst))
    BY DEF Senders, f
  <2> HIDE DEF h, q, s, r
  <2>2. ASSUME NEW slack \in Nat, SenderRecent(h, q, r, slack)
        PROVE  SenderStep(n, h, q, r, Append(h, dst), Append(q, f), NextSeqs(s), r, slack + 0)
    <3>1. SenderStep(n, h, q, r, Append(h, dst), Append(q, f), NextSeqs(s), r, slack)
      BY <1>1, <2>1, <2>2, SenderReads DEF q
    <3>2. slack + 0 = slack
      OBVIOUS
    <3> QED
      BY <3>1, <3>2
  <2> QED
    BY <1>5, <2>2 DEF Stepped, h, q, r
<1>8. \A m \in Ours : Stepped(m, 0)
  BY <1>6, <1>7, OthersStep
<1> QED
  BY <1>3, <1>4, <1>8, Advancing

LEMMA DrainAdvances ==
  ASSUME Senders, RadioIsRecent, NEW n \in Ours, NEW first \in BOOLEAN,
         NEW others \in 0..(Repeat - 1), Drain(n, first, others)
  PROVE  Senders' /\ RadioIsRecent' /\ Advance
<1> DEFINE h == handed[n]
           q == queue[n]
           s == seqs[n]
           r == radio[n]
           c == Copies(Head(q), first, others)
           cost == IF first THEN 0 ELSE 1
<1>0. others \in Nat /\ RadioMax \in Nat
  BY ExchangeAssumption
<1>1. q # <<>> /\ Len(r) + 1 + others <= RadioMax
      /\ queue' = [queue EXCEPT ![n] = Tail(@)]
      /\ radio' = [radio EXCEPT ![n] = @ \o c]
      /\ handed' = handed /\ seqs' = seqs /\ Fault(~first)
  BY DEF Drain
<1>2. Kept /\ Budgeted
  BY DEF Senders
<1> HIDE DEF c
<1>3. Kept'
  BY <1>1, <1>2 DEF Kept
<1>4. Budgeted' /\ budget'.faults = budget.faults - cost /\ cost \in Nat
  <2>1. CASE first
    <3>0. ~first = FALSE
      BY <2>1
    <3>1. Fault(FALSE)
      BY <1>1, <3>0
    <3>2. Budgeted' /\ budget'.faults = budget.faults
      BY <1>2, <3>1, BudgetSteps
    <3>3. budget.faults = budget.faults - 0
      BY <1>2 DEF Budgeted
    <3> QED
      BY <2>1, <3>2, <3>3
  <2>2. CASE ~first
    <3>0. ~first = TRUE
      BY <2>2
    <3>1. Fault(TRUE)
      BY <1>1, <3>0
    <3>2. Budgeted' /\ budget'.faults = budget.faults - 1
      BY <1>2, <3>1, BudgetSteps
    <3> QED
      BY <2>2, <3>2
  <2> QED
    BY <2>1, <2>2
<1> HIDE DEF cost
<1>5. handed'[n] = h /\ queue'[n] = Tail(q) /\ seqs'[n] = s /\ radio'[n] = r \o c
  BY <1>1, <1>2 DEF Kept
<1>6. \A m \in Ours : m # n => handed'[m] = handed[m] /\ queue'[m] = queue[m]
                               /\ seqs'[m] = seqs[m] /\ radio'[m] = radio[m]
  BY <1>1, <1>2 DEF Kept
<1>7. Stepped(n, cost)
  <2>1. SenderIs(n, h, q, s, r)
    BY DEF Senders
  <2>2. (Len(r) + 1) + others <= RadioMax
    <3>1. Len(r) \in Nat
      BY <2>1, SenderHas
    <3> QED
      BY <1>0, <1>1, <3>1
  <2> DEFINE p == Tail(q)
             x == r \o c
  <2>3. q # <<>>
    BY <1>1
  <2> HIDE DEF h, q, s, r
  <2>4. ASSUME NEW slack \in Nat, SenderRecent(h, q, r, slack)
        PROVE  SenderStep(n, h, q, r, h, p, s, x, slack + cost)
    <3>1. SenderStep(n, h, q, r, h, Tail(q), s, r \o Copies(Head(q), first, others),
                     IF first THEN slack ELSE slack + 1)
      BY <1>0, <2>1, <2>2, <2>3, <2>4, SenderDrains
    <3>2. (IF first THEN slack ELSE slack + 1) = slack + cost
      BY DEF cost
    <3>3. SenderStep(n, h, q, r, h, p, s, x, IF first THEN slack ELSE slack + 1)
      BY <3>1 DEF c
    <3> HIDE DEF p, x
    <3> QED
      BY <3>2, <3>3
  <2>5. handed'[n] = h /\ queue'[n] = p /\ seqs'[n] = s /\ radio'[n] = x
    BY <1>5 DEF h, q, s, r
  <2> HIDE DEF p, x
  <2> QED
    BY <2>4, <2>5 DEF Stepped, h, q, r
<1>8. \A m \in Ours : Stepped(m, cost)
  BY <1>4, <1>6, <1>7, OthersStep
<1> QED
  BY <1>3, <1>4, <1>8, Advancing

(* Steps of the radio alone.                                               *)
LEMMA RadioAdvances ==
  ASSUME Senders, RadioIsRecent, NEW n \in Ours, NEW x,
         radio' = [radio EXCEPT ![n] = x], UNCHANGED <<handed, queue, seqs>>,
         Budgeted', budget'.faults = budget.faults,
         \A h, q, s, r, slack : /\ h = handed[n] /\ q = queue[n] /\ s = seqs[n] /\ r = radio[n]
                                /\ slack \in Nat /\ SenderIs(n, h, q, s, r)
                                /\ SenderRecent(h, q, r, slack)
                                => SenderStep(n, h, q, r, h, q, s, x, slack)
  PROVE  Senders' /\ RadioIsRecent' /\ Advance
<1>1. Kept /\ Budgeted
  BY DEF Senders
<1>2. Kept'
  BY <1>1 DEF Kept
<1>3. budget'.faults = budget.faults - 0
  BY <1>1 DEF Budgeted
<1>4. handed'[n] = handed[n] /\ queue'[n] = queue[n] /\ seqs'[n] = seqs[n] /\ radio'[n] = x
  BY <1>1 DEF Kept
<1>5. \A m \in Ours : m # n => handed'[m] = handed[m] /\ queue'[m] = queue[m]
                               /\ seqs'[m] = seqs[m] /\ radio'[m] = radio[m]
  BY <1>1 DEF Kept
<1>6. Stepped(n, 0)
  <2>1. SenderIs(n, handed[n], queue[n], seqs[n], radio[n])
    BY DEF Senders
  <2>2. ASSUME NEW slack \in Nat, SenderRecent(handed[n], queue[n], radio[n], slack)
        PROVE  SenderStep(n, handed[n], queue[n], radio[n], handed[n], queue[n], seqs[n], x, slack + 0)
    <3>1. slack + 0 = slack
      OBVIOUS
    <3> QED
      BY <2>1, <2>2, <3>1
  <2> QED
    BY <1>4, <2>2 DEF Stepped
<1>7. \A m \in Ours : Stepped(m, 0)
  BY <1>5, <1>6, OthersStep
<1> QED
  BY <1>2, <1>3, <1>7, Advancing

LEMMA ProbeAdvances ==
  ASSUME Senders, RadioIsRecent, NEW n \in Ours, NEW master \in Theirs, Probe(n, master)
  PROVE  Senders' /\ RadioIsRecent' /\ Advance
<1> DEFINE f == addba_request(Mac(master), Mac(n), probe[n].seq, NextDialog(n), DEFAULT_TID,
                              seqs[n].d11, BA_WINDOW)
           x == Append(radio[n], f)
<1>1. Event /\ Len(radio[n]) < RadioMax /\ radio' = [radio EXCEPT ![n] = x]
      /\ UNCHANGED <<handed, queue, seqs>>
  BY DEF Probe, sending
<1>2. Budgeted' /\ budget'.faults = budget.faults
  BY <1>1, BudgetSteps DEF Senders
<1>3. Mute(f)
  BY RequestIsMute
<1> HIDE DEF f
<1>4. ASSUME NEW h, NEW q, NEW s, NEW r, NEW slack \in Nat, r = radio[n],
             SenderIs(n, h, q, s, r), SenderRecent(h, q, r, slack)
      PROVE  SenderStep(n, h, q, r, h, q, s, x, slack)
  <2>1. x = Append(r, f) /\ Len(r) < RadioMax
    BY <1>1, <1>4
  <2> HIDE DEF x
  <2> QED
    BY <1>3, <1>4, <2>1, SenderRequests
<1> HIDE DEF x
<1> QED
  BY <1>1, <1>2, <1>4, RadioAdvances

LEMMA EmitAdvances ==
  ASSUME Senders, RadioIsRecent, NEW n \in Ours, NEW k \in Nat, k <= Len(radio[n]),
         radio' = [radio EXCEPT ![n] = SubSeq(@, k + 1, Len(@))],
         UNCHANGED <<handed, queue, seqs, budget>>
  PROVE  Senders' /\ RadioIsRecent' /\ Advance
<1> DEFINE x == SubSeq(radio[n], k + 1, Len(radio[n]))
<1>1. radio' = [radio EXCEPT ![n] = x]
  OBVIOUS
<1>2. Budgeted' /\ budget'.faults = budget.faults
  BY DEF Senders, Budgeted
<1>3. ASSUME NEW h, NEW q, NEW s, NEW r, NEW slack \in Nat, r = radio[n],
             SenderIs(n, h, q, s, r), SenderRecent(h, q, r, slack)
      PROVE  SenderStep(n, h, q, r, h, q, s, x, slack)
  <2>1. x = SubSeq(r, k + 1, Len(r)) /\ k <= Len(r)
    BY <1>3
  <2> HIDE DEF x
  <2> QED
    BY <1>3, <2>1, SenderEmits
<1> HIDE DEF x
<1> QED
  BY <1>1, <1>2, <1>3, RadioAdvances

-----------------------------------------------------------------------------
(* The air, and the taps.                                                  *)
Gone(n) == Len(handed[n]) - Len(queue[n])
IsOnAir(a) ==
  /\ a = [bytes |-> a.bytes, needs |-> a.needs, to |-> a.to, claims |-> a.claims]
  /\ IsSeq(a.bytes) /\ IsSeq(a.needs) /\ a.to \subseteq Stations
  /\ UnwrapsByNeed(a.bytes, a.needs)
AirIs ==
  /\ IsOnAir(air)
  /\ \A n \in Ours : AirFor(n, handed[n], Gone(n), radio[n], air.bytes)
Taps ==
  /\ DOMAIN tap = Ours
  /\ \A m, n \in Ours : TapFor(m, n, handed[n], Gone(n), radio[n], tap[m])
Order == \A m, n \in Ours : m \in air.to => Follows(n, tap[m], air.bytes)

(* The taps, and what is in the air, while a sender moves.                 *)
LEMMA TapsKeep ==
  ASSUME Advance, Taps, tap' = tap
  PROVE  Taps'
<1>1. DOMAIN tap' = Ours
  BY DEF Taps
<1>2. ASSUME NEW m \in Ours, NEW n \in Ours
      PROVE  TapFor(m, n, handed'[n], Gone(n)', radio'[n], tap'[m])
  <2> DEFINE h == handed[n]
             d == Gone(n)
             r == radio[n]
             g == handed'[n]
             e == Len(handed'[n]) - Len(queue'[n])
             x == radio'[n]
             t == tap[m]
  <2>1. TapFor(m, n, h, d, r, t)
    BY DEF Taps
  <2>2. Moves(h, d, r, g, e, x)
    BY DEF Advance, SenderMoves, Gone
  <2>3. e = Gone(n)' /\ t = tap'[m]
    BY DEF Gone
  <2> HIDE DEF h, d, r, g, e, x, t
  <2>4. TapFor(m, n, g, e, x, t)
    BY <2>1, <2>2, TapStays
  <2> QED
    BY <2>3, <2>4 DEF g, x
<1> QED
  BY <1>1, <1>2 DEF Taps

LEMMA AirKeeps ==
  ASSUME Advance, NEW bytes, NEW n \in Ours, AirFor(n, handed[n], Gone(n), radio[n], bytes)
  PROVE  AirFor(n, handed'[n], Gone(n)', radio'[n], bytes)
<1> DEFINE h == handed[n]
           d == Gone(n)
           r == radio[n]
           g == handed'[n]
           e == Len(handed'[n]) - Len(queue'[n])
           x == radio'[n]
<1>1. AirFor(n, h, d, r, bytes)
  OBVIOUS
<1>2. Moves(h, d, r, g, e, x)
  BY DEF Advance, SenderMoves, Gone
<1>3. e = Gone(n)'
  BY DEF Gone
<1> HIDE DEF h, d, r, g, e, x
<1>4. AirFor(n, g, e, x, bytes)
  BY <1>1, <1>2, AirStays
<1> QED
  BY <1>3, <1>4 DEF g, x

(* A step of a sender while the air is as it was.                          *)
LEMMA Passing ==
  ASSUME Advance, AirIs, Taps, Order, UNCHANGED <<air, tap>>
  PROVE  AirIs' /\ Taps' /\ Order'
<1>1. Taps'
  BY TapsKeep
<1>2. \A n \in Ours : AirFor(n, handed'[n], Gone(n)', radio'[n], air.bytes)
  BY AirKeeps DEF AirIs
<1>3. AirIs'
  BY <1>2 DEF AirIs
<1>4. Order'
  BY DEF Order
<1> QED
  BY <1>1, <1>3, <1>4

(* A frame put on the air, to be heard by all.                             *)
LEMMA PutOnAir ==
  ASSUME Advance, Taps, tap' = tap, IsOnAir(air'), NEW bytes, bytes = air'.bytes,
         \A n \in Ours : AirFor(n, handed'[n], Gone(n)', radio'[n], bytes),
         \A m, n \in Ours : Follows(n, tap[m], bytes)
  PROVE  AirIs' /\ Taps' /\ Order'
<1>1. Taps'
  BY TapsKeep
<1>2. AirIs'
  BY DEF AirIs
<1>3. Order'
  BY DEF Order
<1> QED
  BY <1>1, <1>2, <1>3

(* One that names none of our packets.                                     *)
LEMMA PutSilently ==
  ASSUME Advance, Taps, tap' = tap, IsOnAir(air'),
         \A n \in Ours : /\ \A h, d, r : AirFor(n, h, d, r, air'.bytes)
                         /\ \A t : Follows(n, t, air'.bytes)
  PROVE  AirIs' /\ Taps' /\ Order'
<1> DEFINE bytes == air'.bytes
<1>1. \A n \in Ours : (\A h, d, r : AirFor(n, h, d, r, bytes)) /\ \A t : Follows(n, t, bytes)
  OBVIOUS
<1>2. bytes = air'.bytes
  OBVIOUS
<1> HIDE DEF bytes
<1>3. \A n \in Ours : AirFor(n, handed'[n], Gone(n)', radio'[n], bytes)
  BY <1>1
<1>4. \A m, n \in Ours : Follows(n, tap[m], bytes)
  BY <1>1
<1> QED
  BY <1>2, <1>3, <1>4, PutOnAir

(* What is put on the air, with what it needs.                             *)
LEMMA OnAirIs ==
  ASSUME NEW bytes, IsSeq(bytes), NEW needs, IsSeq(needs), UnwrapsByNeed(bytes, needs), NEW claim
  PROVE  /\ IsOnAir([OnAir(bytes, needs) EXCEPT !.claims = claim])
         /\ [OnAir(bytes, needs) EXCEPT !.claims = claim].bytes = bytes
         /\ IsOnAir(OnAir(bytes, needs)) /\ OnAir(bytes, needs).bytes = bytes
         /\ OnAir(bytes, needs).claims = {}
<1> DEFINE a == [OnAir(bytes, needs) EXCEPT !.claims = claim]
           b == OnAir(bytes, needs)
<1>1. b = [bytes |-> bytes, needs |-> needs, to |-> Stations, claims |-> {}]
  BY DEF OnAir
<1>2. a = [bytes |-> bytes, needs |-> needs, to |-> Stations, claims |-> claim]
  BY <1>1
<1> HIDE DEF a, b
<1>3. a.bytes = bytes /\ a.needs = needs /\ a.to = Stations /\ a.claims = claim
  BY <1>2
<1>4. b.bytes = bytes /\ b.needs = needs /\ b.to = Stations /\ b.claims = {}
  BY <1>1
<1>5. IsOnAir(a)
  BY <1>2, <1>3 DEF IsOnAir
<1>6. IsOnAir(b)
  BY <1>1, <1>4 DEF IsOnAir
<1> QED
  BY <1>3, <1>4, <1>5, <1>6 DEF a, b

(* A management frame.                                                     *)
LEMMA PutManagement ==
  ASSUME Advance, Taps, tap' = tap, NEW bytes, Silent(bytes), NEW claim,
         \/ air' = OnAir(bytes, <<>>)
         \/ air' = [OnAir(bytes, <<>>) EXCEPT !.claims = claim]
  PROVE  AirIs' /\ Taps' /\ Order'
<1>1. IsSeq(bytes) /\ UnwrapsByNeed(bytes, <<>>) /\ IsSeq(<<>>)
  BY SilentUnwraps, NoneIsList
<1>2. IsOnAir(air') /\ air'.bytes = bytes
  <2> DEFINE a == [OnAir(bytes, <<>>) EXCEPT !.claims = claim]
             b == OnAir(bytes, <<>>)
  <2>1. IsOnAir(a) /\ a.bytes = bytes /\ IsOnAir(b) /\ b.bytes = bytes
    <3> DEFINE none == <<>>
    <3>1. IsSeq(none) /\ UnwrapsByNeed(bytes, none)
      BY <1>1
    <3> DEFINE c == [OnAir(bytes, none) EXCEPT !.claims = claim]
               d == OnAir(bytes, none)
    <3> HIDE DEF none
    <3>2. IsOnAir(c) /\ c.bytes = bytes /\ IsOnAir(d) /\ d.bytes = bytes
      BY <1>1, <3>1, OnAirIs
    <3> QED
      BY <3>2 DEF none
  <2>2. air' = a \/ air' = b
    OBVIOUS
  <2> HIDE DEF a, b
  <2> QED
    BY <2>1, <2>2
<1>3. \A n \in Ours : (\A h, d, r : AirFor(n, h, d, r, bytes)) /\ \A t : Follows(n, t, bytes)
  BY SilentIsHeard
<1> QED
  BY <1>2, <1>3, PutSilently

-----------------------------------------------------------------------------
(* The steps that put a frame on the air.                                  *)
LEMMA EmitKeepsAll ==
  ASSUME Senders, RadioIsRecent, AirIs, Taps, Order,
         NEW n \in Ours, NEW k \in 1..RadioMax, NEW shape \in Shapes, Emit(n, k, shape)
  PROVE  Senders' /\ RadioIsRecent' /\ AirIs' /\ Taps' /\ Order'
<1> DEFINE r == radio[n]
           d == Gone(n)
           frames == SubSeq(r, 1, k)
           bytes == Shaped(frames, shape)
           needs == NeedsOf(frames, shape)
           rest == SubSeq(r, k + 1, Len(r))
<1>0. k \in Nat \ {0}
  BY ExchangeAssumption
<1>1. /\ k <= Len(r)
      /\ \A i \in 1..k : IsData(frames[i]) /\ frames[i][2] = frames[1][2]
      /\ shape \in Alone => k = 1
      /\ air' = OnAir(bytes, needs)
      /\ radio' = [radio EXCEPT ![n] = rest]
      /\ UNCHANGED <<handed, queue, seqs, tap, budget>>
  BY DEF Emit, sending, receiving
<1>2. SenderIs(n, handed[n], queue[n], seqs[n], r) /\ DOMAIN radio = Ours
  BY DEF Senders, Kept
<1>3. IsSeq(r) /\ Len(r) \in Nat /\ d \in Nat /\ d <= Len(handed[n])
  BY <1>2, SenderHas DEF Gone
<1>4. RadioIs(n, handed[n], d, r)
  BY <1>2 DEF SenderIs, Gone
<1>5. Senders' /\ RadioIsRecent' /\ Advance
  BY <1>0, <1>1, EmitAdvances
<1>6. IsSeq(frames) /\ Len(frames) = k /\ \A i \in 1..k : frames[i] = r[i]
  <2>1. IsPiece(frames, r, 1, k)
    BY <1>0, <1>1, <1>3, Piece
  <2> HIDE DEF frames
  <2> QED
    BY <1>0, <2>1 DEF IsPiece
<1> HIDE DEF bytes, needs, frames, rest
<1>7. Sent(n, d, k, frames)
  BY <1>0, <1>1, <1>3, <1>6 DEF Sent
<1>8. Together(n, frames)
  <2>1. ASSUME NEW i \in 1..k
        PROVE  /\ No(frames[i]) \in Nat /\ Own(n, No(frames[i]), frames[i])
               /\ frames[i][2] = frames[1][2]
    <3>1. i \in 1..Len(r) /\ frames[i] = r[i] /\ IsData(frames[i])
      BY <1>0, <1>1, <1>3, <1>6
    <3>2. IsSent(handed[n], n, d, r[i])
      BY <1>4, <3>1 DEF RadioIs
    <3>3. No(frames[i]) \in 1..d /\ OwnIn(handed[n], n, No(frames[i]), frames[i])
      BY <3>1, <3>2 DEF IsSent
    <3> QED
      BY <1>1, <3>3 DEF Own
  <2> QED
    BY <1>0, <1>6, <2>1 DEF Together
<1>9. MadeOf(n, frames, bytes, needs)
  BY <1>1, <1>6, <1>8, ShapedIsMadeOf DEF bytes, needs
<1>10. IsOnAir(air') /\ air'.bytes = bytes
  BY <1>1, <1>9, OnAirIs DEF MadeOf
<1>11. /\ AirFor(n, handed[n], d, rest, bytes)
       /\ \A m \in Ours : m # n => \A h, e, x : AirFor(m, h, e, x, bytes)
       /\ \A m, t : TapFor(m, n, handed[n], d, r, t) => Follows(n, t, bytes)
       /\ \A m \in Ours : m # n => \A t : Follows(m, t, bytes)
  BY <1>4, <1>7, <1>9, SentIsKnown DEF rest
<1>12. \A m \in Ours : AirFor(m, handed'[m], Gone(m)', radio'[m], bytes)
  <2>1. AirFor(n, handed'[n], Gone(n)', radio'[n], bytes)
    <3>1. handed'[n] = handed[n] /\ Gone(n)' = d /\ radio'[n] = rest
      BY <1>1, <1>2 DEF Gone
    <3> QED
      BY <1>11, <3>1
  <2> QED
    BY <1>11, <2>1
<1>13. ASSUME NEW m \in Ours, NEW o \in Ours PROVE Follows(o, tap[m], bytes)
  <2>1. TapFor(m, n, handed[n], d, r, tap[m])
    BY DEF Taps
  <2> QED
    BY <1>11, <2>1
<1>14. tap' = tap
  BY <1>1
<1> QED
  BY <1>5, <1>10, <1>12, <1>13, <1>14, PutOnAir

(* EmitRequest, EmitForeign, Answer and Announce put silent frames, or     *)
(* those of others, on the air.                                            *)
LEMMA RequestKeepsAll ==
  ASSUME Senders, RadioIsRecent, AirIs, Taps, Order, NEW n \in Ours, EmitRequest(n)
  PROVE  Senders' /\ RadioIsRecent' /\ AirIs' /\ Taps' /\ Order'
<1> DEFINE r == radio[n]
           f == Head(r)
<1>1. r # <<>> /\ ~IsData(f) /\ air' = OnAir(f, <<>>) /\ radio' = [radio EXCEPT ![n] = Tail(@)]
      /\ UNCHANGED <<handed, queue, seqs, tap, budget>>
  BY DEF EmitRequest, sending, receiving
<1>2. SenderIs(n, handed[n], queue[n], seqs[n], r)
  BY DEF Senders
<1>3. IsSeq(r) /\ Len(r) \in Nat
  BY <1>2, SenderHas
<1>4. Len(r) \in Nat \ {0} /\ f = r[1] /\ 1 <= Len(r) /\ 1 \in 1..Len(r)
  BY <1>1, <1>3, TailIs
<1>5. radio' = [radio EXCEPT ![n] = SubSeq(@, 1 + 1, Len(@))]
  <2> DEFINE p == Tail(r)
             x == SubSeq(r, 1 + 1, Len(r))
  <2>1. IsSeq(p) /\ Len(p) = Len(r) - 1 /\ \A i \in 1..(Len(r) - 1) : p[i] = r[i + 1]
    BY <1>1, <1>3, TailIs
  <2>2. IsRest(x, r, 1)
    BY <1>3, Rest DEF From
  <2> HIDE DEF p, x
  <2>3. IsSeq(x) /\ Len(x) = Len(r) - 1 /\ \A i \in 1..(Len(r) - 1) : x[i] = r[1 + i]
    BY <1>4, <2>2 DEF IsRest
  <2>4. \A i \in 1..Len(p) : p[i] = x[i]
    <3>1. \A i \in 1..(Len(r) - 1) : i + 1 = 1 + i
      BY <1>4
    <3> QED
      BY <2>1, <2>3, <3>1
  <2>5. p = x
    BY <2>1, <2>3, <2>4, Same
  <2>6. radio' = [radio EXCEPT ![n] = p]
    BY <1>1 DEF p
  <2>7. radio' = [radio EXCEPT ![n] = x]
    BY <2>5, <2>6
  <2> QED
    BY <2>7 DEF x
<1>6. Silent(f)
  <2>1. IsSent(handed[n], n, Gone(n), r[1])
    BY <1>2, <1>4 DEF SenderIs, RadioIs, Gone
  <2> QED
    BY <1>1, <1>4, <2>1 DEF IsSent, Mute
<1>7. Senders' /\ RadioIsRecent' /\ Advance
  BY <1>1, <1>4, <1>5, EmitAdvances
<1> HIDE DEF f
<1>8. tap' = tap /\ air' = OnAir(f, <<>>)
  BY <1>1
<1> QED
  BY <1>6, <1>7, <1>8, PutManagement

LEMMA ForeignKeepsAll ==
  ASSUME Senders, RadioIsRecent, AirIs, Taps, Order, NEW frame \in Foreign, EmitForeign(frame)
  PROVE  Senders' /\ RadioIsRecent' /\ AirIs' /\ Taps' /\ Order'
<1> DEFINE bytes == frame.bytes
           needs == frame.needs
           claim == frame.claims
<1>1. Event /\ air' = [OnAir(bytes, needs) EXCEPT !.claims = claim]
      /\ UNCHANGED <<handed, queue, seqs, radio, tap>>
  BY DEF EmitForeign, sending, receiving
<1>2. Budgeted' /\ budget'.faults = budget.faults
  BY <1>1, BudgetSteps DEF Senders
<1>3. Senders' /\ RadioIsRecent' /\ Advance
  BY <1>1, <1>2, LeftAlone
<1>4. \A n \in Ours : (\A h, d, r : AirFor(n, h, d, r, bytes)) /\ \A t : Follows(n, t, bytes)
  BY ForeignIsHeard
<1>5. IsSeq(bytes) /\ IsSeq(needs) /\ UnwrapsByNeed(bytes, needs)
  BY ForeignAssumption, ListsAreSeqs
<1> HIDE DEF bytes, needs, claim
<1>6. IsOnAir(air') /\ air'.bytes = bytes
  BY <1>1, <1>5, OnAirIs
<1> QED
  BY <1>1, <1>3, <1>4, <1>6, PutSilently

LEMMA AnswerKeepsAll ==
  ASSUME Senders, RadioIsRecent, AirIs, Taps, Order, NEW from \in Theirs, Answer(from)
  PROVE  Senders' /\ RadioIsRecent' /\ AirIs' /\ Taps' /\ Order'
<1> DEFINE bytes == Answered(air.bytes, from)
<1>1. air' = OnAir(bytes, <<>>) /\ UNCHANGED <<handed, queue, seqs, radio, tap, budget>>
  BY DEF Answer, sending, receiving
<1>2. Budgeted' /\ budget'.faults = budget.faults
  BY <1>1 DEF Senders, Budgeted
<1>3. Senders' /\ RadioIsRecent' /\ Advance
  BY <1>1, <1>2, LeftAlone
<1>4. Silent(bytes)
  BY AnswerIsMute DEF Mute
<1> HIDE DEF bytes
<1> QED
  BY <1>1, <1>3, <1>4, PutManagement

LEMMA AnnounceKeepsAll ==
  ASSUME Senders, RadioIsRecent, AirIs, Taps, Order,
         NEW n, NEW config, NEW t, NEW own, Announce(n, config, t, own)
  PROVE  Senders' /\ RadioIsRecent' /\ AirIs' /\ Taps' /\ Order'
<1> DEFINE h == Host(n, t)
           beacon == [addr |-> Mac(n), sent |-> beacons[n].sent, config |-> config,
                      follow |-> set_follow(cluster[n], Mac(n), config.metric, h)]
           subtype == IF beacons[n].sent % (PsfPerMif + 1) = 0 THEN SUBTYPE_MIF ELSE SUBTYPE_PSF
           bytes == Frame(beacon, subtype, h)
           claim == {[src |-> Mac(n), at |-> t, own |-> own, timed |-> beacon.follow # None
                        /\ beacon.follow.aw_counter # None, phy_tx_time |-> h + Latency,
                      tags |-> Meant(TlvsOf(beacon, subtype, h))]}
<1>1. air' = [OnAir(bytes, <<>>) EXCEPT !.claims = claim]
  BY DEF Announce
<1>2. UNCHANGED <<handed, queue, seqs, radio, tap>>
      /\ budget.beacons > 0 /\ budget' = [budget EXCEPT !.beacons = @ - 1]
  BY DEF Announce, sending, receiving
<1>3. Silent(bytes)
  BY BeaconIsSilent
<1> HIDE DEF bytes, claim
<1>4. Budgeted' /\ budget'.faults = budget.faults
  <2>1. Budgeted
    BY DEF Senders
  <2>2. budget.beacons \in Nat /\ budget.beacons - 1 \in Nat
    BY <1>2, <2>1 DEF Budgeted
  <2> QED
    BY <1>2, <2>1, <2>2 DEF Budgeted
<1>5. Senders' /\ RadioIsRecent' /\ Advance
  BY <1>2, <1>4, LeftAlone
<1> QED
  BY <1>1, <1>2, <1>3, <1>5, PutManagement

(* Read, Drain and Probe leave the air and the taps alone.                 *)
LEMMA SendingKeepsAll ==
  ASSUME Senders, RadioIsRecent, AirIs, Taps, Order
  PROVE  /\ \A n \in Ours, dst \in Destinations :
              Read(n, dst) => Senders' /\ RadioIsRecent' /\ AirIs' /\ Taps' /\ Order'
         /\ \A n \in Ours, first \in BOOLEAN, others \in 0..(Repeat - 1) :
              Drain(n, first, others) => Senders' /\ RadioIsRecent' /\ AirIs' /\ Taps' /\ Order'
         /\ \A n \in Ours, master \in Theirs :
              Probe(n, master) => Senders' /\ RadioIsRecent' /\ AirIs' /\ Taps' /\ Order'
         /\ UNCHANGED vars => Senders' /\ RadioIsRecent' /\ AirIs' /\ Taps' /\ Order'
<1>1. ASSUME NEW n \in Ours, NEW dst \in Destinations, Read(n, dst)
      PROVE  Senders' /\ RadioIsRecent' /\ AirIs' /\ Taps' /\ Order'
  <2>1. UNCHANGED <<air, tap>>
    BY <1>1 DEF Read, receiving
  <2>2. Senders' /\ RadioIsRecent' /\ Advance
    BY <1>1, ReadAdvances
  <2> QED
    BY <2>1, <2>2, Passing
<1>2. ASSUME NEW n \in Ours, NEW first \in BOOLEAN, NEW others \in 0..(Repeat - 1), Drain(n, first, others)
      PROVE  Senders' /\ RadioIsRecent' /\ AirIs' /\ Taps' /\ Order'
  <2>1. UNCHANGED <<air, tap>>
    BY <1>2 DEF Drain, receiving
  <2>2. Senders' /\ RadioIsRecent' /\ Advance
    BY <1>2, DrainAdvances
  <2> QED
    BY <2>1, <2>2, Passing
<1>3. ASSUME NEW n \in Ours, NEW master \in Theirs, Probe(n, master)
      PROVE  Senders' /\ RadioIsRecent' /\ AirIs' /\ Taps' /\ Order'
  <2>1. UNCHANGED <<air, tap>>
    BY <1>3 DEF Probe, receiving
  <2>2. Senders' /\ RadioIsRecent' /\ Advance
    BY <1>3, ProbeAdvances
  <2> QED
    BY <2>1, <2>2, Passing
<1>4. ASSUME UNCHANGED vars
      PROVE  Senders' /\ RadioIsRecent' /\ AirIs' /\ Taps' /\ Order'
  <2>1. UNCHANGED <<handed, queue, seqs, radio, air, tap, budget>>
    BY <1>4 DEF vars, sending, receiving
  <2>2. Budgeted' /\ budget'.faults = budget.faults
    BY <2>1 DEF Senders, Budgeted
  <2>3. Senders' /\ RadioIsRecent' /\ Advance
    BY <2>1, <2>2, LeftAlone
  <2> QED
    BY <2>1, <2>3, Passing
<1> QED
  BY <1>1, <1>2, <1>3, <1>4

-----------------------------------------------------------------------------
(* A reception.                                                            *)
Reached(cut) == {i \in DOMAIN air.needs : air.needs[i] < cut}

(* A reception is cut within what was sent; and as many packets are taken  *)
(* as it reached.                                                          *)
LEMMA CutsAre ==
  ASSUME IsOnAir(air), NEW cut \in Cuts
  PROVE  cut \in 0..(Len(air.bytes) + 1)
<1>1. IsSeq(air.bytes) /\ Len(air.bytes) \in Nat /\ DOMAIN air.bytes = 1..Len(air.bytes)
  BY Shape DEF IsOnAir
<1>2. \A i \in DOMAIN air.needs : air.needs[i] \in 1..Len(air.bytes)
  BY DEF IsOnAir, UnwrapsByNeed
<1>3. CASE cut \in {0, 1, Whole - 1, Whole}
  BY <1>1, <1>3 DEF Whole
<1>4. CASE cut \in AroundNeeds
  <2>1. PICK n \in {air.needs[i] : i \in DOMAIN air.needs} : cut \in {n, n + 1}
    BY <1>4 DEF AroundNeeds
  <2>2. n \in 1..Len(air.bytes)
    BY <1>2, <2>1
  <2> QED
    BY <1>1, <2>1, <2>2
<1>5. CASE cut \in TagsEnd
  BY <1>1, <1>5 DEF TagsEnd
<1>6. cut \in {0, 1, Whole - 1, Whole} \/ cut \in AroundNeeds \/ cut \in TagsEnd
  BY DEF Cuts
<1> QED
  BY <1>3, <1>4, <1>5, <1>6

(* Its packets are those of a capture, and as many as were carried.        *)
LEMMA HeardIs ==
  ASSUME IsOnAir(air), NEW cut \in Cuts, NEW s, s = Unwrapped(Captured(cut))
  PROVE  /\ IsSeq(s) /\ IsFiniteSet(Reached(cut)) /\ Cardinality(Reached(cut)) = Len(s)
         /\ s = <<>> \/ \E c \in 0..Len(air.bytes) : s = Capture(air.bytes, c)
<1> DEFINE bytes == air.bytes
           needs == air.needs
           x == Captured(cut)
<1>1. cut \in 0..(Len(bytes) + 1) /\ IsSeq(bytes) /\ Len(bytes) \in Nat
      /\ IsSeq(needs) /\ UnwrapsByNeed(bytes, needs)
  BY CutsAre, Shape DEF IsOnAir
<1>2. IsCapture(x, bytes, cut)
  <2>1. x = SubSeq(<<Radiotap>> \o bytes, 1, cut)
    BY DEF Captured
  <2> HIDE DEF x, bytes
  <2> QED
    BY <1>1, <2>1, CaptureIs
<1>3. \A i \in DOMAIN needs : needs[i] \in 1..Len(bytes)
  BY <1>1 DEF UnwrapsByNeed
<1>4. IsFiniteSet(DOMAIN needs)
  <2>1. DOMAIN needs = 1..Len(needs) /\ Len(needs) \in Nat
    BY <1>1, Shape
  <2>2. IsFiniteSet(1..Len(needs))
    BY <2>1, FS_Interval
  <2> QED
    BY <2>1, <2>2
<1>5. Reached(cut) \in SUBSET DOMAIN needs
  BY DEF Reached
<1>6. IsFiniteSet(Reached(cut))
  BY <1>4, <1>5, FS_Subset
<1>7. CASE cut = 0
  <2>1. s = <<>>
    BY <1>2, <1>7 DEF Unwrapped, IsCapture
  <2>2. IsSeq(<<>>) /\ Len(<<>>) = 0
    BY NoneIsList
  <2>3. Reached(cut) = {}
    <3>1. \A i \in DOMAIN needs : ~(needs[i] < cut)
      BY <1>1, <1>3, <1>7
    <3> QED
      BY <3>1 DEF Reached
  <2>4. Cardinality(Reached(cut)) = 0
    BY <2>3, FS_EmptySet
  <2>5. IsSeq(s) /\ Len(s) = 0
    BY <2>1, <2>2
  <2> QED
    BY <1>6, <2>1, <2>4, <2>5
<1>8. CASE cut > 0
  <2> DEFINE c == cut - 1
  <2>1. c \in 0..Len(bytes) /\ s = Capture(bytes, c)
    BY <1>2, <1>8 DEF Unwrapped, Capture, IsCapture
  <2>2. Reached(cut) = Needing(needs, c)
    <3>1. \A i \in DOMAIN needs : needs[i] < cut <=> needs[i] <= c
      BY <1>1, <1>3
    <3> QED
      BY <3>1 DEF Reached, Needing
  <2> HIDE DEF c
  <2>3. IsList(s) /\ Len(s) = Cardinality(Needing(needs, c))
    BY <1>1, <2>1 DEF UnwrapsByNeed, Capture
  <2>4. IsSeq(s)
    BY <2>3, ListsAreSeqs
  <2> QED
    BY <1>6, <2>1, <2>2, <2>3, <2>4
<1> QED
  BY <1>1, <1>7, <1>8

(* What is known of the air is known of a reception.                       *)
LEMMA HeardIsKnown ==
  ASSUME AirIs, NEW cut \in Cuts, NEW s, s = Unwrapped(Captured(cut)), NEW n \in Ours
  PROVE  /\ PacketsFor(n, handed[n], Gone(n), radio[n], s)
         /\ \A m \in Ours : Order /\ m \in air.to => AllBefore(n, tap[m], s)
<1>1. s = <<>> \/ \E c \in 0..Len(air.bytes) : s = Capture(air.bytes, c)
  BY HeardIs DEF AirIs
<1>2. CASE s = <<>>
  <2>1. Len(s) = 0
    BY <1>2, NoneIsList
  <2>2. \A i \in 1..Len(s) : ~Speaks(s[i], n)
    BY <2>1
  <2> QED
    BY <2>2, NobodyIsKnown
<1>3. CASE \E c \in 0..Len(air.bytes) : s = Capture(air.bytes, c)
  <2>1. PICK c \in 0..Len(air.bytes) : s = Capture(air.bytes, c)
    BY <1>3
  <2>2. PacketsFor(n, handed[n], Gone(n), radio[n], s)
    BY <2>1 DEF AirIs, AirFor
  <2>3. ASSUME NEW m \in Ours, Order, m \in air.to PROVE AllBefore(n, tap[m], s)
    <3>1. Follows(n, tap[m], air.bytes)
      BY <2>3 DEF Order
    <3> QED
      BY <2>1, <3>1 DEF Follows
  <2> QED
    BY <2>2, <2>3
<1> QED
  BY <1>1, <1>2, <1>3

(* Hear.                                                                   *)
LEMMA HearKeepsAll ==
  ASSUME Senders, RadioIsRecent, AirIs, Taps, Order,
         NEW m \in Ours, NEW cut \in Cuts, NEW refused, Hear(m, cut, refused)
  PROVE  Senders' /\ RadioIsRecent' /\ AirIs' /\ Taps' /\ Order'
<1> DEFINE s == Unwrapped(Captured(cut))
           S == ForUs(m, s) \ refused
           new == [j \in DOMAIN InOrder(S) |-> ToTap(m, s[InOrder(S)[j]])]
<1>1. /\ m \in air.to /\ Fault(cut # Whole \/ refused # {})
      /\ air' = [air EXCEPT !.to = @ \ {m}]
      /\ tap' = [tap EXCEPT ![m] = @ \o new]
      /\ UNCHANGED <<handed, queue, seqs, radio>>
  BY DEF Hear, Deliver, sending
<1>2. IsSeq(s) /\ s = Unwrapped(Captured(cut))
  BY HeardIs DEF AirIs
<1>3. S \in SUBSET ForUs(m, s)
  OBVIOUS
<1>4. \A n \in Ours : /\ PacketsFor(n, handed[n], Gone(n), radio[n], s)
                      /\ AllBefore(n, tap[m], s)
  BY <1>1, <1>2, HeardIsKnown
<1> HIDE DEF s, S
<1>5. ASSUME NEW n \in Ours
      PROVE  TapFor(m, n, handed[n], Gone(n), radio[n], tap[m] \o new)
  <2> DEFINE h == handed[n]
             d == Gone(n)
             r == radio[n]
             t == tap[m]
             fresh == new
  <2>1. SenderIs(n, h, queue[n], seqs[n], r)
    BY DEF Senders
  <2>2. HandedIs(h, seqs[n]) /\ d \in Nat /\ d <= Len(h)
    BY <2>1, SenderHas DEF SenderIs, Gone
  <2>3. TapFor(m, n, h, d, r, t) /\ PacketsFor(n, h, d, r, s) /\ AllBefore(n, t, s)
    BY <1>4 DEF Taps
  <2>4. fresh = [j \in DOMAIN InOrder(S) |-> ToTap(m, s[InOrder(S)[j]])]
    OBVIOUS
  <2> HIDE DEF h, d, r, t, fresh
  <2>5. TapFor(m, n, h, d, r, t \o fresh)
    BY <1>2, <1>3, <2>2, <2>3, <2>4, HearKeeps
  <2> QED
    BY <2>5 DEF h, d, r, t, fresh
<1> HIDE DEF new
<1>6. Budgeted' /\ (budget'.faults = budget.faults \/ budget'.faults = budget.faults - 1)
  <2> DEFINE yes == cut # Whole \/ refused # {}
  <2>1. yes \in BOOLEAN /\ Fault(yes)
    BY <1>1
  <2> HIDE DEF yes
  <2>2. Budgeted' /\ budget'.faults = IF yes THEN budget.faults - 1 ELSE budget.faults
    BY <2>1, BudgetSteps DEF Senders
  <2> QED
    BY <2>2
<1>7. Senders' /\ RadioIsRecent' /\ Advance
  BY <1>1, <1>6, LeftAlone
<1>8. IsOnAir(air') /\ air'.bytes = air.bytes /\ air'.to \subseteq air.to /\ m \notin air'.to
  <2> DEFINE b == air.bytes
             e == air.needs
             o == air.to
             l == air.claims
  <2>1. air = [bytes |-> b, needs |-> e, to |-> o, claims |-> l] /\ IsSeq(b) /\ IsSeq(e)
        /\ o \subseteq Stations /\ UnwrapsByNeed(b, e)
    BY DEF AirIs, IsOnAir
  <2> HIDE DEF b, e, o, l
  <2>2. air' = [bytes |-> b, needs |-> e, to |-> o \ {m}, claims |-> l]
    BY <1>1, <2>1
  <2>3. air'.bytes = b /\ air'.needs = e /\ air'.to = o \ {m} /\ air'.claims = l
    BY <2>2
  <2>4. IsOnAir(air')
    BY <2>1, <2>2, <2>3 DEF IsOnAir
  <2> QED
    BY <2>3, <2>4 DEF b, o
<1>9. AirIs'
  <2>1. \A n \in Ours : AirFor(n, handed'[n], Gone(n)', radio'[n], air.bytes)
    BY <1>7, AirKeeps DEF AirIs
  <2> QED
    BY <1>8, <2>1 DEF AirIs
<1>10. DOMAIN tap = Ours /\ DOMAIN tap' = Ours /\ tap'[m] = tap[m] \o new
       /\ \A o \in Ours : o # m => tap'[o] = tap[o]
  BY <1>1 DEF Taps
<1>11. Taps'
  <2>1. ASSUME NEW o \in Ours, NEW n \in Ours
        PROVE  TapFor(o, n, handed'[n], Gone(n)', radio'[n], tap'[o])
    <3>1. handed'[n] = handed[n] /\ Gone(n)' = Gone(n) /\ radio'[n] = radio[n]
      BY <1>1 DEF Gone
    <3>2. TapFor(o, n, handed[n], Gone(n), radio[n], tap'[o])
      <4>1. CASE o = m
        BY <1>5, <1>10, <4>1
      <4>2. CASE o # m
        BY <1>10, <4>2 DEF Taps
      <4> QED
        BY <4>1, <4>2
    <3> QED
      BY <3>1, <3>2
  <2> QED
    BY <1>10, <2>1 DEF Taps
<1>12. Order'
  <2>1. ASSUME NEW o \in Ours, NEW n \in Ours, o \in air'.to PROVE Follows(n, tap'[o], air'.bytes)
    <3>1. o # m /\ o \in air.to /\ tap'[o] = tap[o]
      BY <1>8, <1>10, <2>1
    <3>2. Follows(n, tap[o], air.bytes)
      BY <3>1 DEF Order
    <3> QED
      BY <1>8, <3>1, <3>2
  <2> QED
    BY <2>1 DEF Order
<1> QED
  BY <1>7, <1>9, <1>11, <1>12

-----------------------------------------------------------------------------
(* At first nothing is handed over, queued, sent or heard.                 *)
LEMMA InitHolds ==
  ASSUME Init
  PROVE  Senders /\ RadioIsRecent /\ AirIs /\ Taps /\ Order
<1> DEFINE none == <<>>
<1>0. IsSeq(none) /\ Len(none) = 0
  BY NoneIsList
<1>1. /\ handed = [n \in Ours |-> none] /\ queue = [n \in Ours |-> none]
      /\ seqs = [n \in Ours |-> [d11 |-> Earlier % SeqMod, awdl |-> Earlier % AwdlMod]]
      /\ radio = [n \in Ours |-> none] /\ air = Silence /\ tap = [n \in Ours |-> none]
      /\ budget \in Budgets
  BY DEF Init
<1>2. UnwrapsByNeed(none, none)
  BY SilentUnwraps
<1>3. \A n : (\A h, d, r : AirFor(n, h, d, r, none)) /\ \A t : Follows(n, t, none)
  BY SilentIsHeard
<1>4. air = [bytes |-> none, needs |-> none, to |-> {}, claims |-> {}]
  BY <1>1 DEF Silence
<1> HIDE DEF none
<1>5. budget \in [faults : Nat, beacons : Nat, events : Nat] /\ budget.faults \in Nat
      /\ QueueMax \in Nat /\ RadioMax \in Nat /\ Earlier \in Nat
  BY <1>1, ExchangeAssumption
<1>6. ASSUME NEW n \in Ours
      PROVE  /\ handed[n] = none /\ queue[n] = none /\ radio[n] = none /\ tap[n] = none
             /\ seqs[n] = [d11 |-> Earlier % SeqMod, awdl |-> Earlier % AwdlMod]
  BY <1>1
<1>8. HandedIs(none, [d11 |-> Earlier % SeqMod, awdl |-> Earlier % AwdlMod])
  <2>1. Earlier + Len(none) = Earlier
    BY <1>0, <1>5
  <2>2. \A k \in 1..Len(none) : FALSE
    BY <1>0
  <2> QED
    BY <1>0, <2>1, <2>2 DEF HandedIs
<1>9. \A i \in 1..Len(none) : FALSE
  BY <1>0
<1>10. \A n : QueueIs(n, none, none) /\ \A d : RadioIs(n, none, d, none)
  BY <1>0, <1>5, <1>9 DEF QueueIs, RadioIs
<1>11. \A d, slack : Recent(d, none, slack)
  BY <1>9 DEF Recent
<1>12. \A m, n, d : TapFor(m, n, none, d, none, none)
  BY <1>0, <1>9 DEF TapFor
<1>13. Senders
  <2>1. Kept /\ Budgeted
    BY <1>1, <1>5 DEF Kept, Budgeted
  <2>2. \A n \in Ours : SenderIs(n, handed[n], queue[n], seqs[n], radio[n])
    BY <1>6, <1>8, <1>10 DEF SenderIs
  <2> QED
    BY <2>1, <2>2 DEF Senders
<1>14. RadioIsRecent
  <2>1. \A n \in Ours : SenderRecent(handed[n], queue[n], radio[n], budget.faults - budget.faults)
    BY <1>6, <1>11 DEF SenderRecent
  <2>2. Allowance(budget)
    BY <1>5, <2>1 DEF Allowance
  <2> QED
    BY <1>1, <2>2 DEF RadioIsRecent
<1>15. air.bytes = none /\ air.needs = none /\ air.to = {} /\ air.claims = {}
  BY <1>4
<1>16. AirIs
  <2>1. IsOnAir(air)
    BY <1>0, <1>2, <1>4, <1>15 DEF IsOnAir
  <2> QED
    BY <1>3, <1>15, <2>1 DEF AirIs
<1>17. Taps
  <2>1. \A m, n \in Ours : TapFor(m, n, handed[n], Gone(n), radio[n], tap[m])
    BY <1>6, <1>12
  <2> QED
    BY <1>1, <2>1 DEF Taps
<1>18. Order
  BY <1>15 DEF Order
<1> QED
  BY <1>13, <1>14, <1>16, <1>17, <1>18

-----------------------------------------------------------------------------
(* Which action changes what.                                              *)
Reading == \E n \in Ours, dst \in Destinations : Read(n, dst)
Probing == \E n \in Ours, master \in Theirs : Probe(n, master)
Announcing == \E n \in Ours, t \in Instants \cup {now} : \E config, own : Announce(n, config, t, own)
Hearing == \E m \in Ours, cut \in Cuts : \E refused : Hear(m, cut, refused)

LEMMA WhatChanges ==
  ASSUME [Next]_vars
  PROVE  /\ Reading \/ UNCHANGED <<handed, seqs>>
         /\ Announcing \/ UNCHANGED <<now, beacons>>
         /\ Hearing \/ UNCHANGED <<stages, carried>>
         /\ Hearing \/ Probing \/ UNCHANGED probe
<1> DEFINE Goal == /\ Reading \/ UNCHANGED <<handed, seqs>>
                   /\ Announcing \/ UNCHANGED <<now, beacons>>
                   /\ Hearing \/ UNCHANGED <<stages, carried>>
                   /\ Hearing \/ Probing \/ UNCHANGED probe
<1>1. ASSUME NEW n \in Ours, NEW dst \in Destinations, Read(n, dst) PROVE Goal
  <2>1. Reading
    BY <1>1 DEF Reading
  <2>2. UNCHANGED <<now, beacons, stages, carried, probe>>
    BY <1>1 DEF Read, receiving, announcing
  <2> QED
    BY <2>1, <2>2
<1>2. ASSUME NEW n \in Ours, NEW first \in BOOLEAN, NEW others \in 0..(Repeat - 1), Drain(n, first, others)
      PROVE  Goal
  BY <1>2 DEF Drain, receiving, announcing
<1>3. ASSUME NEW n \in Ours, NEW master \in Theirs, Probe(n, master) PROVE Goal
  <2>1. Probing
    BY <1>3 DEF Probing
  <2>2. UNCHANGED <<now, beacons, stages, carried, handed, seqs>>
    BY <1>3 DEF Probe, sending, receiving, announcing
  <2> QED
    BY <2>1, <2>2
<1>4. ASSUME NEW n \in Ours, NEW k \in 1..RadioMax, NEW shape \in Shapes, Emit(n, k, shape) PROVE Goal
  BY <1>4 DEF Emit, sending, receiving, announcing
<1>5. ASSUME NEW n \in Ours, EmitRequest(n) PROVE Goal
  BY <1>5 DEF EmitRequest, sending, receiving, announcing
<1>6. ASSUME NEW frame \in Foreign, EmitForeign(frame) PROVE Goal
  BY <1>6 DEF EmitForeign, sending, receiving, announcing
<1>7. ASSUME NEW from \in Theirs, Answer(from) PROVE Goal
  BY <1>7 DEF Answer, sending, receiving, announcing
<1>8. ASSUME NEW n \in Ours, NEW config, NEW t \in Instants \cup {now}, NEW own \in BOOLEAN,
             Announce(n, config, t, own)
      PROVE  Goal
  <2>1. Announcing
    BY <1>8 DEF Announcing
  <2>2. UNCHANGED <<stages, carried, probe, handed, seqs>>
    BY <1>8 DEF Announce, sending, receiving
  <2> QED
    BY <2>1, <2>2
<1>9. ASSUME NEW m \in Ours, NEW cut \in Cuts, NEW refused, Hear(m, cut, refused) PROVE Goal
  <2>1. Hearing
    BY <1>9 DEF Hearing
  <2>2. UNCHANGED <<now, beacons, handed, seqs>>
    BY <1>9 DEF Hear, sending
  <2> QED
    BY <2>1, <2>2
<1>10. ASSUME UNCHANGED vars PROVE Goal
  BY <1>10 DEF vars, sending, receiving, announcing
<1> HIDE DEF Goal
<1>11. Goal
  BY <1>1, <1>2, <1>3, <1>4, <1>5, <1>6, <1>7, <1>8, <1>9, <1>10 DEF Next
<1> QED
  BY <1>11 DEF Goal

-----------------------------------------------------------------------------
(* The inductive invariant of the deliveries.  Each sender: the queue holds*)
(* the last packets handed over, under their numbers, the radio older ones *)
(* in order and none too old (Recent).  The air: of every start of the     *)
(* frame being sent a receiver makes packets handed over, before what the  *)
(* radio still has, as many as the needs say.  The taps: what was written  *)
(* was handed over, is addressed right, and comes before what the air and  *)
(* the radio hold.                                                         *)
Inv == Senders /\ RadioIsRecent /\ AirIs /\ Taps /\ Order

(* The invariant holds of every behaviour: queue, radio, air and tap are   *)
(* one line that packets move along, in the order and under the numbers    *)
(* they were given (session:1360-1420, 1486-1519, data.rs:257-331).        *)
THEOREM Deliveries == Spec => []Inv
<1>1. Init => Inv
  BY InitHolds DEF Inv
<1>2. Inv /\ [Next]_vars => Inv'
  <2> SUFFICES ASSUME Inv, [Next]_vars
               PROVE  Senders' /\ RadioIsRecent' /\ AirIs' /\ Taps' /\ Order'
    BY DEF Inv
  <2> DEFINE Goal == Senders' /\ RadioIsRecent' /\ AirIs' /\ Taps' /\ Order'
  <2>1. Senders /\ RadioIsRecent /\ AirIs /\ Taps /\ Order
    BY DEF Inv
  <2>2. ASSUME NEW n \in Ours, NEW dst \in Destinations, Read(n, dst) PROVE Goal
    BY <2>1, <2>2, SendingKeepsAll
  <2>3. ASSUME NEW n \in Ours, NEW first \in BOOLEAN, NEW others \in 0..(Repeat - 1),
               Drain(n, first, others)
        PROVE  Goal
    BY <2>1, <2>3, SendingKeepsAll
  <2>4. ASSUME NEW n \in Ours, NEW master \in Theirs, Probe(n, master) PROVE Goal
    BY <2>1, <2>4, SendingKeepsAll
  <2>5. ASSUME NEW n \in Ours, NEW k \in 1..RadioMax, NEW shape \in Shapes, Emit(n, k, shape)
        PROVE  Goal
    BY <2>1, <2>5, EmitKeepsAll
  <2>6. ASSUME NEW n \in Ours, EmitRequest(n) PROVE Goal
    BY <2>1, <2>6, RequestKeepsAll
  <2>7. ASSUME NEW frame \in Foreign, EmitForeign(frame) PROVE Goal
    BY <2>1, <2>7, ForeignKeepsAll
  <2>8. ASSUME NEW from \in Theirs, Answer(from) PROVE Goal
    BY <2>1, <2>8, AnswerKeepsAll
  <2>9. ASSUME NEW n, NEW config, NEW t, NEW own, Announce(n, config, t, own) PROVE Goal
    BY <2>1, <2>9, AnnounceKeepsAll
  <2>10. ASSUME NEW m \in Ours, NEW cut \in Cuts, NEW refused, Hear(m, cut, refused) PROVE Goal
    BY <2>1, <2>10, HearKeepsAll
  <2>11. ASSUME UNCHANGED vars PROVE Goal
    BY <2>1, <2>11, SendingKeepsAll
  <2> HIDE DEF Goal
  <2>12. Goal
    BY <2>2, <2>3, <2>4, <2>5, <2>6, <2>7, <2>8, <2>9, <2>10, <2>11 DEF Next
  <2> QED
    BY <2>12 DEF Goal
<1> QED
  BY <1>1, <1>2, PTL DEF Spec

(* NothingMisdelivered: what a kernel is given is a packet another kernel  *)
(* handed over, or its start, addressed to this station or to a group, and *)
(* never its own echo (deliver_data_frame, session:1486-1519).             *)
THEOREM Delivered == Spec => []NothingMisdelivered
<1>1. Inv => NothingMisdelivered
  <2> SUFFICES ASSUME Inv, NEW m \in Ours, NEW i \in DOMAIN tap[m]
               PROVE  LET e == tap[m][i] IN
                      /\ e.src # Mac(m)
                      /\ e.payload = <<>> => e.dst = Mac(m)
                      /\ \A n \in Ours : e.src = Mac(n) /\ e.payload # <<>> =>
                           /\ Names(e, n) /\ Number(e) \in DOMAIN handed[n]
                           /\ LET dst == handed[n][Number(e)] IN
                              /\ IsStartOf(e.payload, Packet(n, Number(e), dst))
                              /\ \/ dst = IpOf(m) /\ e.dst = Mac(m)
                                 \/ dst \in Groups /\ e.dst = multicast_mac(dst)
    BY DEF NothingMisdelivered
  <2> DEFINE t == tap[m]
             e == t[i]
  <2>1. ASSUME NEW n \in Ours
        PROVE  /\ TakenBy(m, n, handed[n], Gone(n), e)
               /\ Gone(n) \in Nat /\ Gone(n) <= Len(handed[n]) /\ DOMAIN handed[n] = 1..Len(handed[n])
               /\ Len(handed[n]) \in Nat
    <3>1. TapFor(m, n, handed[n], Gone(n), radio[n], t)
      BY DEF Inv, Taps
    <3>2. IsSeq(t) /\ i \in DOMAIN t
      BY <3>1 DEF TapFor
    <3>3. i \in 1..Len(t)
      <4> HIDE DEF t
      <4> QED
        BY <3>2, Shape
    <3>4. TakenBy(m, n, handed[n], Gone(n), e)
      BY <3>1, <3>3 DEF TapFor
    <3>5. SenderIs(n, handed[n], queue[n], seqs[n], radio[n])
      BY DEF Inv, Senders
    <3>6. IsSeq(handed[n]) /\ Gone(n) \in Nat /\ Gone(n) <= Len(handed[n])
      BY <3>5, SenderHas DEF Gone
    <3> QED
      BY <3>4, <3>6, Shape
  <2> HIDE DEF t, e
  <2>2. e.src # Mac(m) /\ (e.payload = <<>> => e.dst = Mac(m))
    BY <2>1 DEF TakenBy
  <2>3. ASSUME NEW n \in Ours, e.src = Mac(n), e.payload # <<>>
        PROVE  LET dst == handed[n][Number(e)] IN
               /\ Names(e, n) /\ Number(e) \in DOMAIN handed[n]
               /\ IsStartOf(e.payload, Packet(n, Number(e), dst))
               /\ \/ dst = IpOf(m) /\ e.dst = Mac(m)
                  \/ dst \in Groups /\ e.dst = multicast_mac(dst)
    <3>1. TakenBy(m, n, handed[n], Gone(n), e)
      BY <2>1
    <3>2. Number(e) \in 1..Gone(n)
      BY <2>3, <3>1 DEF TakenBy
    <3>3. Number(e) \in DOMAIN handed[n]
      BY <2>1, <3>2
    <3> QED
      BY <2>3, <3>1, <3>3 DEF TakenBy
  <2> QED
    BY <2>2, <2>3 DEF e, t
<1> QED
  BY <1>1, Deliveries, PTL

(* OrderKept: packets of one sender reach a kernel in the order they were  *)
(* handed over, whatever is repeated, aggregated, cut or lost              *)
(* (session:1414, data.rs:255).                                            *)
THEOREM Ordered == Spec => []OrderKept
<1>1. Inv => OrderKept
  <2> SUFFICES ASSUME Inv, NEW m \in Ours, NEW n \in Ours, NEW j \in DOMAIN tap[m], NEW i \in 1..j,
                      Names(tap[m][i], n), Names(tap[m][j], n)
               PROVE  Number(tap[m][i]) <= Number(tap[m][j])
    BY DEF OrderKept
  <2> DEFINE t == tap[m]
  <2>1. TapFor(m, n, handed[n], Gone(n), radio[n], t)
    BY DEF Inv, Taps
  <2>2. IsSeq(t) /\ j \in DOMAIN t
    BY <2>1 DEF TapFor
  <2>3. j \in 1..Len(t) /\ Len(t) \in Nat
    <3> HIDE DEF t
    <3> QED
      BY <2>2, Shape
  <2>4. i \in 1..Len(t) /\ j \in i..Len(t)
    BY <2>3
  <2>5. Before(n, t[i], t[j])
    BY <2>1, <2>4 DEF TapFor
  <2> QED
    BY <2>5 DEF Before
<1> QED
  BY <1>1, Deliveries, PTL

-----------------------------------------------------------------------------
(* What only one action touches: the numbers, the clocks, the probe and    *)
(* the tallies.                                                            *)
Numbers ==
  /\ handed \in [Ours -> Seq(Destinations)]
  /\ seqs \in [Ours -> [d11 : 0..(SeqMod - 1), awdl : 0..(AwdlMod - 1)]]
Clocks ==
  /\ now \in Nat /\ DOMAIN beacons = Ours
  /\ \A n \in Ours : /\ now >= EpochOf[n]
                     /\ beacons[n].last \in Int /\ Host(n, now) >= beacons[n].last
Probes ==
  /\ probe \in [Ours -> [{"dialog", "seq", "resp", "ack"} -> Nat]]
  /\ ProbeHearsNothing
Tallied ==
  /\ stages \in [Ours -> [DOMAIN NoStages -> Nat]]
  /\ carried \in [Ours -> Nat]
  /\ PacketsAreAccounted

(* Read alone hands over, Announce alone turns the clock, Probe and Hear   *)
(* alone touch the probe, and Hear alone the tallies.                      *)
LEMMA NumbersStep ==
  ASSUME Numbers, [Next]_vars
  PROVE  Numbers'
<1>0. SeqMod \in Nat \ {0} /\ AwdlMod \in Nat \ {0}
  BY ExchangeAssumption
<1>1. CASE UNCHANGED <<handed, seqs>>
  BY <1>1 DEF Numbers
<1>2. CASE Reading
  <2>1. PICK n \in Ours, dst \in Destinations : Read(n, dst)
    BY <1>2 DEF Reading
  <2>2. handed' = [handed EXCEPT ![n] = Append(@, dst)] /\ seqs' = [seqs EXCEPT ![n] = NextSeqs(@)]
    BY <2>1 DEF Read
  <2>3. handed[n] \in Seq(Destinations) /\ seqs[n] \in [d11 : 0..(SeqMod - 1), awdl : 0..(AwdlMod - 1)]
    BY DEF Numbers
  <2>4. Append(handed[n], dst) \in Seq(Destinations)
    BY <2>3
  <2>5. NextSeqs(seqs[n]) \in [d11 : 0..(SeqMod - 1), awdl : 0..(AwdlMod - 1)]
    <3>1. seqs[n].d11 \in Nat /\ seqs[n].awdl \in Nat
      BY <1>0, <2>3
    <3>2. (seqs[n].d11 + 1) % SeqMod \in 0..(SeqMod - 1) /\ (seqs[n].awdl + 1) % AwdlMod \in 0..(AwdlMod - 1)
      BY <1>0, <3>1
    <3> QED
      BY <3>2 DEF NextSeqs
  <2> QED
    BY <2>2, <2>4, <2>5 DEF Numbers
<1> QED
  BY <1>1, <1>2, WhatChanges

LEMMA ClocksStep ==
  ASSUME Clocks, [Next]_vars
  PROVE  Clocks'
<1>1. CASE UNCHANGED <<now, beacons>>
  BY <1>1 DEF Clocks, Host
<1>2. CASE Announcing
  <2>1. PICK n \in Ours, t \in Instants \cup {now} : \E config, own : Announce(n, config, t, own)
    BY <1>2 DEF Announcing
  <2>2. PICK config, own : Announce(n, config, t, own)
    BY <2>1
  <2>3. t >= now /\ now' = t
        /\ beacons' = [beacons EXCEPT ![n] = [config |-> config, sent |-> @.sent + 1, last |-> Host(n, t)]]
    BY <2>2 DEF Announce
  <2>4. t \in Nat /\ now \in Nat /\ \A m \in Ours : EpochOf[m] \in Nat
    BY <2>1, ExchangeAssumption DEF Clocks, Stations
  <2>5. ASSUME NEW m \in Ours
        PROVE  /\ now' >= EpochOf[m] /\ beacons'[m].last \in Int
               /\ Host(m, now') >= beacons'[m].last
    <3>1. now >= EpochOf[m] /\ beacons[m].last \in Int /\ Host(m, now) >= beacons[m].last
      BY DEF Clocks
    <3>2. CASE m = n
      <4>1. beacons'[m].last = Host(m, t)
        BY <2>3, <3>2 DEF Clocks
      <4>2. Host(m, t) \in Int
        BY <2>4 DEF Host
      <4> QED
        BY <2>3, <2>4, <3>1, <4>1, <4>2
    <3>3. CASE m # n
      <4>1. beacons'[m] = beacons[m]
        BY <2>3, <3>3 DEF Clocks
      <4> QED
        BY <2>3, <2>4, <3>1, <4>1 DEF Host
    <3> QED
      BY <3>2, <3>3
  <2>6. DOMAIN beacons' = Ours
    BY <2>3 DEF Clocks
  <2> QED
    BY <2>3, <2>4, <2>5, <2>6 DEF Clocks, Host
<1> QED
  BY <1>1, <1>2, WhatChanges

(* A capture starts with the radiotap header: neither parser knows it.     *)
LEMMA NothingIsFound ==
  ASSUME IsOnAir(air), NEW cut \in Cuts, NEW us
  PROVE  /\ parse_addba_response(Captured(cut), us) = None
         /\ parse_block_ack(Captured(cut), us) = None
<1> DEFINE bytes == air.bytes
           x == Captured(cut)
<1>1. cut \in 0..(Len(bytes) + 1) /\ IsSeq(bytes) /\ Len(bytes) \in Nat
  BY CutsAre, Shape DEF IsOnAir
<1>2. IsCapture(x, bytes, cut)
  <2>1. x = SubSeq(<<Radiotap>> \o bytes, 1, cut)
    BY DEF Captured
  <2> HIDE DEF x, bytes
  <2> QED
    BY <1>1, <2>1, CaptureIs
<1> HIDE DEF x, bytes
<1>3. Radiotap # FC_ACTION /\ Radiotap # FC_BA
  <2>1. Radiotap[1] = "radiotap" /\ FC_ACTION[1] = "fc" /\ FC_BA[1] = "fc"
    BY DEF Radiotap, FC_ACTION, FC_BA, Fc
  <2> QED
    BY <2>1
<1>4. cut > 0 => x[1] # FC_ACTION /\ x[1] # FC_BA
  BY <1>2, <1>3 DEF IsCapture
<1>5. Len(x) = cut /\ cut \in Nat
  BY <1>1, <1>2 DEF IsCapture
<1>6. parse_addba_response(x, us) = None
  <2>1. ~(Len(x) >= MGMT_HEADER_LEN + 3 /\ x[1] = FC_ACTION)
    BY <1>4, <1>5 DEF MGMT_HEADER_LEN
  <2> QED
    BY <2>1 DEF parse_addba_response
<1>7. parse_block_ack(x, us) = None
  <2>1. ~(Len(x) >= 5 /\ x[1] = FC_BA)
    BY <1>4, <1>5
  <2> QED
    BY <2>1 DEF parse_block_ack
<1> QED
  BY <1>6, <1>7 DEF x

(* The probe moves on, and hears nothing.                                  *)
LEMMA ProbesStep ==
  ASSUME Probes, AirIs, [Next]_vars
  PROVE  Probes'
<1> DEFINE Counters == [{"dialog", "seq", "resp", "ack"} -> Nat]
<1>0. SeqMod \in Nat \ {0} /\ DialogMod \in Nat \ {0}
  BY ExchangeAssumption
<1>1. CASE UNCHANGED probe
  BY <1>1 DEF Probes, ProbeHearsNothing
<1>2. CASE Probing
  <2>1. PICK n \in Ours, master \in Theirs : Probe(n, master)
    BY <1>2 DEF Probing
  <2>2. probe' = [probe EXCEPT ![n].dialog = NextDialog(n), ![n].seq = (@ + 1) % SeqMod]
    BY <2>1 DEF Probe
  <2>3. probe[n] \in Counters /\ probe[n].resp = 0 /\ probe[n].ack = 0 /\ probe \in [Ours -> Counters]
    BY DEF Probes, ProbeHearsNothing
  <2>4. probe[n].dialog \in Nat /\ probe[n].seq \in Nat
    BY <2>3
  <2>5. NextDialog(n) \in Nat
    <3>1. (probe[n].dialog + 1) % DialogMod \in Nat
      BY <1>0, <2>4
    <3> QED
      BY <3>1 DEF NextDialog
  <2>6. (probe[n].seq + 1) % SeqMod \in Nat
    BY <1>0, <2>4
  <2>7. probe' \in [Ours -> Counters] /\ probe'[n].resp = 0 /\ probe'[n].ack = 0
        /\ \A m \in Ours : m # n => probe'[m] = probe[m]
    BY <2>2, <2>3, <2>5, <2>6
  <2>8. \A m \in Ours : probe'[m].resp = 0 /\ probe'[m].ack = 0
    BY <2>7 DEF Probes, ProbeHearsNothing
  <2> QED
    BY <2>7, <2>8 DEF Probes, ProbeHearsNothing
<1>3. CASE Hearing
  <2>1. PICK m \in Ours, cut \in Cuts : \E refused : Hear(m, cut, refused)
    BY <1>3 DEF Hearing
  <2>2. LookForAnswers(m, Captured(cut))
    BY <2>1 DEF Hear
  <2>3. \A k : Count(k, parse_addba_response(Captured(cut), Mac(m))) = k
               /\ Count(k, parse_block_ack(Captured(cut), Mac(m))) = k
    BY NothingIsFound DEF AirIs, Count
  <2>4. probe' = [probe EXCEPT ![m].resp = @, ![m].ack = @]
    BY <2>2, <2>3 DEF LookForAnswers
  <2>5. probe \in [Ours -> Counters] /\ probe[m] \in Counters
    BY DEF Probes
  <2>9. probe' = probe
    BY <2>4, <2>5
  <2> QED
    BY <2>9 DEF Probes, ProbeHearsNothing
<1> QED
  BY <1>1, <1>2, <1>3, WhatChanges

(* deliver_data_frame counts every packet it unwrapped, once.              *)
LEMMA TalliedStep ==
  ASSUME Tallied, AirIs, [Next]_vars
  PROVE  Tallied'
<1>1. CASE UNCHANGED <<stages, carried>>
  BY <1>1 DEF Tallied, PacketsAreAccounted
<1>2. CASE Hearing
  <2>1. PICK m \in Ours, cut \in Cuts : \E refused : Hear(m, cut, refused)
    BY <1>2 DEF Hearing
  <2>2. PICK refused : Hear(m, cut, refused)
    BY <2>1
  <2> DEFINE x == Captured(cut)
             s == Unwrapped(x)
             T == ForUs(m, s) \ refused
             a == Cardinality(FromSelf(m, s))
             b == Cardinality(NotOurs(m, s))
             c == Len(InOrder(T))
             e == Cardinality(refused)
             Tally(yes) == IF yes THEN 1 ELSE 0
             u == Tally(~HasRadiotap(x))
             v == Tally(s = <<>> /\ HasRadiotap(x) /\ ~IsData(Bare(x)))
             w == Tally(s = <<>> /\ HasRadiotap(x) /\ IsData(Bare(x)))
             old == stages[m]
             new == [seen |-> old.seen + 1, no_radiotap |-> old.no_radiotap + u,
                     not_data |-> old.not_data + v, data_undecodable |-> old.data_undecodable + w,
                     from_self |-> old.from_self + a, not_ours |-> old.not_ours + b,
                     written |-> old.written + c, write_err |-> old.write_err + e]
             more == Cardinality(Reached(cut))
  <2>3. /\ refused \subseteq ForUs(m, s)
        /\ stages' = [stages EXCEPT ![m] = new]
        /\ carried' = [carried EXCEPT ![m] = @ + more]
    <3>1. Deliver(m, x, refused) /\ carried' = [carried EXCEPT ![m] = @ + more]
      BY <2>2 DEF Hear, Reached
    <3>2. stages \in [Ours -> [DOMAIN NoStages -> Nat]]
      BY DEF Tallied
    <3>3. stages' = [stages EXCEPT ![m] = new] /\ refused \subseteq ForUs(m, s)
      BY <3>1, <3>2 DEF Deliver
    <3> QED
      BY <3>1, <3>3
  <2>4. IsSeq(s) /\ more = Len(s) /\ Len(s) \in Nat
    <3>1. s = Unwrapped(Captured(cut)) /\ IsOnAir(air)
      BY DEF AirIs
    <3> HIDE DEF s
    <3> QED
      BY <3>1, HeardIs, Shape
  <2>5. a \in Nat /\ b \in Nat /\ c \in Nat /\ e \in Nat /\ ((a + b) + c) + e = more
    <3> HIDE DEF s, more
    <3>1. /\ a \in Nat /\ b \in Nat /\ Cardinality(T) \in Nat /\ e \in Nat
          /\ T \in SUBSET (1..Len(s)) /\ ((a + b) + Cardinality(T)) + e = Len(s)
      BY <2>3, <2>4, PartsCount
    <3>2. c = Cardinality(T)
      <4> HIDE DEF T
      <4> QED
        BY <2>4, <3>1, InOrderIs
    <3> QED
      BY <2>4, <3>1, <3>2
  <2>6. u \in Nat /\ v \in Nat /\ w \in Nat
    OBVIOUS
  <2> HIDE DEF a, b, c, e, u, v, w, more, s
  <2>7. DOMAIN NoStages = {"seen", "no_radiotap", "not_data", "data_undecodable",
                           "from_self", "not_ours", "written", "write_err"}
    BY DEF NoStages
  <2>8. stages \in [Ours -> [DOMAIN NoStages -> Nat]] /\ carried \in [Ours -> Nat]
    BY DEF Tallied
  <2>9. /\ old.seen \in Nat /\ old.no_radiotap \in Nat /\ old.not_data \in Nat
        /\ old.data_undecodable \in Nat /\ old.from_self \in Nat /\ old.not_ours \in Nat
        /\ old.written \in Nat /\ old.write_err \in Nat
    BY <2>7, <2>8
  <2>10. new \in [DOMAIN NoStages -> Nat]
    BY <2>5, <2>6, <2>7, <2>9
  <2>11. stages' \in [Ours -> [DOMAIN NoStages -> Nat]] /\ stages'[m] = new
         /\ \A o \in Ours : o # m => stages'[o] = stages[o]
    <3> HIDE DEF new
    <3> QED
      BY <2>3, <2>8, <2>10
  <2>12. carried' \in [Ours -> Nat] /\ carried'[m] = carried[m] + more /\ carried[m] \in Nat
         /\ \A o \in Ours : o # m => carried'[o] = carried[o]
    <3>1. more \in Nat
      BY <2>4
    <3> QED
      BY <2>3, <2>8, <3>1
  <2>13. old.from_self + old.not_ours + old.written + old.write_err = carried[m]
    BY DEF Tallied, PacketsAreAccounted
  <2>14. new.from_self + new.not_ours + new.written + new.write_err = carried[m] + more
    <3>1. /\ new.from_self = old.from_self + a /\ new.not_ours = old.not_ours + b
          /\ new.written = old.written + c /\ new.write_err = old.write_err + e
      OBVIOUS
    <3> HIDE DEF new, old
    <3> QED
      BY <2>5, <2>9, <2>12, <2>13, <3>1
  <2>15. ASSUME NEW o \in Ours
         PROVE  stages'[o].from_self + stages'[o].not_ours + stages'[o].written + stages'[o].write_err
                  = carried'[o]
    <3>1. CASE o = m
      BY <2>11, <2>12, <2>14, <3>1
    <3>2. CASE o # m
      BY <2>11, <2>12, <3>2 DEF Tallied, PacketsAreAccounted
    <3> QED
      BY <3>1, <3>2
  <2> QED
    BY <2>11, <2>12, <2>15 DEF Tallied, PacketsAreAccounted
<1> QED
  BY <1>1, <1>2, WhatChanges

-----------------------------------------------------------------------------
(* With the numbers, the clocks, the probe and the tallies.                *)
Sound == Inv /\ Numbers /\ Clocks /\ Probes /\ Tallied

(* The whole invariant of the exchange holds of every behaviour (the data  *)
(* path of crates/tlink-session and data.rs, between all stations).        *)
THEOREM SoundAlways == Spec => []Sound
<1>1. Init => Numbers /\ Clocks /\ Probes /\ Tallied
  <2> SUFFICES ASSUME Init PROVE Numbers /\ Clocks /\ Probes /\ Tallied
    OBVIOUS
  <2>0. SeqMod \in Nat \ {0} /\ AwdlMod \in Nat \ {0} /\ Earlier \in Nat /\ \A n \in Ours : EpochOf[n] \in Nat
    BY ExchangeAssumption DEF Stations
  <2>1. Numbers
    <3>1. handed \in [Ours -> Seq(Destinations)]
      BY DEF Init
    <3>2. Earlier % SeqMod \in 0..(SeqMod - 1) /\ Earlier % AwdlMod \in 0..(AwdlMod - 1)
      BY <2>0
    <3>3. seqs \in [Ours -> [d11 : 0..(SeqMod - 1), awdl : 0..(AwdlMod - 1)]]
      BY <3>2 DEF Init
    <3> QED
      BY <3>1, <3>3 DEF Numbers
  <2>2. Clocks
    <3>1. now \in Nat /\ \A n \in Ours : EpochOf[n] <= now
      BY <2>0 DEF Init
    <3>2. DOMAIN beacons = Ours /\ \A n \in Ours : beacons[n].last = 0
      BY DEF Init
    <3>3. \A n \in Ours : now >= EpochOf[n] /\ Host(n, now) >= 0
      BY <2>0, <3>1 DEF Host
    <3> QED
      BY <3>1, <3>2, <3>3 DEF Clocks
  <2>3. Probes
    BY DEF Init, Probes, ProbeHearsNothing
  <2>4. Tallied
    <3>1. stages = [n \in Ours |-> NoStages] /\ carried = [n \in Ours |-> 0]
      BY DEF Init
    <3>2. NoStages \in [DOMAIN NoStages -> Nat]
          /\ NoStages.from_self = 0 /\ NoStages.not_ours = 0 /\ NoStages.written = 0 /\ NoStages.write_err = 0
      BY DEF NoStages
    <3>3. stages \in [Ours -> [DOMAIN NoStages -> Nat]] /\ carried \in [Ours -> Nat]
      BY <3>1, <3>2
    <3>4. PacketsAreAccounted
      BY <3>1, <3>2 DEF PacketsAreAccounted
    <3> QED
      BY <3>3, <3>4 DEF Tallied
  <2> QED
    BY <2>1, <2>2, <2>3, <2>4
<1>2. Inv /\ (Numbers /\ Clocks /\ Probes /\ Tallied) /\ [Next]_vars
        => (Numbers /\ Clocks /\ Probes /\ Tallied)'
  BY NumbersStep, ClocksStep, ProbesStep, TalliedStep DEF Inv
<1>3. Sound <=> Inv /\ (Numbers /\ Clocks /\ Probes /\ Tallied)
  BY DEF Sound
<1> QED
  BY <1>1, <1>2, <1>3, Deliveries, PTL DEF Spec

(* TypeOK: the queue stays within OUTBOUND_MAX, the numbers within their   *)
(* width, and no clock runs behind its own last beacon (session:1360-1420).*)
THEOREM ShapesKept == Spec => []TypeOK
<1>1. Sound => TypeOK
  <2> SUFFICES ASSUME Sound PROVE TypeOK
    OBVIOUS
  <2>1. \A n \in Ours : Len(queue[n]) <= QueueMax /\ Len(radio[n]) <= RadioMax
    <3>1. \A n \in Ours : SenderIs(n, handed[n], queue[n], seqs[n], radio[n])
      BY DEF Sound, Inv, Senders
    <3> QED
      BY <3>1, SenderHas
  <2>2. air.to \subseteq Stations /\ budget \in [faults : Nat, beacons : Nat, events : Nat]
    BY DEF Sound, Inv, AirIs, IsOnAir, Senders, Budgeted
  <2> QED
    BY <2>1, <2>2 DEF TypeOK, Sound, Numbers, Clocks, Probes, Tallied
<1> QED
  BY <1>1, SoundAlways, PTL

(* PacketsAreAccounted: every packet that reached a receiver is counted at *)
(* one stage and no other, however its frame was shaped and wherever the   *)
(* reception was cut (data.rs:257-363, RxStages at session:1231).          *)
THEOREM Accounted == Spec => []PacketsAreAccounted
<1>1. Sound => PacketsAreAccounted
  BY DEF Sound, Tallied
<1> QED
  BY <1>1, SoundAlways, PTL

(* ProbeHearsNothing: the probe compares a radiotap header with an 802.11  *)
(* one and never counts an answer (session:532-542, blockack.rs:116).      *)
THEOREM NothingHeard == Spec => []ProbeHearsNothing
<1>1. Sound => ProbeHearsNothing
  BY DEF Sound, Probes
<1> QED
  BY <1>1, SoundAlways, PTL

-----------------------------------------------------------------------------
(* Numbers less than a cycle apart are told by their remainders; those of  *)
(* a wider counter agree with those of a narrower one that divides it.     *)
LEMMA Apart ==
  ASSUME NEW m \in Nat \ {0}, NEW x \in Nat, NEW y \in Nat, x % m = y % m,
         x - y < m, y - x < m
  PROVE  x = y
<1> DEFINE q == x \div m
           p == y \div m
           r == x % m
<1>1. q \in Nat /\ p \in Nat /\ r \in Nat /\ x = (m * q) + r /\ y = (m * p) + r
  OBVIOUS
<1> HIDE DEF q, p, r
<1>2. \A a, b \in Nat : a * b \in Nat
  OBVIOUS
<1>3. CASE q > p
  <2>1. m * ((q - p) - 1) \in Nat /\ m * q = ((m * p) + m) + (m * ((q - p) - 1)) /\ m * p \in Nat
    BY <1>1, <1>2, <1>3
  <2> QED
    BY <1>1, <2>1
<1>4. CASE p > q
  <2>1. m * ((p - q) - 1) \in Nat /\ m * p = ((m * q) + m) + (m * ((p - q) - 1)) /\ m * q \in Nat
    BY <1>1, <1>2, <1>4
  <2> QED
    BY <1>1, <2>1
<1>5. CASE p = q
  BY <1>1, <1>5
<1> QED
  BY <1>1, <1>3, <1>4, <1>5

LEMMA Narrower ==
  ASSUME NEW z \in Nat, NEW m \in Nat \ {0}, NEW w \in Nat \ {0}, w % m = 0
  PROVE  (z % w) % m = z % m
<1> DEFINE q == z \div w
           r == z % w
           k == w \div m
           u == r \div m
           v == r % m
<1>1. q \in Nat /\ r \in Nat /\ z = (w * q) + r
  OBVIOUS
<1>2. k \in Nat /\ w = m * k
  OBVIOUS
<1>3. u \in Nat /\ v \in Nat /\ v < m /\ r = (m * u) + v
  BY <1>1
<1> HIDE DEF q, r, k, u, v
<1>4. \A a, b \in Nat : a * b \in Nat
  OBVIOUS
<1>5. w * q = m * (k * q) /\ k * q \in Nat /\ (k * q) + u \in Nat
  BY <1>1, <1>2, <1>3, <1>4
<1>6. z = (m * ((k * q) + u)) + v
  BY <1>1, <1>3, <1>5
<1>7. z % m = v
  <2> DEFINE n == (k * q) + u
  <2> HIDE DEF n
  <2>1. n \in Nat
    BY <1>5 DEF n
  <2>2. ((m * n) + v) % m = v
    BY <1>3, <2>1, Remainder
  <2> QED
    BY <1>6, <2>2 DEF n
<1> QED
  BY <1>7 DEF v, r

(* What waits is a frame of one of the last packets handed over.           *)
LEMMA WaitingIs ==
  ASSUME Inv, NEW n \in Ours
  PROVE  \E low \in Int : /\ Len(handed[n]) - low < SeqMod \/ Waiting(n) = {}
                          /\ \A f \in Waiting(n) : /\ No(f) \in 1..Len(handed[n])
                                                   /\ low <= No(f) /\ Own(n, No(f), f)
<1> DEFINE h == handed[n]
           q == queue[n]
           r == radio[n]
           d == Len(h) - Len(q)
<1>1. PICK b \in Budgets : Allowance(b)
  BY DEF Inv, RadioIsRecent
<1> DEFINE slack == b.faults - budget.faults
           low == ((d - Len(r)) + 1) - slack
<1>2. b.faults \in Nat /\ budget.faults \in Nat /\ budget.faults <= b.faults
      /\ (QueueMax + RadioMax) + b.faults <= SeqMod /\ QueueMax \in Nat /\ RadioMax \in Nat /\ SeqMod \in Nat
  <2>1. b \in [faults : Nat, beacons : Nat, events : Nat]
        /\ budget \in [faults : Nat, beacons : Nat, events : Nat]
    BY ExchangeAssumption DEF Inv, Senders, Budgeted
  <2> QED
    BY <1>1, <2>1, ExchangeAssumption DEF Allowance
<1>3. slack \in Nat /\ slack <= b.faults
  BY <1>2
<1>4. SenderRecent(h, q, r, slack) /\ SenderIs(n, h, q, seqs[n], r)
  BY <1>1 DEF Allowance, Inv, Senders
<1> HIDE DEF slack
<1>5. QueueIs(n, h, q) /\ RadioIs(n, h, d, r) /\ Recent(d, r, slack)
  BY <1>4 DEF SenderRecent, SenderIs
<1>6. /\ IsSeq(h) /\ Len(h) \in Nat /\ IsSeq(q) /\ Len(q) \in Nat /\ Len(q) <= QueueMax
      /\ IsSeq(r) /\ Len(r) \in Nat /\ Len(r) <= RadioMax /\ d \in Nat /\ d <= Len(h)
  <2> HIDE DEF h, q, r
  <2> QED
    BY <1>4, SenderHas
<1>7. DOMAIN q = 1..Len(q) /\ DOMAIN r = 1..Len(r)
  <2> HIDE DEF q, r
  <2> QED
    BY <1>6, Shape
<1> DEFINE H == Len(h)
           Q == Len(q)
           R == Len(r)
           F == b.faults
<1>8. /\ H \in Nat /\ Q \in Nat /\ R \in Nat /\ F \in Nat /\ slack \in Nat /\ slack <= F
      /\ Q <= H /\ Q <= QueueMax /\ R <= RadioMax
      /\ (QueueMax + RadioMax) + F <= SeqMod /\ QueueMax \in Nat /\ RadioMax \in Nat /\ SeqMod \in Nat
      /\ d = H - Q /\ low = ((d - R) + 1) - slack
  <2>1. d = H - Q /\ low = ((d - R) + 1) - slack
    OBVIOUS
  <2> HIDE DEF d, low, h, q, r
  <2>2. d <= H /\ H \in Nat /\ Q \in Nat /\ d \in Nat
    BY <1>6
  <2>3. Q <= H
    <3> HIDE DEF H, Q
    <3> QED
      BY <2>1, <2>2
  <2> QED
    BY <1>2, <1>3, <1>6, <2>1, <2>3
<1> HIDE DEF H, Q, R, F, low, d
<1>9. low \in Int /\ (H - low < SeqMod \/ Q + R = 0)
  <2>1. H - low = ((Q + R) - 1) + slack
    BY <1>8
  <2>2. Q + R # 0 => H - low < SeqMod
    BY <1>8, <2>1
  <2> QED
    BY <1>8, <2>2
<1>10. ASSUME NEW f \in Waiting(n)
       PROVE  No(f) \in 1..H /\ low <= No(f) /\ Own(n, No(f), f)
  <2>1. CASE \E i \in DOMAIN q : f = q[i]
    <3>1. PICK i \in 1..Q : f = q[i]
      BY <1>7, <2>1 DEF Q
    <3> DEFINE k == d + i
    <3>2. OwnIn(h, n, k, f)
      BY <1>5, <3>1 DEF QueueIs, Q, d
    <3>3. k \in Nat /\ k \in 1..H
      BY <1>8, <3>1
    <3> HIDE DEF k
    <3>4. Own(n, k, f)
      BY <3>2 DEF Own
    <3>5. No(f) = k
      BY <3>3, <3>4, OwnIs
    <3>6. low <= k
      BY <1>8, <3>1 DEF k
    <3> QED
      BY <3>3, <3>4, <3>5, <3>6
  <2>2. CASE \E i \in DOMAIN r : f = r[i] /\ IsData(f)
    <3>1. PICK i \in 1..R : f = r[i] /\ IsData(f)
      BY <1>7, <2>2 DEF R
    <3>2. IsSent(h, n, d, r[i])
      BY <1>5, <3>1 DEF RadioIs, R
    <3>3. No(f) \in 1..d /\ OwnIn(h, n, No(f), f)
      BY <3>1, <3>2 DEF IsSent
    <3>4. d - No(f) <= (R - i) + slack
      BY <1>5, <3>1 DEF Recent, R
    <3> DEFINE k == No(f)
    <3>5. k \in 1..H /\ low <= k
      <4> HIDE DEF k
      <4>1. k \in 1..d /\ d - k <= (R - i) + slack
        BY <3>3, <3>4 DEF k
      <4> QED
        BY <1>8, <3>1, <4>1
    <3> QED
      BY <3>3, <3>5 DEF Own
  <2> QED
    BY <2>1, <2>2 DEF Waiting
<1>11. Q + R = 0 => Waiting(n) = {}
  <2> SUFFICES ASSUME Q + R = 0 PROVE Waiting(n) = {}
    OBVIOUS
  <2>1. Q = 0 /\ R = 0
    BY <1>8
  <2>2. DOMAIN q = {} /\ DOMAIN r = {}
    BY <1>7, <2>1 DEF Q, R
  <2> QED
    BY <2>2 DEF Waiting
<1> QED
  BY <1>9, <1>10, <1>11 DEF H

(* SequencesNamePackets: the 802.11 number of a frame that waits is that of*)
(* one packet only, across the wrap, and follows from its AWDL number      *)
(* (session:1405-1415, data.rs:138-171).                                   *)
THEOREM NumbersNamePackets == Spec => []SequencesNamePackets
<1>1. Inv => SequencesNamePackets
  <2> SUFFICES ASSUME Inv, NEW n \in Ours, NEW f \in Waiting(n), NEW g \in Waiting(n)
               PROVE  /\ f[5] = g[5] <=> f[12] = g[12]
                      /\ f[9][2] = (Earlier + f[12][3] - 1) % AwdlMod
                      /\ f[5] = SequenceControl(f[9][2])
    BY DEF SequencesNamePackets
  <2> DEFINE j == No(f)
             k == No(g)
             H == Len(handed[n])
             x == (Earlier + j) - 1
             y == (Earlier + k) - 1
  <2>1. PICK low \in Int :
          /\ H - low < SeqMod \/ Waiting(n) = {}
          /\ \A e \in Waiting(n) : No(e) \in 1..H /\ low <= No(e) /\ Own(n, No(e), e)
    BY WaitingIs
  <2>2. H - low < SeqMod /\ j \in 1..H /\ k \in 1..H /\ low <= j /\ low <= k
        /\ Own(n, j, f) /\ Own(n, k, g)
    BY <2>1
  <2>3. H \in Nat
    BY SenderHas DEF Inv, Senders
  <2>4. /\ Earlier \in Nat /\ SeqMod \in Nat \ {0} /\ AwdlMod \in Nat \ {0} /\ AwdlMod % SeqMod = 0
    BY ExchangeAssumption
  <2> HIDE DEF j, k, H
  <2>5. j \in Nat /\ k \in Nat
    BY <2>2, <2>3
  <2>6. /\ f[9] = <<"awdl", x % AwdlMod>> /\ f[5] = SequenceControl(x % SeqMod)
        /\ f[12] = Opening(n, j, handed[n][j])
    BY <2>2, <2>5, OwnIs
  <2>7. g[5] = SequenceControl(y % SeqMod) /\ g[12] = Opening(n, k, handed[n][k])
    BY <2>2, <2>5, OwnIs
  <2>8. x \in Nat /\ y \in Nat /\ x - y < SeqMod /\ y - x < SeqMod /\ (x = y => j = k)
    BY <2>1, <2>2, <2>3, <2>4, <2>5
  <2> HIDE DEF x, y
  <2>9. (x % SeqMod) % SeqMod = x % SeqMod /\ (y % SeqMod) % SeqMod = y % SeqMod
        /\ (x % AwdlMod) % SeqMod = x % SeqMod
    <3>1. SeqMod % SeqMod = 0
      <4>1. ((SeqMod * 1) + 0) % SeqMod = 0
        BY <2>4, Remainder
      <4> QED
        BY <2>4, <4>1
    <3> QED
      BY <2>4, <2>8, <3>1, Narrower
  <2>10. f[5] = g[5] => f[12] = g[12]
    <3> SUFFICES ASSUME f[5] = g[5] PROVE f[12] = g[12]
      OBVIOUS
    <3>1. SequenceControl(x % SeqMod) = SequenceControl(y % SeqMod)
      BY <2>6, <2>7
    <3>2. x % SeqMod = y % SeqMod
      BY <2>9, <3>1 DEF SequenceControl
    <3>3. x = y
      BY <2>4, <2>8, <3>2, Apart
    <3> QED
      BY <2>6, <2>7, <2>8, <3>3
  <2>15. f[12][3] = j
    BY <2>6 DEF Opening
  <2>16. g[12][3] = k
    BY <2>7 DEF Opening
  <2>11. f[12] = g[12] => f[5] = g[5]
    <3> SUFFICES ASSUME f[12] = g[12] PROVE f[5] = g[5]
      OBVIOUS
    <3>3. j = k
      BY <2>15, <2>16
    <3>2. x = y
      BY <3>3 DEF x, y
    <3> QED
      BY <2>6, <2>7, <3>2
  <2>12. f[12][3] = j /\ f[9][2] = x % AwdlMod
    BY <2>6 DEF Opening
  <2>13. f[9][2] = (Earlier + f[12][3] - 1) % AwdlMod
    <3>1. x = Earlier + f[12][3] - 1
      BY <2>4, <2>5, <2>12 DEF x
    <3> QED
      BY <2>12, <3>1
  <2>14. f[5] = SequenceControl(f[9][2])
    BY <2>6, <2>9, <2>12 DEF SequenceControl
  <2> QED
    BY <2>10, <2>11, <2>13, <2>14
<1> QED
  BY <1>1, Deliveries, PTL

-----------------------------------------------------------------------------
(* What the air claims.                                                    *)
LEMMA ClaimIs ==
  ASSUME NEW bytes, NEW needs, NEW claim
  PROVE  /\ OnAir(bytes, needs).claims = {}
         /\ [OnAir(bytes, needs) EXCEPT !.claims = claim].claims = claim
  BY DEF OnAir

(* Only Announce, and a frame of another make, claims anything new.        *)
LEMMA WhatIsClaimed ==
  ASSUME AirIs, [Next]_vars
  PROVE  \/ Announcing
         \/ air'.claims = {} \/ air'.claims = air.claims
         \/ \E frame \in Foreign : air'.claims = frame.claims
<1> DEFINE Goal == \/ Announcing
                   \/ air'.claims = {} \/ air'.claims = air.claims
                   \/ \E frame \in Foreign : air'.claims = frame.claims
<1>1. ASSUME NEW n \in Ours, NEW dst \in Destinations, Read(n, dst) PROVE Goal
  BY <1>1 DEF Read
<1>2. ASSUME NEW n \in Ours, NEW first \in BOOLEAN, NEW others \in 0..(Repeat - 1), Drain(n, first, others)
      PROVE  Goal
  BY <1>2 DEF Drain
<1>3. ASSUME NEW n \in Ours, NEW master \in Theirs, Probe(n, master) PROVE Goal
  BY <1>3 DEF Probe
<1>4. ASSUME NEW n \in Ours, NEW k \in 1..RadioMax, NEW shape \in Shapes, Emit(n, k, shape) PROVE Goal
  BY <1>4, ClaimIs DEF Emit
<1>5. ASSUME NEW n \in Ours, EmitRequest(n) PROVE Goal
  BY <1>5, ClaimIs DEF EmitRequest
<1>6. ASSUME NEW frame \in Foreign, EmitForeign(frame) PROVE Goal
  BY <1>6, ClaimIs DEF EmitForeign
<1>7. ASSUME NEW from \in Theirs, Answer(from) PROVE Goal
  BY <1>7, ClaimIs DEF Answer
<1>8. ASSUME NEW n \in Ours, NEW config, NEW t \in Instants \cup {now}, NEW own,
             Announce(n, config, t, own)
      PROVE  Goal
  BY <1>8 DEF Announcing
<1>9. ASSUME NEW m \in Ours, NEW cut \in Cuts, NEW refused, Hear(m, cut, refused) PROVE Goal
  <2>1. air' = [air EXCEPT !.to = @ \ {m}]
    BY <1>9 DEF Hear
  <2>2. air = [bytes |-> air.bytes, needs |-> air.needs, to |-> air.to, claims |-> air.claims]
    BY DEF AirIs, IsOnAir
  <2>3. air'.claims = air.claims
    BY <2>1, <2>2
  <2> QED
    BY <2>3
<1>10. ASSUME UNCHANGED vars PROVE Goal
  BY <1>10 DEF vars
<1> HIDE DEF Goal
<1>11. Goal
  BY <1>1, <1>2, <1>3, <1>4, <1>5, <1>6, <1>7, <1>8, <1>9, <1>10 DEF Next
<1> QED
  BY <1>11 DEF Goal

(* The tag a list starts with is meant as it is written.                   *)
LEMMA MeantFirst ==
  ASSUME NEW t, NEW s, LedBy(t, s)
  PROVE  Meant(t)[4] = s
<1>1. IsSeq(t) /\ Len(t) \in Nat /\ DOMAIN t = 1..Len(t) /\ Len(t) >= 1
  BY Shape DEF LedBy
<1>2. t[1] = <<4, s>> /\ \A i \in 2..Len(t) : t[i][1] # 4
  BY DEF LedBy
<1> DEFINE all == {t[i] : i \in DOMAIN t}
<1>3. 1 \in DOMAIN t /\ t[1] \in all /\ t[1][1] = 4 /\ 4 \in {t[i][1] : i \in DOMAIN t}
  BY <1>1, <1>2
<1>4. ASSUME NEW x \in all, x[1] = 4 PROVE x = t[1]
  <2>1. PICK i \in 1..Len(t) : x = t[i]
    BY <1>1
  <2>2. i = 1
    BY <1>1, <1>2, <1>4, <2>1
  <2> QED
    BY <2>1, <2>2
<1>5. (CHOOSE x \in all : x[1] = 4) = t[1]
  <2> HIDE DEF all
  <2> QED
    BY <1>3, <1>4
<1>6. Meant(t)[4] = (CHOOSE x \in all : x[1] = 4)[2]
  BY <1>3 DEF Meant
<1>7. t[1][2] = s
  BY <1>2
<1> HIDE DEF all
<1>8. Meant(t)[4] = t[1][2]
  BY <1>5, <1>6
<1> QED
  BY <1>7, <1>8

(* A station that claims the job and keeps its own time.                   *)
LEMMA OwnBeacon ==
  ASSUME Clocks, NEW n \in Ours, NEW config, NEW t \in Instants \cup {now}, NEW own,
         Announce(n, config, t, own),
         NEW claimed \in air'.claims, claimed.own, Claims(claimed)
  PROVE  LET sync_params == claimed.tags[4] IN
         SlotNamed(sync_params.fixed.aw_counter)
           \in advertised_slots(sync_params.channel_sequence.channels)
<1> DEFINE h == Host(n, t)
           self == Mac(n)
           follow == set_follow(cluster[n], self, config.metric, h)
           beacon == [addr |-> self, sent |-> beacons[n].sent, config |-> config, follow |-> follow]
           subtype == IF beacons[n].sent % (PsfPerMif + 1) = 0 THEN SUBTYPE_MIF ELSE SUBTYPE_PSF
           tlvs == TlvsOf(beacon, subtype, h)
           s == sync(beacon, h)
           timed == beacon.follow # None /\ beacon.follow.aw_counter # None
           claim == [src |-> self, at |-> t, own |-> own, timed |-> timed,
                     phy_tx_time |-> h + Latency, tags |-> Meant(tlvs)]
<1>1. /\ air' = [OnAir(Frame(beacon, subtype, h), <<>>) EXCEPT !.claims = {claim}]
      /\ t >= now
      /\ own => InOwnWindow(n, config, h)
  BY DEF Announce
<1>2. LedBy(tlvs, s)
  BY TlvsAreWritten
<1>3. h \in Nat
  <2>1. t \in Nat /\ now \in Nat /\ EpochOf[n] \in Nat /\ now >= EpochOf[n]
    BY ExchangeAssumption DEF Clocks, Stations
  <2> QED
    BY <1>1, <2>1 DEF Host
<1>4. CounterMod \in Nat \ {0} /\ CounterMod % 64 = 0
  <2>1. 16 * PRESENCE_MODE = 64
    BY DEF PRESENCE_MODE
  <2>2. CounterMod \in Nat \ {0} /\ CounterMod % (16 * PRESENCE_MODE) = 0
    BY ExchangeAssumption
  <2> HIDE DEF h
  <2> QED
    BY <2>1, <2>2
<1>5. us_until_next_advertised_window(schedule(config), h) = 0
  <2>1. claim.own = own
    OBVIOUS
  <2> HIDE DEF claim
  <2>2. air'.claims = {claim} /\ claimed = claim
    BY <1>1, ClaimIs
  <2>3. own
    BY <2>1, <2>2
  <2> QED
    BY <1>1, <2>3 DEF InOwnWindow
<1>6. claim.src = self /\ claim.tags = Meant(tlvs)
  OBVIOUS
<1> HIDE DEF tlvs
<1>7. Meant(tlvs)[4] = s
  BY <1>2, MeantFirst
<1> HIDE DEF claim
<1>8. claimed = claim
  <2>1. air'.claims = {claim}
    BY <1>1, ClaimIs
  <2> QED
    BY <2>1
<1>9. s.fixed.master = self
  BY <1>6, <1>7, <1>8 DEF Claims
<1>10. beacon.follow = follow /\ beacon.addr = self /\ beacon.config = config
  OBVIOUS
<1>11. s.fixed.master = (IF follow # None THEN follow.master ELSE self)
       /\ s.fixed.aw_counter = AwCounter(beacon, h)
       /\ s.channel_sequence = OpClassSequence(schedule(config))
  BY <1>10 DEF sync
<1>12. follow = None
  <2> SUFFICES ASSUME follow # None PROVE FALSE
    OBVIOUS
  <2>1. Leads(cluster[n], self, config.metric)
    BY DEF set_follow
  <2>2. follow.master = cluster[n].master
    BY <2>1 DEF set_follow
  <2>3. cluster[n].master # self
    BY <2>1 DEF Leads
  <2> QED
    BY <1>9, <1>11, <2>2, <2>3
<1>13. AwCounter(beacon, h) = aws_at(h) % CounterMod
  BY <1>10, <1>12 DEF AwCounter
<1>14. OpClassSequence(schedule(config)).channels = schedule(config)
  BY DEF OpClassSequence
<1> HIDE DEF s, h
<1>15. advertised_slots(schedule(config)) # {}
  <2>1. SLOT_US # 0
    BY Lengths
  <2> QED
    BY <1>5, <2>1 DEF us_until_next_advertised_window
<1>16. SlotNamed(aws_at(h) % CounterMod) \in advertised_slots(schedule(config))
  BY <1>3, <1>4, <1>5, <1>15, BeaconsNameTheirSlot
<1>17. claimed.tags[4] = s
  BY <1>6, <1>7, <1>8
<1> QED
  BY <1>11, <1>13, <1>14, <1>16, <1>17

(* AnnouncedInItsWindow: a station that claims the job and keeps its own   *)
(* time beacons in a slot of the schedule it announces, as a receiver reads*)
(* the slot from its counter, across the wrap (beacon.rs:486-504, 791).    *)
THEOREM Announced == Spec => []AnnouncedInItsWindow
<1>1. Init => AnnouncedInItsWindow
  BY DEF Init, Silence, AnnouncedInItsWindow
<1>2. Sound /\ AnnouncedInItsWindow /\ [Next]_vars => AnnouncedInItsWindow'
  <2> SUFFICES ASSUME Sound, AnnouncedInItsWindow, [Next]_vars,
                      NEW claimed \in air'.claims, claimed.own, Claims(claimed)
               PROVE  LET sync_params == claimed.tags[4] IN
                      SlotNamed(sync_params.fixed.aw_counter)
                        \in advertised_slots(sync_params.channel_sequence.channels)
    BY DEF AnnouncedInItsWindow, Claims
  <2>1. AirIs /\ Clocks
    BY DEF Sound, Inv
  <2>2. CASE Announcing
    <3>1. PICK n \in Ours, t \in Instants \cup {now} : \E config, own : Announce(n, config, t, own)
      BY <2>2 DEF Announcing
    <3>2. PICK config, own : Announce(n, config, t, own)
      BY <3>1
    <3> QED
      BY <2>1, <3>2, OwnBeacon
  <2>3. CASE air'.claims = air.claims
    BY <2>3 DEF AnnouncedInItsWindow
  <2>4. CASE \E frame \in Foreign : air'.claims = frame.claims
    BY <2>4, ForeignAssumption
  <2>5. CASE air'.claims = {}
    BY <2>5
  <2> QED
    BY <2>1, <2>2, <2>3, <2>4, <2>5, WhatIsClaimed
<1> QED
  BY <1>1, <1>2, SoundAlways, PTL DEF Spec

-----------------------------------------------------------------------------
(* The tags of a frame, and of any start of it.                            *)
-----------------------------------------------------------------------------
(* The tags of a frame: a walk, and where a tag ends.                      *)
TlvAt(b, off) == [tag |-> b[off + 1][2], value |-> SubSeq(b, off + 2, EndAt(b, off))]
IsTlvWalk(w, b) ==
  w = [off \in 0..Len(b) |-> IF ~IsWhole(b, off) THEN <<>> ELSE <<TlvAt(b, off)>> \o w[EndAt(b, off)]]

(* The walk over the tags exists, whatever the symbols are: it moves on.   *)
LEMMA TlvsWalk ==
  ASSUME NEW b, IsSeq(b)
  PROVE  \E w : IsTlvWalk(w, b) /\ Tlvs(b) = w[0]
<1> DEFINE M == Len(b)
           stop == {off \in 0..M : ~IsWhole(b, off)}
           item == [off \in 0..M |-> <<TlvAt(b, off)>>]
           next == [off \in 0..M |-> EndAt(b, off)]
           walk[off \in 0..Len(b)] ==
             IF ~IsWhole(b, off) THEN <<>>
             ELSE <<[tag |-> b[off + 1][2], value |-> SubSeq(b, off + 2, EndAt(b, off))]>>
                    \o walk[EndAt(b, off)]
<1>0. M \in Nat
  BY Shape
<1>1. ASSUME NEW at \in 0..M, ~(at \in stop) PROVE next[at] \in (at + 1)..M
  <2>1. IsWhole(b, at)
    BY <1>1
  <2>2. EndAt(b, at) \in (at + 1)..M
    BY <2>1 DEF IsWhole
  <2> QED
    BY <2>2
<1>2. PICK f : IsRun(f, M, stop, item, next)
  <2> HIDE DEF stop, item, next
  <2> QED
    BY <1>0, <1>1, Walks
<1>3. f = [at \in 0..M |-> IF at \in stop THEN <<>> ELSE item[at] \o f[next[at]]]
  BY <1>2 DEF IsRun
<1>4. f = [at \in 0..M |-> IF ~IsWhole(b, at) THEN <<>> ELSE <<TlvAt(b, at)>> \o f[EndAt(b, at)]]
  BY <1>3
<1>5. f = [off \in 0..M |-> IF ~IsWhole(b, off) THEN <<>>
             ELSE <<[tag |-> b[off + 1][2], value |-> SubSeq(b, off + 2, EndAt(b, off))]>>
                    \o f[EndAt(b, off)]]
  BY <1>4 DEF TlvAt
<1>6. walk = [off \in 0..M |-> IF ~IsWhole(b, off) THEN <<>>
             ELSE <<[tag |-> b[off + 1][2], value |-> SubSeq(b, off + 2, EndAt(b, off))]>>
                    \o walk[EndAt(b, off)]]
  BY <1>5
<1>7. Tlvs(b) = walk[0]
  BY DEF Tlvs
<1> HIDE DEF walk
<1>8. IsTlvWalk(walk, b)
  BY <1>6 DEF IsTlvWalk, TlvAt
<1> QED
  BY <1>7, <1>8

(* A piece of the start of a sequence is a piece of the sequence.          *)
LEMMA PieceOfStart ==
  ASSUME NEW b, IsSeq(b), NEW c \in 0..Len(b), NEW x \in Nat \ {0}, NEW y \in 0..c
  PROVE  SubSeq(SubSeq(b, 1, c), x, y) = SubSeq(b, x, y)
<1> DEFINE a == SubSeq(b, 1, c)
           p == SubSeq(a, x, y)
           q == SubSeq(b, x, y)
<1>0. Len(b) \in Nat /\ c \in Nat /\ y \in Nat /\ y <= c /\ c <= Len(b)
  BY Shape
<1>1. IsPiece(a, b, 1, c)
  BY <1>0, Piece
<1> HIDE DEF a
<1>2. IsSeq(a) /\ Len(a) = c /\ \A i \in 1..c : a[i] = b[i]
  BY <1>0, <1>1 DEF IsPiece
<1>3. IsPiece(p, a, x, y) /\ IsPiece(q, b, x, y)
  BY <1>0, <1>2, Piece
<1> HIDE DEF p, q
<1>4. IsSeq(p) /\ IsSeq(q) /\ Len(p) = Len(q)
      /\ \A i \in 1..((y - x) + 1) : p[i] = a[(x - 1) + i] /\ q[i] = b[(x - 1) + i]
  BY <1>3 DEF IsPiece
<1>5. ASSUME NEW i \in 1..Len(p) PROVE p[i] = q[i]
  <2>1. x <= y /\ Len(p) = (y - x) + 1
    BY <1>3 DEF IsPiece
  <2>2. i \in 1..((y - x) + 1) /\ (x - 1) + i \in 1..c
    BY <1>0, <2>1
  <2> QED
    BY <1>2, <1>4, <2>2
<1> QED
  BY <1>4, <1>5, Same DEF p, q, a

(* s is the start of t.                                                    *)
Starts(s, t) ==
  /\ IsSeq(s) /\ IsSeq(t) /\ Len(s) <= Len(t)
  /\ \A i \in 1..Len(s) : s[i] = t[i]

LEMMA StartsBehind ==
  ASSUME NEW x, NEW s, NEW t, Starts(s, t)
  PROVE  Starts(<<x>> \o s, <<x>> \o t)
<1> DEFINE one == <<x>>
           p == one \o s
           q == one \o t
<1>1. IsSeq(one) /\ Len(one) = 1
  BY OneIsList
<1> HIDE DEF one
<1>2. IsSeq(s) /\ IsSeq(t) /\ Len(s) \in Nat /\ Len(t) \in Nat /\ Len(s) <= Len(t)
  BY Shape DEF Starts
<1>3. IsJoin(p, one, s) /\ IsJoin(q, one, t)
  BY <1>1, <1>2, Joined
<1> HIDE DEF p, q
<1>4. /\ IsSeq(p) /\ Len(p) = 1 + Len(s) /\ p[1] = one[1] /\ \A i \in 1..Len(s) : p[1 + i] = s[i]
      /\ IsSeq(q) /\ Len(q) = 1 + Len(t) /\ q[1] = one[1] /\ \A i \in 1..Len(t) : q[1 + i] = t[i]
  BY <1>1, <1>3 DEF IsJoin
<1>5. ASSUME NEW i \in 1..Len(p) PROVE p[i] = q[i]
  <2>1. CASE i = 1
    BY <1>4, <2>1
  <2>2. CASE i # 1
    <3> DEFINE k == i - 1
    <3>1. k \in 1..Len(s) /\ k \in 1..Len(t) /\ i = 1 + k
      BY <1>2, <1>4, <2>2
    <3> HIDE DEF k
    <3>2. s[k] = t[k]
      BY <3>1 DEF Starts
    <3> QED
      BY <1>4, <3>1, <3>2
  <2> QED
    BY <2>1, <2>2
<1>6. Len(p) <= Len(q)
  BY <1>2, <1>4
<1>7. Starts(p, q)
  BY <1>4, <1>5, <1>6 DEF Starts
<1> QED
  BY <1>7 DEF p, q, one

(* A set of numbers below a bound has a greatest one.                      *)
LEMMA Greatest ==
  ASSUME NEW M \in Nat, NEW T \in SUBSET (0..M), T # {}
  PROVE  \E n \in T : \A k \in T : k <= n
<1> DEFINE U == {M - n : n \in T}
<1>1. U \in SUBSET Nat /\ U # {}
  <2>1. \A n \in T : M - n \in Nat
    OBVIOUS
  <2>2. \A u \in U : u \in Nat
    BY <2>1
  <2>3. PICK n \in T : TRUE
    OBVIOUS
  <2>4. M - n \in U
    BY <2>3
  <2> QED
    BY <2>2, <2>4
<1>2. PICK u \in U : \A k \in U : u <= k
  BY <1>1, Least
<1>3. PICK n \in T : u = M - n
  BY <1>2
<1>4. ASSUME NEW k \in T PROVE k <= n
  <2>1. M - k \in U
    BY <1>4
  <2>2. u <= M - k
    BY <1>2, <2>1
  <2>3. k \in 0..M /\ n \in 0..M
    BY <1>3, <1>4
  <2> QED
    BY <1>3, <2>2, <2>3
<1> QED
  BY <1>3, <1>4

(* What a walk finds, from wherever it starts, is a sequence.              *)
LEMMA WalkIsSeq ==
  ASSUME NEW b, IsSeq(b), NEW w, IsTlvWalk(w, b)
  PROVE  \A off \in 0..Len(b) : IsSeq(w[off])
<1> DEFINE M == Len(b)
           Bad == {off \in 0..M : ~IsSeq(w[off])}
<1>0. M \in Nat
  BY Shape
<1>1. \A off \in 0..M :
        w[off] = IF ~IsWhole(b, off) THEN <<>> ELSE <<TlvAt(b, off)>> \o w[EndAt(b, off)]
  BY DEF IsTlvWalk
<1> HIDE DEF M
<1>2. CASE Bad = {}
  BY <1>2 DEF M
<1>3. CASE Bad # {}
  <2>1. PICK off \in Bad : \A k \in Bad : k <= off
    BY <1>0, <1>3, Greatest
  <2>2. off \in 0..M /\ ~IsSeq(w[off])
    BY <2>1
  <2>3. CASE ~IsWhole(b, off)
    <3>1. w[off] = <<>>
      BY <1>1, <2>2, <2>3
    <3> QED
      BY <2>2, <3>1, NoneIsList
  <2>4. CASE IsWhole(b, off)
    <3> DEFINE end == EndAt(b, off)
    <3>1. end \in (off + 1)..M
      BY <2>4 DEF IsWhole, M
    <3>2. w[off] = <<TlvAt(b, off)>> \o w[end]
      BY <1>1, <2>2, <2>4
    <3> HIDE DEF end
    <3>3. end \in 0..M /\ ~(end <= off)
      BY <1>0, <2>2, <3>1
    <3>4. IsSeq(w[end])
      BY <2>1, <3>3
    <3> DEFINE one == <<TlvAt(b, off)>>
    <3>5. IsSeq(one)
      BY OneIsList
    <3> HIDE DEF one
    <3>6. IsSeq(one \o w[end])
      BY <3>4, <3>5, JoinIsSeq
    <3> QED
      BY <2>2, <3>2, <3>6 DEF one
  <2> QED
    BY <2>3, <2>4
<1> QED
  BY <1>2, <1>3

(* Where a frame is cut, the tags before the cut are read as in the whole, *)
(* and the one the cut goes through not at all.                            *)
LEMMA CutTlvs ==
  ASSUME NEW b, IsSeq(b), NEW c \in 0..Len(b)
  PROVE  Starts(Tlvs(SubSeq(b, 1, c)), Tlvs(b))
<1> DEFINE a == SubSeq(b, 1, c)
<1>0. Len(b) \in Nat /\ c \in Nat /\ c <= Len(b)
  BY Shape
<1>1. IsPiece(a, b, 1, c)
  BY <1>0, Piece
<1>p. \A x \in Nat \ {0}, y \in 0..c : SubSeq(a, x, y) = SubSeq(b, x, y)
  BY PieceOfStart
<1> HIDE DEF a
<1>2. IsSeq(a) /\ Len(a) = c /\ \A i \in 1..c : a[i] = b[i]
  BY <1>0, <1>1 DEF IsPiece
<1>3. PICK w : IsTlvWalk(w, b) /\ Tlvs(b) = w[0]
  BY TlvsWalk
<1>4. PICK v : IsTlvWalk(v, a) /\ Tlvs(a) = v[0]
  BY <1>2, TlvsWalk
<1>5. \A off \in 0..Len(b) : IsSeq(w[off]) /\
        w[off] = IF ~IsWhole(b, off) THEN <<>> ELSE <<TlvAt(b, off)>> \o w[EndAt(b, off)]
  BY <1>3, WalkIsSeq DEF IsTlvWalk
<1>6. \A off \in 0..c : IsSeq(v[off]) /\
        v[off] = IF ~IsWhole(a, off) THEN <<>> ELSE <<TlvAt(a, off)>> \o v[EndAt(a, off)]
  BY <1>2, <1>4, WalkIsSeq DEF IsTlvWalk
<1>7. ASSUME NEW off \in 0..c, IsWhole(a, off)
      PROVE  /\ IsWhole(b, off) /\ EndAt(b, off) = EndAt(a, off) /\ EndAt(a, off) \in (off + 1)..c
             /\ TlvAt(a, off) = TlvAt(b, off)
  <2>1. off < c /\ off + 1 \in 1..c /\ off \in Nat
    BY <1>0, <1>2, <1>7 DEF IsWhole, Has
  <2>2. a[off + 1] = b[off + 1]
    BY <1>2, <2>1
  <2>3. EndAt(b, off) = EndAt(a, off)
    BY <2>2 DEF EndAt
  <2>4. EndAt(a, off) \in (off + 1)..c
    BY <1>2, <1>7 DEF IsWhole
  <2>5. EndAt(b, off) \in (off + 1)..Len(b) /\ EndAt(a, off) \in 0..c
    BY <1>0, <2>1, <2>3, <2>4
  <2>6. off < Len(b) /\ b[off + 1][1] = "tlv"
    BY <1>0, <1>7, <2>1, <2>2 DEF IsWhole
  <2>7. IsWhole(b, off)
    BY <2>5, <2>6 DEF IsWhole, Has
  <2>8. off + 2 \in Nat \ {0}
    BY <2>1
  <2>9. SubSeq(a, off + 2, EndAt(a, off)) = SubSeq(b, off + 2, EndAt(a, off))
    BY <1>p, <2>5, <2>8
  <2>10. TlvAt(a, off) = TlvAt(b, off)
    BY <2>2, <2>3, <2>9 DEF TlvAt
  <2> QED
    BY <2>3, <2>4, <2>7, <2>10
<1> DEFINE Bad == {off \in 0..c : ~Starts(v[off], w[off])}
<1>8. CASE Bad = {}
  <2>1. Starts(v[0], w[0])
    BY <1>0, <1>8
  <2> QED
    BY <1>3, <1>4, <2>1 DEF a
<1>9. CASE Bad # {}
  <2>1. PICK off \in Bad : \A k \in Bad : k <= off
    BY <1>0, <1>9, Greatest
  <2>2. off \in 0..c /\ ~Starts(v[off], w[off]) /\ off \in 0..Len(b)
    BY <1>0, <2>1
  <2>3. CASE ~IsWhole(a, off)
    <3> DEFINE none == <<>>
    <3>1. v[off] = none /\ IsSeq(w[off])
      BY <1>5, <1>6, <2>2, <2>3
    <3>2. IsSeq(none) /\ Len(none) = 0
      BY NoneIsList
    <3> HIDE DEF none
    <3>3. Starts(none, w[off])
      <4>1. Len(w[off]) \in Nat
        BY <3>1, Shape
      <4>2. \A i \in 1..Len(none) : FALSE
        BY <3>2
      <4> QED
        BY <3>1, <3>2, <4>1, <4>2 DEF Starts
    <3> QED
      BY <2>2, <3>1, <3>3
  <2>4. CASE IsWhole(a, off)
    <3> DEFINE end == EndAt(a, off)
               one == TlvAt(b, off)
    <3>1. IsWhole(b, off) /\ EndAt(b, off) = end /\ end \in (off + 1)..c /\ TlvAt(a, off) = one
      BY <1>7, <2>2, <2>4
    <3>2. w[off] = <<one>> \o w[end] /\ v[off] = <<one>> \o v[end]
      BY <1>5, <1>6, <2>2, <2>4, <3>1
    <3> HIDE DEF end, one
    <3>3. end \in 0..c /\ ~(end <= off)
      BY <1>0, <2>2, <3>1
    <3>4. Starts(v[end], w[end])
      BY <2>1, <3>3
    <3>5. Starts(<<one>> \o v[end], <<one>> \o w[end])
      BY <3>4, StartsBehind
    <3> QED
      BY <2>2, <3>2, <3>5
  <2> QED
    BY <2>3, <2>4
<1> QED
  BY <1>8, <1>9

(* What is left of the start of a sequence is the start of what is left.   *)
LEMMA RestOfStart ==
  ASSUME NEW b, IsSeq(b), NEW c \in 0..Len(b), NEW i \in 0..c
  PROVE  From(SubSeq(b, 1, c), i) = SubSeq(From(b, i), 1, c - i) /\ c - i \in 0..Len(From(b, i))
<1> DEFINE a == SubSeq(b, 1, c)
           p == From(a, i)
           r == From(b, i)
           q == SubSeq(r, 1, c - i)
<1>0. Len(b) \in Nat /\ c \in Nat /\ c <= Len(b) /\ i \in Nat /\ i <= c
  BY Shape
<1>1. IsPiece(a, b, 1, c)
  BY <1>0, Piece
<1> HIDE DEF a
<1>2. IsSeq(a) /\ Len(a) = c /\ \A k \in 1..c : a[k] = b[k]
  BY <1>0, <1>1 DEF IsPiece
<1>3. IsRest(p, a, i) /\ IsRest(r, b, i)
  BY <1>0, <1>2, Rest
<1> HIDE DEF p, r
<1>4. IsSeq(p) /\ Len(p) = c - i /\ \A j \in 1..(c - i) : p[j] = a[i + j]
  BY <1>0, <1>2, <1>3 DEF IsRest
<1>5. IsSeq(r) /\ Len(r) = Len(b) - i /\ \A j \in 1..(Len(b) - i) : r[j] = b[i + j]
  BY <1>0, <1>3 DEF IsRest
<1>6. c - i \in 0..Len(r) /\ c - i \in Nat
  BY <1>0, <1>5
<1>7. IsPiece(q, r, 1, c - i)
  BY <1>5, <1>6, Piece
<1> HIDE DEF q
<1>8. IsSeq(q) /\ Len(q) = c - i /\ \A j \in 1..(c - i) : q[j] = r[j]
  BY <1>6, <1>7 DEF IsPiece
<1>9. ASSUME NEW j \in 1..Len(p) PROVE p[j] = q[j]
  <2>1. j \in 1..(c - i) /\ j \in 1..(Len(b) - i) /\ i + j \in 1..c
    BY <1>0, <1>4
  <2> QED
    BY <1>2, <1>4, <1>5, <1>8, <2>1
<1>10. p = q
  BY <1>4, <1>8, <1>9, Same
<1> QED
  BY <1>6, <1>10 DEF p, q, r, a

(* The start of a frame is an AWDL frame only if the frame is one.         *)
LEMMA StartIsAwdl ==
  ASSUME NEW f, IsSeq(f), NEW c \in 0..Len(f)
  PROVE  /\ IsAwdl(SubSeq(f, 1, c)) =>
              /\ IsAwdl(f) /\ c > MGMT_HEADER_LEN
              /\ SubSeq(f, 1, c)[3] = f[3]
              /\ SubSeq(f, 1, c)[MGMT_HEADER_LEN + 1] = f[MGMT_HEADER_LEN + 1]
         /\ c = Len(f) => SubSeq(f, 1, c) = f
<1> DEFINE a == SubSeq(f, 1, c)
<1>0. Len(f) \in Nat /\ c \in Nat /\ c <= Len(f)
  BY Shape
<1>1. IsPiece(a, f, 1, c)
  BY <1>0, Piece
<1> HIDE DEF a
<1>2. IsSeq(a) /\ Len(a) = c /\ \A k \in 1..c : a[k] = f[k]
  BY <1>0, <1>1 DEF IsPiece
<1>3. ASSUME IsAwdl(a) PROVE IsAwdl(f) /\ c > MGMT_HEADER_LEN /\ a[3] = f[3] /\ a[6] = f[6]
  <2>1. 5 < c /\ c > MGMT_HEADER_LEN
    BY <1>0, <1>2, <1>3 DEF IsAwdl, Has, MGMT_HEADER_LEN
  <2>2. a[1] = f[1] /\ a[3] = f[3] /\ a[6] = f[6] /\ 5 < Len(f) /\ 0 < Len(f) /\ 0 < Len(a)
    BY <1>0, <1>2, <2>1
  <2>3. TypeOf(a) = TypeOf(f)
    BY <2>2 DEF TypeOf, IsFc, Has
  <2>4. IsAction(f)
    BY <1>3, <2>2, <2>3 DEF IsAwdl, IsAction
  <2>5. f[6][1] = "apple"
    BY <1>3, <2>2 DEF IsAwdl, MGMT_HEADER_LEN
  <2> QED
    BY <2>1, <2>2, <2>4, <2>5 DEF IsAwdl, Has, MGMT_HEADER_LEN
<1>4. c = Len(f) => a = f
  <2> SUFFICES ASSUME c = Len(f) PROVE a = f
    OBVIOUS
  <2> QED
    BY <1>2, Same
<1> QED
  BY <1>3, <1>4 DEF a, MGMT_HEADER_LEN

(* The tags of a frame by number: where no number occurs twice, the last   *)
(* tag of a number is the one there is.                                    *)
LastOf(tlvs, tag) ==
  CHOOSE i \in DOMAIN tlvs :
    /\ tlvs[i].tag = tag
    /\ \A j \in DOMAIN tlvs : tlvs[j].tag = tag => j <= i
ReadTags(tlvs) ==
  [tag \in {tlvs[i].tag : i \in DOMAIN tlvs} |-> Parse(tlvs[LastOf(tlvs, tag)])]
Distinct(tlvs) == \A i, j \in DOMAIN tlvs : tlvs[i].tag = tlvs[j].tag => i = j

LEMMA Read802Is ==
  ASSUME NEW f, IsAwdl(f)
  PROVE  Read802(f) = [src |-> f[3][2], phy_tx_time |-> f[MGMT_HEADER_LEN + 1][3],
                       tags |-> ReadTags(Tlvs(From(f, MGMT_HEADER_LEN + 1)))]
<1> DEFINE tlvs == Tlvs(From(f, MGMT_HEADER_LEN + 1))
           last(tag) == CHOOSE i \in DOMAIN tlvs :
                          /\ tlvs[i].tag = tag
                          /\ \A j \in DOMAIN tlvs : tlvs[j].tag = tag => j <= i
<1>1. Read802(f) = [src |-> f[3][2], phy_tx_time |-> f[MGMT_HEADER_LEN + 1][3],
        tags |-> [tag \in {tlvs[i].tag : i \in DOMAIN tlvs} |-> Parse(tlvs[last(tag)])]]
  BY DEF Read802
<1> HIDE DEF tlvs
<1>2. [tag \in {tlvs[i].tag : i \in DOMAIN tlvs} |-> Parse(tlvs[last(tag)])] = ReadTags(tlvs)
  BY DEF ReadTags, LastOf
<1> HIDE DEF last
<1>3. Read802(f) = [src |-> f[3][2], phy_tx_time |-> f[MGMT_HEADER_LEN + 1][3], tags |-> ReadTags(tlvs)]
  BY <1>1, <1>2
<1> QED
  BY <1>3 DEF tlvs

LEMMA LastIs ==
  ASSUME NEW tlvs, IsSeq(tlvs), Distinct(tlvs), NEW i \in DOMAIN tlvs
  PROVE  LastOf(tlvs, tlvs[i].tag) = i
<1>1. Len(tlvs) \in Nat /\ DOMAIN tlvs = 1..Len(tlvs)
  BY Shape
<1>2. \A j \in DOMAIN tlvs : tlvs[j].tag = tlvs[i].tag => j <= i
  BY <1>1 DEF Distinct
<1>3. \A k \in DOMAIN tlvs : tlvs[k].tag = tlvs[i].tag => k = i
  BY DEF Distinct
<1> QED
  BY <1>2, <1>3 DEF LastOf

LEMMA TagRead ==
  ASSUME NEW tlvs, IsSeq(tlvs), Distinct(tlvs), NEW i \in DOMAIN tlvs
  PROVE  tlvs[i].tag \in DOMAIN ReadTags(tlvs) /\ ReadTags(tlvs)[tlvs[i].tag] = Parse(tlvs[i])
<1> DEFINE all == {tlvs[k].tag : k \in DOMAIN tlvs}
           f == [tag \in all |-> Parse(tlvs[LastOf(tlvs, tag)])]
<1>1. tlvs[i].tag \in all
  OBVIOUS
<1>2. LastOf(tlvs, tlvs[i].tag) = i
  BY LastIs
<1> HIDE DEF all
<1>3. f[tlvs[i].tag] = Parse(tlvs[LastOf(tlvs, tlvs[i].tag)]) /\ DOMAIN f = all
  BY <1>1
<1>4. ReadTags(tlvs) = f
  BY DEF ReadTags, all
<1> HIDE DEF f
<1> QED
  BY <1>1, <1>2, <1>3, <1>4

(* Of the tags a frame starts with, each is read as in the whole frame.    *)
LEMMA StartReads ==
  ASSUME NEW s, NEW t, Starts(s, t), Distinct(t)
  PROVE  \A tag \in DOMAIN ReadTags(s) :
           tag \in DOMAIN ReadTags(t) /\ ReadTags(s)[tag] = ReadTags(t)[tag]
<1>1. /\ IsSeq(s) /\ IsSeq(t) /\ Len(s) \in Nat /\ Len(t) \in Nat /\ Len(s) <= Len(t)
      /\ DOMAIN s = 1..Len(s) /\ DOMAIN t = 1..Len(t)
      /\ \A i \in 1..Len(s) : s[i] = t[i]
  BY Shape DEF Starts
<1>2. \A i \in DOMAIN s : i \in DOMAIN t /\ s[i] = t[i]
  BY <1>1
<1>3. Distinct(s)
  BY <1>2 DEF Distinct
<1> TAKE tag \in DOMAIN ReadTags(s)
<1>4. PICK i \in DOMAIN s : tag = s[i].tag
  BY DEF ReadTags
<1>5. ReadTags(s)[tag] = Parse(s[i])
  BY <1>1, <1>3, <1>4, TagRead
<1>6. t[i].tag \in DOMAIN ReadTags(t) /\ ReadTags(t)[t[i].tag] = Parse(t[i])
  BY <1>1, <1>2, TagRead
<1> QED
  BY <1>2, <1>4, <1>5, <1>6

(* Wherever a frame is cut, what is read of it is what is read of the      *)
(* whole, tag by tag (tlv.rs:106 Overrun).                                 *)
THEOREM CutReads ==
  ASSUME NEW f, IsSeq(f), NEW claim, ReadsAs(f, claim), NEW c \in 0..Len(f),
         IsAwdl(SubSeq(f, 1, c))
  PROVE  LET said == Read802(SubSeq(f, 1, c)) IN
         /\ said.src = claim.src /\ said.phy_tx_time = claim.phy_tx_time
         /\ \A tag \in DOMAIN said.tags :
              tag \in DOMAIN claim.tags /\ said.tags[tag] = claim.tags[tag]
<1> DEFINE a == SubSeq(f, 1, c)
           L == MGMT_HEADER_LEN + 1
           s == Tlvs(From(a, L))
           t == Tlvs(From(f, L))
<1>0. L = 6 /\ c \in Nat
  BY Shape DEF MGMT_HEADER_LEN
<1>1. IsAwdl(f) /\ c > MGMT_HEADER_LEN /\ a[3] = f[3] /\ a[L] = f[L]
  BY StartIsAwdl
<1>2. L \in 0..c
  BY <1>0, <1>1 DEF MGMT_HEADER_LEN
<1>3. From(a, L) = SubSeq(From(f, L), 1, c - L) /\ c - L \in 0..Len(From(f, L))
  BY <1>2, RestOfStart
<1>4. IsSeq(From(f, L))
  <2>1. L \in Nat
    BY <1>0
  <2> HIDE DEF L
  <2> QED
    BY <2>1, Rest DEF IsRest
<1>5. Starts(s, t)
  <2> DEFINE r == From(f, L)
             d == c - L
  <2>1. IsSeq(r) /\ d \in 0..Len(r) /\ From(a, L) = SubSeq(r, 1, d)
    BY <1>3, <1>4
  <2> HIDE DEF r, d, a
  <2>2. Starts(Tlvs(SubSeq(r, 1, d)), Tlvs(r))
    BY <2>1, CutTlvs
  <2>3. s = Tlvs(SubSeq(r, 1, d))
    BY <2>1
  <2> QED
    BY <2>2, <2>3 DEF r
<1>6. Distinct(t) /\ Read802(f) =
        [src |-> claim.src, phy_tx_time |-> claim.phy_tx_time, tags |-> claim.tags]
  BY DEF ReadsAs, Distinct
<1>7. Read802(f) = [src |-> f[3][2], phy_tx_time |-> f[L][3], tags |-> ReadTags(t)]
  BY <1>1, Read802Is
<1>8. Read802(a) = [src |-> a[3][2], phy_tx_time |-> a[L][3], tags |-> ReadTags(s)]
  BY Read802Is
<1> HIDE DEF a, L, s, t
<1>9. f[3][2] = claim.src /\ f[L][3] = claim.phy_tx_time /\ ReadTags(t) = claim.tags
  BY <1>6, <1>7
<1> DEFINE said == Read802(a)
<1>10. said.src = a[3][2] /\ said.phy_tx_time = a[L][3] /\ said.tags = ReadTags(s)
  BY <1>8
<1> HIDE DEF said
<1>11. \A tag \in DOMAIN ReadTags(s) :
         tag \in DOMAIN ReadTags(t) /\ ReadTags(s)[tag] = ReadTags(t)[tag]
  BY <1>5, <1>6, StartReads
<1>12. /\ said.src = claim.src /\ said.phy_tx_time = claim.phy_tx_time
       /\ \A tag \in DOMAIN said.tags :
            tag \in DOMAIN claim.tags /\ said.tags[tag] = claim.tags[tag]
  BY <1>1, <1>9, <1>10, <1>11
<1> QED
  BY <1>12 DEF said, a

-----------------------------------------------------------------------------
(* The tags of a body, as they were written.                               *)
(* What has grown step by step starts with what it was before.             *)
LEMMA GrownStarts ==
  ASSUME NEW f, NEW base, NEW T, NEW N \in Nat, IsGrown(f, base, T, N), IsSeq(base),
         \A n \in 1..N : IsSeq(T[n])
  PROVE  /\ \A n \in 0..N : IsSeq(f[n]) /\ Starts(f[n], f[N]) /\ f[0] = base
         /\ \A n \in 1..N : IsJoin(f[n], f[n - 1], T[n])
<1>1. \A n \in 0..N : f[n] = IF n = 0 THEN base ELSE f[n - 1] \o T[n]
  BY DEF IsGrown
<1>2. ASSUME NEW n \in 0..N PROVE IsSeq(f[n])
  <2> DEFINE g == [k \in 0..n |-> f[k]]
  <2>0. n \in Nat /\ \A k \in 0..n : k \in 0..N /\ (k # 0 => k - 1 \in 0..n)
    OBVIOUS
  <2>1. \A k \in 0..n : g[k] = IF k = 0 THEN base ELSE g[k - 1] \o T[k]
    BY <1>1, <2>0
  <2>2. IsGrown(g, base, T, n)
    BY <2>1 DEF IsGrown
  <2> HIDE DEF g
  <2>3. \A k \in 1..n : IsSeq(T[k])
    BY <2>0
  <2>4. IsSeq(g[n])
    BY <2>0, <2>2, <2>3, GrownIsSeq
  <2> QED
    BY <2>0, <2>4 DEF g
<1>3. ASSUME NEW n \in 1..N PROVE IsJoin(f[n], f[n - 1], T[n])
  <2>1. n \in 0..N /\ n # 0 /\ n - 1 \in 0..N
    OBVIOUS
  <2>2. f[n] = f[n - 1] \o T[n]
    BY <1>1, <2>1
  <2>3. IsSeq(f[n - 1]) /\ IsSeq(T[n])
    BY <1>2, <2>1
  <2> QED
    BY <2>2, <2>3, Joined
<1> DEFINE Bad == {n \in 0..N : ~Starts(f[n], f[N])}
<1>4. Bad = {}
  <2> SUFFICES ASSUME Bad # {} PROVE FALSE
    OBVIOUS
  <2>1. PICK n \in Bad : \A k \in Bad : k <= n
    BY Greatest
  <2>2. n \in 0..N /\ ~Starts(f[n], f[N])
    BY <2>1
  <2>3. Starts(f[N], f[N])
    <3>1. IsSeq(f[N])
      BY <1>2
    <3>2. Len(f[N]) \in Nat
      BY <3>1, Shape
    <3> QED
      BY <3>1, <3>2 DEF Starts
  <2>4. n + 1 \in 1..N /\ n + 1 \in 0..N /\ ~(n + 1 <= n) /\ (n + 1) - 1 = n
    BY <2>2, <2>3
  <2>5. Starts(f[n + 1], f[N])
    BY <2>1, <2>4
  <2>6. IsJoin(f[n + 1], f[n], T[n + 1])
    BY <1>3, <2>4
  <2>7. IsSeq(f[n]) /\ IsSeq(T[n + 1]) /\ Len(f[n]) \in Nat /\ Len(T[n + 1]) \in Nat
        /\ IsSeq(f[N]) /\ Len(f[N]) \in Nat
    BY <1>2, <2>2, <2>4, Shape
  <2>8. Len(f[n + 1]) = Len(f[n]) + Len(T[n + 1]) /\ \A i \in 1..Len(f[n]) : f[n + 1][i] = f[n][i]
    BY <2>6 DEF IsJoin
  <2>9. Len(f[n + 1]) <= Len(f[N]) /\ \A i \in 1..Len(f[n + 1]) : f[n + 1][i] = f[N][i]
    BY <2>5 DEF Starts
  <2>10. Len(f[n]) <= Len(f[N]) /\ \A i \in 1..Len(f[n]) : i \in 1..Len(f[n + 1])
    <3>1. PICK l \in Nat, x \in Nat, y \in Nat : l = Len(f[n]) /\ x = Len(T[n + 1]) /\ y = Len(f[N])
      BY <2>7
    <3>2. Len(f[n + 1]) = l + x /\ l + x <= y
      BY <2>8, <2>9, <3>1
    <3>3. l <= y /\ \A i \in 1..l : i \in 1..(l + x)
      BY <3>2
    <3> QED
      BY <3>1, <3>2, <3>3
  <2>11. \A i \in 1..Len(f[n]) : f[n][i] = f[N][i]
    BY <2>8, <2>9, <2>10
  <2> QED
    BY <2>2, <2>7, <2>10, <2>11 DEF Starts
<1>5. f[0] = base
  BY <1>1
<1> QED
  BY <1>2, <1>3, <1>4, <1>5

(* The body of a beacon, piece by piece.                                   *)
Written(t) == IsSeq(t) /\ \A i \in 1..Len(t) : IsWritten(t[i])
Pieces(t) == [n \in 1..Len(t) |-> Tag(t[n][1], Encode(t[n][1], t[n][2]))]

LEMMA BodyGrows ==
  ASSUME NEW header, NEW t, Written(t)
  PROVE  /\ \E f : IsGrown(f, <<header>>, Pieces(t), Len(t)) /\ encode_body(header, t) = f[Len(t)]
         /\ \A n \in 1..Len(t) : IsSeq(Pieces(t)[n])
<1> DEFINE N == Len(t)
           T == Pieces(t)
           body[n \in 0..Len(t)] ==
             IF n = 0 THEN <<header>>
             ELSE body[n - 1] \o Tag(t[n][1], Encode(t[n][1], t[n][2]))
<1>0. N \in Nat
  BY Shape DEF Written
<1>1. PICK f : IsGrown(f, <<header>>, T, N)
  <2> HIDE DEF T
  <2> QED
    BY <1>0, Grows
<1>2. f = [n \in 0..N |-> IF n = 0 THEN <<header>> ELSE f[n - 1] \o T[n]]
  BY <1>1 DEF IsGrown
<1>20. \A n \in 0..N : n # 0 => T[n] = Tag(t[n][1], Encode(t[n][1], t[n][2]))
  BY <1>0 DEF Pieces
<1>21. \A n \in 1..N : T[n] = Tag(t[n][1], Encode(t[n][1], t[n][2]))
  BY DEF Pieces
<1> HIDE DEF T
<1>3. f = [n \in 0..N |-> IF n = 0 THEN <<header>>
                          ELSE f[n - 1] \o Tag(t[n][1], Encode(t[n][1], t[n][2]))]
  BY <1>2, <1>20
<1>4. body = [n \in 0..N |-> IF n = 0 THEN <<header>>
                          ELSE body[n - 1] \o Tag(t[n][1], Encode(t[n][1], t[n][2]))]
  BY <1>3
<1>5. encode_body(header, t) = body[N]
  BY DEF encode_body
<1> HIDE DEF body
<1>6. body = [n \in 0..N |-> IF n = 0 THEN <<header>> ELSE body[n - 1] \o T[n]]
  BY <1>4, <1>20
<1>7. IsGrown(body, <<header>>, T, N)
  BY <1>6 DEF IsGrown
<1>8. ASSUME NEW n \in 1..N PROVE IsSeq(T[n])
  <2>1. IsSeq(Encode(t[n][1], t[n][2]))
    BY DEF Written, IsWritten
  <2> QED
    BY <1>21, <2>1, TagIsSeq
<1> QED
  BY <1>5, <1>7, <1>8 DEF T

(* The tags of a body are those that were written, each with its value.    *)
Item(x) == [tag |-> x[1], value |-> Encode(x[1], x[2])]
Items(t, n) == [i \in 1..(Len(t) - n) |-> Item(t[n + i])]

LEMMA ItemsFollow ==
  ASSUME NEW t, Len(t) \in Nat, NEW n \in 0..(Len(t) - 1)
  PROVE  <<Item(t[n + 1])>> \o Items(t, n + 1) = Items(t, n)
<1> DEFINE x == Item(t[n + 1])
           f == Items(t, n + 1)
           g == Items(t, n)
           k == Len(t) - (n + 1)
<1>1. k \in Nat /\ k + 1 = Len(t) - n /\ n \in Nat
  OBVIOUS
<1>2. f = [i \in 1..k |-> Item(t[(n + 1) + i])] /\ g = [i \in 1..(k + 1) |-> Item(t[n + i])]
  BY <1>1 DEF Items
<1> HIDE DEF f, g, k
<1>3. f = [i \in 1..k |-> f[i]] /\ g = [i \in 1..(k + 1) |-> g[i]]
  <2>1. \A i \in 1..k : f[i] = Item(t[(n + 1) + i])
    BY <1>2
  <2>2. \A i \in 1..(k + 1) : g[i] = Item(t[n + i])
    BY <1>2
  <2> QED
    BY <1>2, <2>1, <2>2
<1>4. 1 \in 1..(k + 1) /\ \A j \in 1..k : 1 + j \in 1..(k + 1)
  BY <1>1
<1>5. g[1] = x
  BY <1>2, <1>4
<1>6. ASSUME NEW j \in 1..k PROVE g[1 + j] = f[j]
  <2>1. n + (1 + j) = (n + 1) + j
    BY <1>1
  <2>2. g[1 + j] = Item(t[n + (1 + j)]) /\ f[j] = Item(t[(n + 1) + j])
    BY <1>2, <1>4
  <2> QED
    BY <2>1, <2>2
<1>7. IsLed(g, x, f, k)
  BY <1>1, <1>3, <1>5, <1>6 DEF IsLed
<1>8. <<x>> \o f = g
  BY <1>7, Led
<1> QED
  BY <1>8 DEF x, f, g

(* Where a tag was put, it is found.                                       *)
LEMMA TagFound ==
  ASSUME NEW t, Written(t), NEW f, NEW header, IsGrown(f, <<header>>, Pieces(t), Len(t)),
         NEW n \in 0..(Len(t) - 1)
  PROVE  LET r == From(f[Len(t)], 1) IN
         /\ Len(f[n]) - 1 \in 0..Len(r) /\ Len(f[n + 1]) - 1 \in 0..Len(r)
         /\ IsWhole(r, Len(f[n]) - 1)
         /\ EndAt(r, Len(f[n]) - 1) = Len(f[n + 1]) - 1
         /\ TlvAt(r, Len(f[n]) - 1) = Item(t[n + 1])
<1> DEFINE N == Len(t)
           b == f[N]
           r == From(b, 1)
           one == <<header>>
           tag == t[n + 1][1]
           value == Encode(tag, t[n + 1][2])
           opening == <<<<"tlv", tag, Len(value)>>>>
           T == Pieces(t)
           x == T[n + 1]
           p == Len(f[n]) - 1
           q == Len(f[n + 1]) - 1
<1>0. N \in Nat /\ n \in Nat /\ n \in 0..N /\ n + 1 \in 1..N /\ n + 1 \in 0..N /\ (n + 1) - 1 = n
  BY Shape DEF Written
<1>1. IsSeq(one) /\ Len(one) = 1
  BY OneIsList
<1>2. \A k \in 1..N : IsSeq(T[k])
  BY BodyGrows
<1>3. x = opening \o value
  BY <1>0 DEF Pieces, Tag
<1>4. IsSeq(value)
  BY <1>0 DEF Written, IsWritten
<1>5. IsSeq(opening) /\ Len(opening) = 1 /\ opening[1] = <<"tlv", tag, Len(value)>>
  BY OneIsList
<1>6. IsGrown(f, one, T, N)
  OBVIOUS
<1>t. Item(t[n + 1]) = [tag |-> tag, value |-> value]
  BY DEF Item
<1>l. /\ <<"tlv", tag, Len(value)>>[1] = "tlv" /\ <<"tlv", tag, Len(value)>>[2] = tag
      /\ <<"tlv", tag, Len(value)>>[3] = Len(value)
  OBVIOUS
<1> HIDE DEF T, one, value, tag, opening, N
<1>7. \A k \in 0..N : IsSeq(f[k]) /\ Starts(f[k], b) /\ f[0] = one
  BY <1>0, <1>1, <1>2, <1>6, GrownStarts DEF b
<1>8. IsJoin(f[n + 1], f[n], x)
  BY <1>0, <1>1, <1>2, <1>6, GrownStarts
<1>9. IsJoin(x, opening, value)
  BY <1>3, <1>4, <1>5, Joined
<1>10. Starts(one, f[n])
  <2> DEFINE g == [k \in 0..n |-> f[k]]
  <2>1. \A k \in 0..n : k \in 0..N /\ (k # 0 => k - 1 \in 0..n)
    BY <1>0
  <2>2. \A k \in 0..N : f[k] = IF k = 0 THEN one ELSE f[k - 1] \o T[k]
    BY <1>6 DEF IsGrown
  <2>3. \A k \in 0..n : g[k] = IF k = 0 THEN one ELSE g[k - 1] \o T[k]
    BY <2>1, <2>2
  <2>4. IsGrown(g, one, T, n)
    BY <2>3 DEF IsGrown
  <2>5. g[n] = f[n] /\ 0 \in 0..n
    BY <1>0
  <2> HIDE DEF g
  <2>6. \A k \in 1..n : IsSeq(T[k])
    BY <1>0, <1>2
  <2>7. Starts(g[0], g[n]) /\ g[0] = one
    BY <1>0, <1>1, <2>4, <2>5, <2>6, GrownStarts
  <2> QED
    BY <2>5, <2>7
<1> HIDE DEF b, x
<1>11. PICK l \in Nat : l = Len(f[n])
  BY <1>0, <1>7, Shape
<1>12. PICK v \in Nat : v = Len(value)
  BY <1>4, Shape
<1>13. PICK m \in Nat : m = Len(b)
  BY <1>0, <1>7, Shape DEF Starts
<1>14. l >= 1
  BY <1>1, <1>10, <1>11 DEF Starts
<1>15. IsSeq(x) /\ Len(x) = 1 + v /\ x[1] = <<"tlv", tag, Len(value)>>
       /\ \A i \in 1..v : x[1 + i] = value[i]
  BY <1>5, <1>9, <1>12 DEF IsJoin
<1>16. Len(f[n + 1]) = l + 1 + v /\ \A i \in 1..(1 + v) : f[n + 1][l + i] = x[i]
  <2>1. Len(f[n + 1]) = Len(f[n]) + Len(x) /\ \A i \in 1..Len(x) : f[n + 1][Len(f[n]) + i] = x[i]
    BY <1>8 DEF IsJoin
  <2>2. Len(f[n + 1]) = l + (1 + v) /\ \A i \in 1..(1 + v) : f[n + 1][l + i] = x[i]
    BY <1>11, <1>15, <2>1
  <2>3. l + (1 + v) = l + 1 + v
    OBVIOUS
  <2> QED
    BY <2>2, <2>3
<1>17. l + 1 + v <= m /\ \A i \in 1..(l + 1 + v) : f[n + 1][i] = b[i]
  <2>1. Starts(f[n + 1], b)
    BY <1>0, <1>7
  <2> QED
    BY <1>13, <1>16, <2>1 DEF Starts
<1>18. IsSeq(b)
  BY <1>0, <1>7 DEF Starts
<1>19. IsRest(r, b, 1)
  BY <1>18, Rest
<1> HIDE DEF r
<1>20. IsSeq(r) /\ Len(r) = m - 1 /\ \A j \in 1..(m - 1) : r[j] = b[1 + j]
  BY <1>13, <1>14, <1>17, <1>19 DEF IsRest
<1>21. p = l - 1 /\ q = l + v /\ p \in 0..Len(r) /\ q \in 0..Len(r) /\ p \in Nat /\ q \in (p + 1)..Len(r)
  BY <1>11, <1>14, <1>16, <1>17, <1>20
<1>22. r[p + 1] = <<"tlv", tag, Len(value)>>
  <2>1. p + 1 = l /\ l \in 1..(m - 1) /\ 1 + l = l + 1 /\ 1 \in 1..(1 + v) /\ l + 1 \in 1..(l + 1 + v)
    BY <1>14, <1>17, <1>21
  <2>2. r[l] = b[l + 1] /\ b[l + 1] = f[n + 1][l + 1] /\ f[n + 1][l + 1] = x[1]
    BY <1>16, <1>17, <1>20, <2>1
  <2> QED
    BY <1>15, <2>1, <2>2
<1>23. EndAt(r, p) = q
  <2>1. r[p + 1][3] = v
    BY <1>12, <1>22, <1>l
  <2> QED
    BY <1>21, <2>1 DEF EndAt
<1>24. IsWhole(r, p)
  <2>1. r[p + 1][1] = "tlv" /\ p < Len(r)
    BY <1>17, <1>20, <1>21, <1>22, <1>l
  <2> QED
    BY <1>21, <1>23, <2>1 DEF IsWhole, Has
<1>25. SubSeq(r, p + 2, q) = value
  <2> DEFINE s == SubSeq(r, p + 2, q)
  <2>1. IsPiece(s, r, p + 2, q)
    <3>1. p + 2 \in Nat \ {0} /\ q \in Nat /\ q <= Len(r)
      BY <1>21
    <3> QED
      BY <1>20, <3>1, Piece
  <2> HIDE DEF s
  <2>2. p + 2 = l + 1 /\ q = l + v
    BY <1>21
  <2> HIDE DEF p, q
  <2>6. IsPiece(s, r, l + 1, l + v)
    BY <2>1, <2>2
  <2>7. IsSeq(s) /\ Len(s) = (IF l + 1 <= l + v THEN ((l + v) - (l + 1)) + 1 ELSE 0)
        /\ \A i \in 1..(((l + v) - (l + 1)) + 1) : s[i] = r[((l + 1) - 1) + i]
    BY <2>6 DEF IsPiece
  <2>8. ((l + v) - (l + 1)) + 1 = v /\ (l + 1) - 1 = l /\ (l + 1 <= l + v \/ v = 0)
    OBVIOUS
  <2>3. IsSeq(s) /\ Len(s) = v /\ \A i \in 1..v : s[i] = r[l + i]
    BY <2>7, <2>8
  <2>4. ASSUME NEW i \in 1..Len(s) PROVE s[i] = value[i]
    <3>1. i \in 1..v /\ l + i \in 1..(m - 1) /\ 1 + (l + i) = l + (1 + i) /\ 1 + i \in 1..(1 + v)
          /\ l + (1 + i) \in 1..(l + 1 + v)
      BY <1>14, <1>17, <2>3
    <3>2. s[i] = r[l + i] /\ r[l + i] = b[l + (1 + i)]
      BY <1>20, <2>3, <3>1
    <3>3. b[l + (1 + i)] = f[n + 1][l + (1 + i)] /\ f[n + 1][l + (1 + i)] = x[1 + i]
      BY <1>16, <1>17, <3>1
    <3> QED
      BY <1>15, <3>1, <3>2, <3>3
  <2>5. s = value
    BY <1>4, <1>12, <2>3, <2>4, Same
  <2> QED
    BY <2>5 DEF s
<1>26. TlvAt(r, p) = [tag |-> tag, value |-> value]
  BY <1>22, <1>23, <1>25, <1>l DEF TlvAt
<1> QED
  BY <1>21, <1>23, <1>24, <1>26, <1>t DEF r, b, N

LEMMA BodyTlvs ==
  ASSUME NEW header, NEW t, Written(t)
  PROVE  /\ IsSeq(encode_body(header, t)) /\ Len(encode_body(header, t)) >= 1
         /\ encode_body(header, t)[1] = header
         /\ Tlvs(From(encode_body(header, t), 1)) = Items(t, 0)
<1> DEFINE N == Len(t)
           b == encode_body(header, t)
           r == From(b, 1)
           one == <<header>>
<1>0. N \in Nat
  BY Shape DEF Written
<1>1. PICK f : IsGrown(f, <<header>>, Pieces(t), N) /\ b = f[N]
  BY BodyGrows
<1>2. IsSeq(one) /\ Len(one) = 1 /\ one[1] = header
  BY OneIsList
<1>3. \A k \in 1..N : IsSeq(Pieces(t)[k])
  BY BodyGrows
<1>4. f[0] = one /\ Starts(one, b) /\ IsSeq(b)
  <2> HIDE DEF one, b
  <2> DEFINE T == Pieces(t)
  <2>1. IsGrown(f, one, T, N) /\ \A k \in 1..N : IsSeq(T[k])
    BY <1>1, <1>3 DEF one
  <2> HIDE DEF T
  <2>2. \A k \in 0..N : IsSeq(f[k]) /\ Starts(f[k], f[N]) /\ f[0] = one
    BY <1>0, <1>2, <2>1, GrownStarts
  <2> QED
    BY <1>0, <1>1, <2>2
<1> HIDE DEF b, one
<1>5. Len(b) \in Nat /\ Len(b) >= 1 /\ b[1] = header
  BY <1>2, <1>4, Shape DEF Starts
<1>6. IsRest(r, b, 1)
  BY <1>4, Rest
<1>r. r = From(f[N], 1)
  BY <1>1
<1> HIDE DEF r
<1>7. IsSeq(r) /\ Len(r) = Len(b) - 1
  BY <1>5, <1>6 DEF IsRest
<1>8. PICK w : IsTlvWalk(w, r) /\ Tlvs(r) = w[0]
  BY <1>7, TlvsWalk
<1>9. \A off \in 0..Len(r) :
        w[off] = IF ~IsWhole(r, off) THEN <<>> ELSE <<TlvAt(r, off)>> \o w[EndAt(r, off)]
  BY <1>8 DEF IsTlvWalk
<1>10. ASSUME NEW n \in 0..(N - 1)
       PROVE  /\ Len(f[n]) - 1 \in 0..Len(r)
              /\ w[Len(f[n]) - 1] = <<Item(t[n + 1])>> \o w[Len(f[n + 1]) - 1]
  <2>1. /\ Len(f[n]) - 1 \in 0..Len(r) /\ IsWhole(r, Len(f[n]) - 1)
        /\ EndAt(r, Len(f[n]) - 1) = Len(f[n + 1]) - 1 /\ TlvAt(r, Len(f[n]) - 1) = Item(t[n + 1])
    BY <1>1, <1>r, TagFound
  <2> QED
    BY <1>9, <2>1
<1>11. w[Len(f[N]) - 1] = <<>>
  <2>1. Len(f[N]) - 1 = Len(r) /\ Len(r) \in 0..Len(r) /\ Len(r) \in Nat
    BY <1>1, <1>5, <1>7
  <2>2. ~IsWhole(r, Len(r))
    BY <2>1 DEF IsWhole, Has
  <2> QED
    BY <1>9, <2>1, <2>2
<1> DEFINE Bad == {n \in 0..N : w[Len(f[n]) - 1] # Items(t, n)}
<1>12. Bad = {}
  <2> SUFFICES ASSUME Bad # {} PROVE FALSE
    OBVIOUS
  <2>1. PICK n \in Bad : \A k \in Bad : k <= n
    BY <1>0, Greatest
  <2>2. n \in 0..N /\ w[Len(f[n]) - 1] # Items(t, n)
    BY <2>1
  <2>3. n # N
    <3> DEFINE none == <<>>
    <3>1. DOMAIN Items(t, N) = {}
      BY <1>0 DEF Items
    <3>2. Items(t, N) = none
      BY <3>1 DEF Items
    <3> QED
      BY <1>11, <2>2, <3>2
  <2>4. n \in 0..(N - 1) /\ n + 1 \in 0..N /\ ~(n + 1 <= n)
    BY <1>0, <2>2, <2>3
  <2>5. w[Len(f[n + 1]) - 1] = Items(t, n + 1)
    BY <2>1, <2>4
  <2>6. <<Item(t[n + 1])>> \o Items(t, n + 1) = Items(t, n)
    BY <1>0, <2>4, ItemsFollow
  <2>7. w[Len(f[n]) - 1] = <<Item(t[n + 1])>> \o w[Len(f[n + 1]) - 1]
    BY <1>10, <2>4
  <2> QED
    BY <2>2, <2>5, <2>6, <2>7
<1>13. w[0] = Items(t, 0)
  <2>1. Len(f[0]) - 1 = 0 /\ 0 \in 0..N
    BY <1>0, <1>2, <1>4
  <2>2. w[Len(f[0]) - 1] = Items(t, 0)
    BY <1>12, <2>1
  <2> QED
    BY <2>1, <2>2
<1> QED
  BY <1>4, <1>5, <1>8, <1>13 DEF b, r

-----------------------------------------------------------------------------
(* What each tag says, read back.                                          *)
-----------------------------------------------------------------------------
(* What was put behind a beginning is what is left behind it.              *)
LEMMA RestOfJoin ==
  ASSUME NEW s, IsSeq(s), NEW t, IsSeq(t)
  PROVE  /\ From(s \o t, Len(s)) = t
         /\ SubSeq(s \o t, 1, Len(s)) = s
         /\ SubSeq(s \o t, Len(s) + 1, Len(s) + Len(t)) = t
<1> DEFINE r == s \o t
<1>0. PICK l \in Nat, m \in Nat : l = Len(s) /\ m = Len(t)
  BY Shape
<1>1. IsJoin(r, s, t)
  BY Joined
<1> HIDE DEF r
<1>2. IsSeq(r) /\ Len(r) = l + m /\ (\A i \in 1..l : r[i] = s[i]) /\ \A i \in 1..m : r[l + i] = t[i]
  BY <1>0, <1>1 DEF IsJoin
<1>3. SubSeq(r, 1, l) = s
  <2>1. IsPiece(SubSeq(r, 1, l), r, 1, l)
    BY <1>2, Piece
  <2>2. IsSeq(SubSeq(r, 1, l)) /\ Len(SubSeq(r, 1, l)) = l /\ \A i \in 1..l : SubSeq(r, 1, l)[i] = r[i]
    BY <2>1 DEF IsPiece
  <2> QED
    BY <1>0, <1>2, <2>2, Same
<1>4. SubSeq(r, l + 1, l + m) = t
  <2> DEFINE y == SubSeq(r, l + 1, l + m)
  <2>1. IsPiece(y, r, l + 1, l + m)
    <3>1. l + 1 \in Nat \ {0} /\ l + m \in Nat /\ l + m <= Len(r)
      BY <1>2
    <3> QED
      BY <1>2, <3>1, Piece
  <2> HIDE DEF y
  <2>2. IsSeq(y) /\ Len(y) = (IF l + 1 <= l + m THEN ((l + m) - (l + 1)) + 1 ELSE 0)
        /\ \A i \in 1..(((l + m) - (l + 1)) + 1) : y[i] = r[((l + 1) - 1) + i]
    BY <2>1 DEF IsPiece
  <2>3. ((l + m) - (l + 1)) + 1 = m /\ (l + 1) - 1 = l /\ (l + 1 <= l + m \/ m = 0)
    OBVIOUS
  <2>4. Len(y) = m /\ \A i \in 1..m : y[i] = r[l + i]
    BY <2>2, <2>3
  <2>5. Len(y) = Len(t) /\ \A i \in 1..Len(y) : y[i] = t[i]
    BY <1>0, <1>2, <2>4
  <2> QED
    BY <2>2, <2>5, Same DEF y
<1>5. From(r, l) = SubSeq(r, l + 1, l + m)
  BY <1>2 DEF From
<1>6. From(r, l) = t
  BY <1>4, <1>5
<1> QED
  BY <1>0, <1>3, <1>4, <1>6 DEF r

(* What follows one symbol.                                                *)
LEMMA BehindOne ==
  ASSUME NEW x, NEW t, IsSeq(t)
  PROVE  /\ From(<<x>> \o t, 1) = t /\ Has(<<x>> \o t, 0) /\ (<<x>> \o t)[1] = x
         /\ IsSeq(<<x>> \o t) /\ Len(<<x>> \o t) = 1 + Len(t)
         /\ \A i \in 1..Len(t) : (<<x>> \o t)[1 + i] = t[i]
<1> DEFINE one == <<x>>
           r == one \o t
<1>1. IsSeq(one) /\ Len(one) = 1 /\ one[1] = x
  BY OneIsList
<1> HIDE DEF one
<1>2. From(one \o t, Len(one)) = t
  BY <1>1, RestOfJoin
<1>3. IsJoin(r, one, t)
  BY <1>1, Joined
<1> HIDE DEF r
<1>4. IsSeq(r) /\ Len(r) = 1 + Len(t) /\ r[1] = x /\ \A i \in 1..Len(t) : r[1 + i] = t[i]
  BY <1>1, <1>3 DEF IsJoin
<1>5. Has(r, 0)
  <2>1. Len(t) \in Nat
    BY Shape
  <2> QED
    BY <1>4, <2>1 DEF Has
<1>6. From(r, 1) = t
  BY <1>1, <1>2 DEF r
<1> QED
  BY <1>4, <1>5, <1>6 DEF r, one

-----------------------------------------------------------------------------
(* What is written of a tag is read back.                                  *)
Returns(x) == Parse(Item(x)) = x[2]

(* A value of fixed fields.                                                *)
LEMMA BlockReturns ==
  ASSUME NEW tag \in {5, 6, 7, 24}, NEW s
  PROVE  Returns(<<tag, s>>)
<1> DEFINE v == Block(s)
           x == <<tag, s>>
           t == [tag |-> tag, value |-> v]
<1>1. Has(v, 0) /\ v[1] = <<"block", s>>
  <2>1. v = <<<<"block", s>>>>
    BY DEF Block
  <2>2. Len(v) = 1 /\ v[1] = <<"block", s>>
    BY <2>1, OneIsList
  <2> QED
    BY <2>2 DEF Has
<1>2. x[1] = tag /\ x[2] = s
  OBVIOUS
<1>3. Item(x) = t
  BY <1>2 DEF Item, Encode
<1>4. t.tag = tag /\ t.value = v
  OBVIOUS
<1> HIDE DEF v, t, x
<1>5. Parse(t) = ReadBlock(v)
  BY <1>4 DEF Parse
<1>6. ReadBlock(v) = s
  BY <1>1 DEF ReadBlock
<1> QED
  BY <1>2, <1>3, <1>5, <1>6 DEF Returns, x

(* The version: two nibbles.                                               *)
LEMMA VersionReturns ==
  ASSUME NEW major \in 0..15, NEW minor \in 0..15, NEW class
  PROVE  Returns(<<21, [major |-> major, minor |-> minor, device_class |-> class]>>)
<1> DEFINE s == [major |-> major, minor |-> minor, device_class |-> class]
           v == VersionEncode(s)
           t == [tag |-> 21, value |-> v]
           k == 16 * major + (minor % 16)
<1>1. v = <<<<"version", k, class>>>>
  BY DEF VersionEncode
<1>2. k \div 16 = major /\ k % 16 = minor
  OBVIOUS
<1> HIDE DEF k
<1>3. Len(v) = 1 /\ v[1] = <<"version", k, class>>
  BY <1>1, OneIsList
<1>4. v[1][2] = k /\ v[1][3] = class /\ Has(v, 0)
  BY <1>3 DEF Has
<1> HIDE DEF v
<1>5. VersionParse(v) = s
  BY <1>2, <1>4 DEF VersionParse
<1> HIDE DEF s
<1> DEFINE x == <<21, s>>
<1>6. x[1] = 21 /\ x[2] = s
  OBVIOUS
<1>7. Item(x) = t
  BY <1>6 DEF Item, Encode, v
<1>8. t.tag = 21 /\ t.value = v
  OBVIOUS
<1> HIDE DEF t, x
<1>9. Parse(t) = VersionParse(v)
  BY <1>8 DEF Parse
<1> QED
  BY <1>5, <1>6, <1>7, <1>9 DEF Returns, x, s

(* A container of one element.                                             *)
LEMMA ContainerReturns ==
  ASSUME NEW id, NEW body
  PROVE  Returns(<<17, <<[id |-> id, body |-> body]>>>>)
<1> DEFINE s == <<[id |-> id, body |-> body]>>
           v == ContainerEncode(s)
           t == [tag |-> 17, value |-> v]
           pair == <<<<"element", id, 1>>, <<"body", body>>>>
           out[n \in 0..Len(s)] ==
             IF n = 0 THEN <<>>
             ELSE out[n - 1] \o <<<<"element", s[n].id, 1>>, <<"body", s[n].body>>>>
<1>1. Len(s) = 1 /\ s[1] = [id |-> id, body |-> body]
  BY OneIsList
<1>2. s[1].id = id /\ s[1].body = body
  BY <1>1
<1>3. v = out[Len(s)]
  BY DEF ContainerEncode
<1>s. s = [n \in 1..1 |-> [id |-> id, body |-> body]]
  OBVIOUS
<1> HIDE DEF s
<1>4. out = [n \in 0..1 |-> IF n = 0 THEN <<>> ELSE
               out[n - 1] \o <<<<"element", s[n].id, 1>>, <<"body", s[n].body>>>>]
  <2> DEFINE T == [n \in 1..1 |-> <<<<"element", s[n].id, 1>>, <<"body", s[n].body>>>>]
  <2>1. PICK f : IsGrown(f, <<>>, T, 1)
    BY Grows
  <2>2. f = [n \in 0..1 |-> IF n = 0 THEN <<>> ELSE f[n - 1] \o T[n]]
    BY <2>1 DEF IsGrown
  <2>3. \A n \in 0..1 : n # 0 => T[n] = <<<<"element", s[n].id, 1>>, <<"body", s[n].body>>>>
    OBVIOUS
  <2> HIDE DEF T
  <2>4. f = [n \in 0..1 |-> IF n = 0 THEN <<>> ELSE
               f[n - 1] \o <<<<"element", s[n].id, 1>>, <<"body", s[n].body>>>>]
    BY <2>2, <2>3
  <2> QED
    BY <1>1, <2>4
<1> HIDE DEF out
<1>5. out[0] = <<>> /\ out[1] = out[0] \o <<<<"element", s[1].id, 1>>, <<"body", s[1].body>>>>
  BY <1>4
<1>6. IsSeq(pair) /\ Len(pair) = 2 /\ pair[1] = <<"element", id, 1>> /\ pair[2] = <<"body", body>>
  BY TwoAreList
<1>7. out[1] = <<>> \o pair
  BY <1>2, <1>5
<1> HIDE DEF pair
<1>8. <<>> \o pair = pair
  <2> DEFINE none == <<>>
             r == none \o pair
  <2>1. IsSeq(none) /\ Len(none) = 0
    BY NoneIsList
  <2> HIDE DEF none
  <2>2. IsJoin(r, none, pair)
    BY <1>6, <2>1, Joined
  <2> HIDE DEF r
  <2>3. IsSeq(r) /\ Len(r) = 2 /\ \A i \in 1..2 : r[0 + i] = pair[i]
    BY <1>6, <2>1, <2>2 DEF IsJoin
  <2>4. \A i \in 1..2 : r[i] = pair[i]
    BY <2>3
  <2>5. r = pair
    BY <1>6, <2>3, <2>4, Same
  <2> QED
    BY <2>5 DEF r, none
<1>9. v = pair
  BY <1>1, <1>3, <1>7, <1>8
<1>10. Len(v) = 2 /\ v[1][2] = id /\ v[2][2] = body
  BY <1>6, <1>9
<1> HIDE DEF v
<1>11. ContainerParse(v) = s
  <2>1. Len(v) % 2 = 0 /\ Len(v) \div 2 = 1
    BY <1>10
  <2>2. ContainerParse(v) = [n \in 1..1 |-> [id |-> v[2 * n - 1][2], body |-> v[2 * n][2]]]
    BY <2>1 DEF ContainerParse
  <2>3. \A n \in 1..1 : [id |-> v[2 * n - 1][2], body |-> v[2 * n][2]] = [id |-> id, body |-> body]
    <3>1. \A n \in 1..1 : 2 * n - 1 = 1 /\ 2 * n = 2
      OBVIOUS
    <3> QED
      BY <1>10, <3>1
  <2> QED
    BY <1>s, <2>2, <2>3
<1> DEFINE x == <<17, s>>
<1>12. x[1] = 17 /\ x[2] = s
  OBVIOUS
<1>13. Item(x) = t
  BY <1>12 DEF Item, Encode, v
<1>14. t.tag = 17 /\ t.value = v
  OBVIOUS
<1> HIDE DEF t, x
<1>15. Parse(t) = ContainerParse(v)
  BY <1>14 DEF Parse
<1> QED
  BY <1>11, <1>12, <1>13, <1>15 DEF Returns, x, s

(* A schedule: sixteen slots, with whatever stands behind them.            *)
LEMMA SequenceReturns ==
  ASSUME NEW config, NEW tail, IsSeq(tail)
  PROVE  LET s == OpClassSequence(schedule(config)) IN
         SequenceParse(SequenceEncode(s) \o tail) = s
<1> DEFINE s == OpClassSequence(schedule(config))
           e == SequenceEncode(s)
           v == e \o tail
           t == [i \in 1..16 |-> <<"slot", s.channels[i - 1], s.qualifiers[i - 1]>>]
           x == <<"count", 15, "OpClass">>
<1>1. DOMAIN schedule(config) = Slot /\ schedule(config) = [i \in Slot |-> schedule(config)[i]]
  BY DEF schedule, Single, AppleShaped, Widened
<1>2. /\ s.encoding = "OpClass" /\ s.channels = schedule(config)
      /\ s.qualifiers = [i \in Slot |-> opclass_for(schedule(config)[i])]
      /\ s = [encoding |-> s.encoding, channels |-> s.channels, qualifiers |-> s.qualifiers]
  BY <1>1 DEF OpClassSequence
<1>3. Cardinality(DOMAIN s.channels) = 16
  <2>1. Cardinality(0..15) = 16
    <3>1. Cardinality(0..15) = IF 0 > 15 THEN 0 ELSE (15 - 0) + 1
      BY 0 \in Int, 15 \in Int, FS_Interval, Zenon
    <3> QED
      BY <3>1
  <2> QED
    BY <1>1, <1>2, <2>1 DEF Slot
<1> HIDE DEF s
<1>4. e = <<x>> \o t
  <2>1. 16 - 1 = 15
    OBVIOUS
  <2>2. e = <<<<"count", 15, "OpClass">>>>
    \o [i \in 1..16 |-> IF s.encoding = "Legacy"
                       THEN <<"slot", s.qualifiers[i - 1], s.channels[i - 1]>>
                       ELSE <<"slot", s.channels[i - 1], s.qualifiers[i - 1]>>]
    BY <1>2, <1>3, <2>1 DEF SequenceEncode
  <2>3. s.encoding # "Legacy"
    BY <1>2
  <2> QED
    BY <2>2, <2>3
<1>5. DOMAIN t = 1..16 /\ t = [i \in 1..16 |-> t[i]]
      /\ \A i \in 1..16 : t[i] = <<"slot", s.channels[i - 1], s.qualifiers[i - 1]>>
  OBVIOUS
<1> HIDE DEF t, e
<1>6. IsSeq(t) /\ Len(t) = 16
  BY <1>5, Listed
<1>x. x[2] = 15 /\ x[3] = "OpClass"
  OBVIOUS
<1> HIDE DEF x
<1>7. IsSeq(e) /\ Len(e) = 17 /\ e[1] = x /\ \A i \in 1..16 : e[1 + i] = t[i]
  <2> DEFINE y == <<x>> \o t
  <2>0. IsSeq(t)
    BY <1>6
  <2>1. IsSeq(y) /\ Len(y) = 1 + Len(t) /\ y[1] = x /\ \A i \in 1..Len(t) : y[1 + i] = t[i]
    <3>1. (<<x>> \o t)[1] = x
      BY <2>0, BehindOne
    <3>2. IsSeq(<<x>> \o t)
      BY <2>0, BehindOne
    <3>3. Len(<<x>> \o t) = 1 + Len(t)
      BY <2>0, BehindOne
    <3>4. \A i \in 1..Len(t) : (<<x>> \o t)[1 + i] = t[i]
      BY <2>0, BehindOne
    <3> QED
      BY <3>1, <3>2, <3>3, <3>4
  <2>2. e = y
    BY <1>4
  <2> HIDE DEF y
  <2>3. 1 + 16 = 17
    OBVIOUS
  <2> QED
    BY <1>6, <2>1, <2>2, <2>3
<1>8. IsJoin(v, e, tail) /\ Len(tail) \in Nat
  BY <1>7, Joined, Shape
<1> HIDE DEF v
<1>9. Len(v) = 17 + Len(tail) /\ \A i \in 1..17 : v[i] = e[i]
  BY <1>7, <1>8 DEF IsJoin
<1>10. v[1] = x /\ Has(v, 0) /\ ~(Len(v) < 1 + 16)
  BY <1>7, <1>8, <1>9 DEF Has
<1>11. ASSUME NEW i \in Slot PROVE v[i + 2][2] = s.channels[i] /\ v[i + 2][3] = s.qualifiers[i]
  <2>1. i + 2 = 1 + (i + 1) /\ i + 1 \in 1..16 /\ 1 + (i + 1) \in 1..17 /\ (i + 1) - 1 = i
    BY DEF Slot
  <2>2. v[i + 2] = t[i + 1]
    BY <1>7, <1>9, <2>1
  <2>3. t[i + 1] = <<"slot", s.channels[i], s.qualifiers[i]>>
    BY <1>5, <2>1
  <2> QED
    BY <2>2, <2>3
<1>12. SequenceParse(v) = [encoding |-> "OpClass", channels |-> [i \in Slot |-> v[i + 2][2]],
                           qualifiers |-> [i \in Slot |-> v[i + 2][3]]]
  <2>1. v[1][2] + 1 = 16 /\ v[1][3] = "OpClass" /\ 16 - 1 = 15
    BY <1>10, <1>x
  <2>2. SequenceParse(v) = [encoding |-> v[1][3], channels |-> [i \in 0..(16 - 1) |-> v[i + 2][2]],
                           qualifiers |-> [i \in 0..(16 - 1) |-> v[i + 2][3]]]
    BY <1>10, <2>1 DEF SequenceParse
  <2> QED
    BY <2>1, <2>2 DEF Slot
<1>13. [i \in Slot |-> v[i + 2][2]] = s.channels
  BY <1>1, <1>2, <1>11
<1>14. [i \in Slot |-> v[i + 2][3]] = s.qualifiers
  <2>1. s.qualifiers = [i \in Slot |-> s.qualifiers[i]]
    BY <1>2
  <2> QED
    BY <1>11, <2>1
<1>15. SequenceParse(v) = s
  BY <1>2, <1>12, <1>13, <1>14
<1> QED
  BY <1>15 DEF v, e, s

LEMMA ScheduleReturns ==
  ASSUME NEW config
  PROVE  Returns(<<18, OpClassSequence(schedule(config))>>)
<1> DEFINE s == OpClassSequence(schedule(config))
           tail == <<<<"trailing", 0, 0>>>>
           v == SequenceEncode(s) \o tail
           t == [tag |-> 18, value |-> v]
           x == <<18, s>>
<1>1. IsSeq(tail)
  BY OneIsList
<1>2. v = encode_tag18(s)
  BY DEF encode_tag18
<1> HIDE DEF tail
<1>3. SequenceParse(v) = s
  BY <1>1, SequenceReturns
<1> HIDE DEF s, v
<1>4. x[1] = 18 /\ x[2] = s
  OBVIOUS
<1>5. Item(x) = t
  BY <1>2, <1>4 DEF Item, Encode
<1>6. t.tag = 18 /\ t.value = v
  OBVIOUS
<1> HIDE DEF t, x
<1>7. Parse(t) = SequenceParse(v)
  BY <1>6 DEF Parse
<1> QED
  BY <1>3, <1>4, <1>5, <1>7 DEF Returns, x, s

LEMMA SyncReturns ==
  ASSUME NEW b, NEW instant
  PROVE  Returns(<<4, sync(b, instant)>>)
<1> DEFINE s == sync(b, instant)
           q == OpClassSequence(schedule(b.config))
           tail == <<<<"trailing", 0>>>>
           y == SequenceEncode(q)
           r == y \o tail
           one == <<"block", s.fixed>>
           v == <<one>> \o r
           t == [tag |-> 4, value |-> SyncEncode(s)]
           x == <<4, s>>
<1>1. s = [fixed |-> s.fixed, channel_sequence |-> s.channel_sequence] /\ s.channel_sequence = q
  BY DEF sync
<1>2. IsSeq(tail) /\ IsSeq(y)
  BY OneIsList, OpClassIsWritten
<1>3. SyncEncode(s) = (<<one>> \o y) \o tail
  BY <1>1 DEF SyncEncode, Block
<1>o. one[2] = s.fixed
  OBVIOUS
<1> HIDE DEF tail
<1>4. SequenceParse(r) = q
  BY <1>2, SequenceReturns
<1> HIDE DEF s, y, q, one
<1>5. IsSeq(r)
  BY <1>2, JoinIsSeq
<1>6. (<<one>> \o y) \o tail = v
  <2> DEFINE a == <<one>> \o y
             z == a \o tail
  <2>1. IsSeq(a) /\ Len(a) = 1 + Len(y) /\ a[1] = one /\ \A i \in 1..Len(y) : a[1 + i] = y[i]
    BY <1>2, BehindOne
  <2>2. IsSeq(v) /\ Len(v) = 1 + Len(r) /\ v[1] = one /\ \A i \in 1..Len(r) : v[1 + i] = r[i]
    BY <1>5, BehindOne
  <2>3. IsJoin(r, y, tail)
    BY <1>2, Joined
  <2> HIDE DEF a, v, r
  <2>4. IsJoin(z, a, tail)
    BY <1>2, <2>1, Joined
  <2> HIDE DEF z
  <2>5. PICK l \in Nat, m \in Nat : l = Len(y) /\ m = Len(tail)
    BY <1>2, Shape
  <2>6. Len(r) = l + m /\ (\A i \in 1..l : r[i] = y[i]) /\ \A i \in 1..m : r[l + i] = tail[i]
    BY <2>3, <2>5 DEF IsJoin
  <2>7. IsSeq(z) /\ Len(z) = (1 + l) + m /\ (\A i \in 1..(1 + l) : z[i] = a[i])
        /\ \A i \in 1..m : z[(1 + l) + i] = tail[i]
    BY <2>1, <2>4, <2>5 DEF IsJoin
  <2>8. ASSUME NEW i \in 1..Len(z) PROVE z[i] = v[i]
    <3>1. CASE i = 1
      BY <2>1, <2>2, <2>5, <2>7, <3>1
    <3>2. CASE i # 1 /\ i <= 1 + l
      <4>1. i - 1 \in 1..l /\ i - 1 \in 1..(l + m) /\ 1 + (i - 1) = i /\ i \in 1..(1 + l)
        BY <2>7, <3>2
      <4>2. z[i] = y[i - 1] /\ v[i] = r[i - 1] /\ r[i - 1] = y[i - 1]
        BY <2>1, <2>2, <2>5, <2>6, <2>7, <4>1
      <4> QED
        BY <4>2
    <3>3. CASE ~(i <= 1 + l)
      <4> DEFINE j == i - (1 + l)
      <4>1. j \in 1..m /\ i = (1 + l) + j /\ i = 1 + (l + j) /\ l + j \in 1..(l + m)
        BY <2>7, <3>3
      <4> HIDE DEF j
      <4>2. z[i] = tail[j]
        BY <2>7, <4>1
      <4>3. v[i] = r[l + j]
        BY <2>2, <2>6, <4>1
      <4>4. r[l + j] = tail[j]
        BY <2>6, <4>1
      <4> QED
        BY <4>2, <4>3, <4>4
    <3> QED
      BY <3>1, <3>2, <3>3
  <2>9. Len(z) = Len(v)
    BY <2>2, <2>6, <2>7
  <2>10. z = v
    BY <2>2, <2>7, <2>8, <2>9, Same
  <2> QED
    BY <2>10 DEF z, a
<1>7. Has(v, 0) /\ v[1] = one /\ From(v, 1) = r
  BY <1>5, BehindOne
<1> HIDE DEF v, r
<1>8. SyncParse(v) = s
  <2>1. SyncParse(v) = [fixed |-> one[2], channel_sequence |-> q]
    BY <1>4, <1>7 DEF SyncParse, ReadBlock
  <2> QED
    BY <1>1, <1>o, <2>1
<1>9. x[1] = 4 /\ x[2] = s
  OBVIOUS
<1>10. Item(x) = t
  BY <1>9 DEF Item, Encode
<1>11. t.tag = 4 /\ t.value = v
  BY <1>3, <1>6
<1> HIDE DEF t, x
<1>12. Parse(t) = SyncParse(v)
  BY <1>11 DEF Parse
<1> QED
  BY <1>8, <1>9, <1>10, <1>12 DEF Returns, x, s

(* The fields a bitmap announces, each once.                               *)
Fields(d) == {i \in 1..8 : FieldOrder[i] \in DOMAIN d}

LEMMA PresentIs ==
  ASSUME NEW d, \A f \in DOMAIN d : \E i \in 1..8 : FieldOrder[i] = f
  PROVE  LET p == Present(DOMAIN d) IN
         /\ IsSeq(p) /\ IsFiniteSet(DOMAIN d)
         /\ Cardinality(DOMAIN d) <= Len(p) /\ Cardinality(DOMAIN d) \in Nat
         /\ \A f \in DOMAIN d : \E j \in 1..Len(p) : p[j] = f
<1> DEFINE at == Fields(d)
           N == Cardinality(at)
           o == InOrder(at)
           p == Present(DOMAIN d)
           g == [i \in at |-> FieldOrder[i]]
<1>1. at \in SUBSET (1..8)
  BY DEF Fields
<1>2. IsFiniteSet(at) /\ N \in Nat /\ Len(o) = N
      /\ (\A j \in 1..N : o[j] \in at) /\ \A i \in at : \E j \in 1..N : o[j] = i
  <2>1. 8 \in Nat
    OBVIOUS
  <2> HIDE DEF at
  <2> QED
    BY <1>1, <2>1, InOrderIs
<1>3. p = [j \in 1..N |-> FieldOrder[o[j]]]
  <2>1. DOMAIN FieldOrder = 1..8
    BY DEF FieldOrder
  <2>2. at = {i \in DOMAIN FieldOrder : FieldOrder[i] \in DOMAIN d}
    BY <2>1 DEF Fields
  <2>3. p = [j \in 1..N |-> FieldOrder[CHOOSE i \in at : Cardinality({k \in at : k <= i}) = j]]
    BY <2>2 DEF Present
  <2> HIDE DEF at
  <2>4. o = [j \in 1..N |-> CHOOSE i \in at : Cardinality({k \in at : k <= i}) = j]
    BY DEF InOrder
  <2>5. \A j \in 1..N : o[j] = CHOOSE i \in at : Cardinality({k \in at : k <= i}) = j
    BY <2>4
  <2> HIDE DEF o, N, p
  <2>6. \A j \in 1..N :
          FieldOrder[CHOOSE i \in at : Cardinality({k \in at : k <= i}) = j] = FieldOrder[o[j]]
    BY <2>5
  <2> QED
    BY <2>3, <2>6
<1> HIDE DEF p, o, N
<1>4. DOMAIN p = 1..N /\ p = [j \in 1..N |-> p[j]] /\ \A j \in 1..N : p[j] = FieldOrder[o[j]]
  BY <1>3
<1>5. IsSeq(p) /\ Len(p) = N
  BY <1>2, <1>4, Listed
<1>6. ASSUME NEW f \in DOMAIN d PROVE \E j \in 1..N : p[j] = f
  <2>1. PICK i \in 1..8 : FieldOrder[i] = f
    OBVIOUS
  <2>2. i \in at
    BY <2>1 DEF Fields
  <2>3. PICK j \in 1..N : o[j] = i
    BY <1>2, <2>2
  <2> QED
    BY <1>4, <2>1, <2>3
<1>7. g \in Surjection(at, DOMAIN d)
  <2>1. \A i \in at : g[i] = FieldOrder[i] /\ FieldOrder[i] \in DOMAIN d
    BY DEF Fields
  <2>2. g \in [at -> DOMAIN d]
    BY <2>1
  <2>3. \A f \in DOMAIN d : \E i \in at : g[i] = f
    BY <2>1 DEF Fields
  <2> QED
    BY <2>2, <2>3 DEF Surjection
<1> HIDE DEF g, at
<1>8. IsFiniteSet(DOMAIN d) /\ Cardinality(DOMAIN d) <= N
  BY <1>2, <1>7, FS_Surjection DEF N
<1>9. Cardinality(DOMAIN d) \in Nat
  BY <1>8, FS_CardinalityType
<1> QED
  BY <1>5, <1>6, <1>8, <1>9 DEF p

(* The data path comes back, whatever fields it has.                       *)
LEMMA DataPathReads ==
  ASSUME NEW d, d = [f \in DOMAIN d |-> d[f]],
         \A f \in DOMAIN d : \E i \in 1..8 : FieldOrder[i] = f
  PROVE  DataPathParse(DataPathEncode(d)) = d
<1> DEFINE D == DOMAIN d
           p == Present(D)
           n == Len(p)
           x == <<"flags", D>>
           t == [i \in 1..n |-> <<"field", d[p[i]]>>]
           v == DataPathEncode(d)
<1>1. /\ IsSeq(p) /\ n \in Nat /\ IsFiniteSet(D) /\ Cardinality(D) <= n /\ Cardinality(D) \in Nat
      /\ \A f \in D : \E j \in 1..n : p[j] = f
  <2>1. /\ IsSeq(p) /\ IsFiniteSet(D) /\ Cardinality(D) <= n /\ Cardinality(D) \in Nat
        /\ \A f \in D : \E j \in 1..n : p[j] = f
    BY PresentIs
  <2>2. n \in Nat
    <3> HIDE DEF p
    <3> QED
      BY <2>1, Shape
  <2> QED
    BY <2>1, <2>2
<1>2. v = <<x>> \o t
  BY DEF DataPathEncode
<1>3. x[2] = D
  OBVIOUS
<1> HIDE DEF p, n, x, v
<1>4. DOMAIN t = 1..n /\ t = [i \in 1..n |-> t[i]] /\ \A i \in 1..n : t[i] = <<"field", d[p[i]]>>
  OBVIOUS
<1> HIDE DEF t
<1>5. IsSeq(t) /\ Len(t) = n
  BY <1>1, <1>4, Listed
<1>6. Has(v, 0) /\ v[1] = x /\ Len(v) = 1 + n /\ \A i \in 1..n : v[1 + i] = t[i]
  <2>1. Has(<<x>> \o t, 0) /\ (<<x>> \o t)[1] = x
    BY <1>5, BehindOne
  <2>2. Len(<<x>> \o t) = 1 + Len(t) /\ \A i \in 1..Len(t) : (<<x>> \o t)[1 + i] = t[i]
    BY <1>5, BehindOne
  <2> QED
    BY <1>2, <1>5, <2>1, <2>2
<1>7. v[1][2] = D /\ Has(v, Cardinality(v[1][2]))
  BY <1>1, <1>3, <1>6 DEF Has
<1>8. DataPathParse(v) = [f \in D |->
          LET i == CHOOSE j \in 1..Len(Present(D)) : Present(D)[j] = f IN v[i + 1][2]]
  BY <1>6, <1>7 DEF DataPathParse
<1>9. ASSUME NEW f \in D
      PROVE  (LET i == CHOOSE j \in 1..Len(Present(D)) : Present(D)[j] = f IN v[i + 1][2]) = d[f]
  <2> DEFINE i == CHOOSE j \in 1..n : p[j] = f
  <2>1. i \in 1..n /\ p[i] = f
    BY <1>1
  <2>2. (LET k == CHOOSE j \in 1..Len(Present(D)) : Present(D)[j] = f IN v[k + 1][2]) = v[i + 1][2]
    BY DEF n, p
  <2> HIDE DEF i
  <2>3. i + 1 = 1 + i
    BY <2>1
  <2>4. v[i + 1] = <<"field", d[p[i]]>>
    BY <1>4, <1>6, <2>1, <2>3
  <2>5. v[i + 1][2] = d[f]
    BY <2>1, <2>4
  <2> QED
    BY <2>2, <2>5
<1>10. DataPathParse(v) = [f \in D |-> d[f]]
  BY <1>8, <1>9
<1> QED
  BY <1>10 DEF v

LEMMA DataPathReturns ==
  ASSUME NEW b
  PROVE  Returns(<<12, data_path(b)>>)
<1> DEFINE d == data_path(b)
           v == DataPathEncode(d)
           x == <<12, d>>
           t == [tag |-> 12, value |-> v]
<1>1. d = [f \in DOMAIN d |-> d[f]]
  BY DEF data_path, describing
<1>2. DOMAIN d \subseteq {"country", "social_channel", "awdl_address", "extended", "infra_bssid"}
  BY DEF data_path, describing
<1>3. /\ FieldOrder[1] = "country" /\ FieldOrder[2] = "social_channel" /\ FieldOrder[3] = "infra_bssid"
      /\ FieldOrder[5] = "awdl_address" /\ FieldOrder[8] = "extended"
  BY DEF FieldOrder
<1> HIDE DEF d
<1>4. ASSUME NEW f \in DOMAIN d PROVE \E i \in 1..8 : FieldOrder[i] = f
  <2>1. 1 \in 1..8 /\ 2 \in 1..8 /\ 3 \in 1..8 /\ 5 \in 1..8 /\ 8 \in 1..8
    OBVIOUS
  <2>2. f \in {"country", "social_channel", "awdl_address", "extended", "infra_bssid"}
    BY <1>2
  <2> QED
    BY <1>3, <2>1, <2>2
<1>5. DataPathParse(v) = d
  BY <1>1, <1>4, DataPathReads
<1>6. x[1] = 12 /\ x[2] = d
  OBVIOUS
<1>7. Item(x) = t
  BY <1>6 DEF Item, Encode
<1>8. t.tag = 12 /\ t.value = v
  OBVIOUS
<1> HIDE DEF t, x, v
<1>9. Parse(t) = DataPathParse(v)
  BY <1>8 DEF Parse
<1> QED
  BY <1>5, <1>6, <1>7, <1>9 DEF Returns, x, d

(* A name comes back, whichever of its endings the dictionary covers       *)
(* (service.rs, encode_name and decode_name).                              *)
THEOREM NamesComeBack ==
  ASSUME NEW name, IsSeq(name)
  PROVE  decode_name(encode_name(name)) = name
<1> DEFINE L == Len(name)
           covered == {k \in 0..(L - 1) : From(name, k) \in Dictionary}
           k == IF covered = {} THEN L ELSE CHOOSE i \in covered : \A j \in covered : i <= j
           t == [i \in 1..k |-> <<"label", name[i]>>]
           rest == From(name, k)
           x == <<"code", rest>>
           v == encode_name(name)
<1>0. L \in Nat
  BY Shape
<1>1. k \in 0..L
  <2>1. covered \in SUBSET Nat /\ \A i \in covered : i \in 0..L
    BY <1>0
  <2> HIDE DEF covered
  <2>2. covered # {} => \E i \in covered : \A j \in covered : i <= j
    BY <2>1, Least
  <2>3. CASE covered = {}
    BY <1>0, <2>3
  <2>4. CASE covered # {}
    <3>1. k \in covered
      BY <2>2, <2>4
    <3> QED
      BY <2>1, <3>1
  <2> QED
    BY <2>3, <2>4
<1>2. v = t \o <<x>>
  BY DEF encode_name
<1>x. x[1] = "code" /\ x[2] = rest
  OBVIOUS
<1> HIDE DEF k, v
<1>3. k \in Nat /\ k <= L
  BY <1>0, <1>1
<1>4. DOMAIN t = 1..k /\ t = [i \in 1..k |-> t[i]] /\ \A i \in 1..k : t[i] = <<"label", name[i]>>
  OBVIOUS
<1> HIDE DEF t, x
<1>5. IsSeq(t) /\ Len(t) = k
  BY <1>3, <1>4, Listed
<1> DEFINE one == <<x>>
<1>6. IsSeq(one) /\ Len(one) = 1 /\ one[1] = x
  BY OneIsList
<1> HIDE DEF one
<1>7. IsJoin(v, t, one)
  BY <1>2, <1>5, <1>6, Joined DEF one
<1>8. Len(v) = k + 1 /\ (\A i \in 1..k : v[i] = <<"label", name[i]>>) /\ v[k + 1] = x
  <2>1. Len(v) = k + 1 /\ (\A i \in 1..k : v[i] = t[i]) /\ \A i \in 1..1 : v[k + i] = one[i]
    BY <1>5, <1>6, <1>7 DEF IsJoin
  <2> QED
    BY <1>4, <1>6, <2>1
<1> DEFINE T == [n \in 1..(k + 1) |-> IF v[n][1] = "code" THEN v[n][2] ELSE <<v[n][2]>>]
           names[n \in 0..Len(v)] ==
             IF n = 0 THEN <<>>
             ELSE names[n - 1] \o (IF v[n][1] = "code" THEN v[n][2] ELSE <<v[n][2]>>)
<1>9. decode_name(v) = names[k + 1]
  BY <1>8 DEF decode_name
<1>10. \A n \in 0..(k + 1) : n # 0 => T[n] = IF v[n][1] = "code" THEN v[n][2] ELSE <<v[n][2]>>
  BY <1>3
<1>11. \A n \in 1..(k + 1) : T[n] = IF v[n][1] = "code" THEN v[n][2] ELSE <<v[n][2]>>
  OBVIOUS
<1> HIDE DEF T
<1>12. names = [n \in 0..(k + 1) |-> IF n = 0 THEN <<>> ELSE
                  names[n - 1] \o (IF v[n][1] = "code" THEN v[n][2] ELSE <<v[n][2]>>)]
  <2>1. k + 1 \in Nat
    BY <1>3
  <2>2. PICK f : IsGrown(f, <<>>, T, k + 1)
    BY <2>1, Grows
  <2>3. f = [n \in 0..(k + 1) |-> IF n = 0 THEN <<>> ELSE f[n - 1] \o T[n]]
    BY <2>2 DEF IsGrown
  <2>4. f = [n \in 0..(k + 1) |-> IF n = 0 THEN <<>> ELSE
               f[n - 1] \o (IF v[n][1] = "code" THEN v[n][2] ELSE <<v[n][2]>>)]
    BY <1>10, <2>3
  <2> QED
    BY <1>8, <2>4
<1> HIDE DEF names
<1>13. IsGrown(names, <<>>, T, k + 1)
  <2>1. names = [n \in 0..(k + 1) |-> IF n = 0 THEN <<>> ELSE names[n - 1] \o T[n]]
    BY <1>10, <1>12
  <2> QED
    BY <2>1 DEF IsGrown
<1>14. ASSUME NEW n \in 1..k PROVE T[n] = <<name[n]>>
  <2>1. n \in 1..(k + 1) /\ v[n] = <<"label", name[n]>>
    BY <1>3, <1>8
  <2>2. v[n][1] = "label" /\ v[n][2] = name[n]
    BY <2>1
  <2> QED
    BY <1>11, <2>1, <2>2
<1>15. T[k + 1] = rest
  <2>1. k + 1 \in 1..(k + 1)
    BY <1>3
  <2> QED
    BY <1>8, <1>11, <1>x, <2>1
<1>16. IsRest(rest, name, k)
  BY <1>3, Rest
<1> HIDE DEF rest
<1>17. IsSeq(rest) /\ Len(rest) = L - k /\ \A j \in 1..(L - k) : rest[j] = name[k + j]
  BY <1>0, <1>3, <1>16 DEF IsRest
<1>18. \A n \in 1..(k + 1) : IsSeq(T[n])
  <2>1. ASSUME NEW n \in 1..(k + 1) PROVE IsSeq(T[n])
    <3>1. CASE n = k + 1
      BY <1>15, <1>17, <3>1
    <3>2. CASE n # k + 1
      <4>1. n \in 1..k
        BY <1>3, <3>2
      <4>2. IsSeq(<<name[n]>>)
        BY OneIsList
      <4> QED
        BY <1>14, <4>1, <4>2
    <3> QED
      BY <3>1, <3>2
  <2> QED
    BY <2>1
<1> DEFINE none == <<>>
<1>19. IsSeq(none) /\ Len(none) = 0
  BY NoneIsList
<1>20. IsGrown(names, none, T, k + 1)
  BY <1>13
<1> HIDE DEF none
<1>21. /\ \A n \in 0..(k + 1) : IsSeq(names[n]) /\ names[0] = none
       /\ \A n \in 1..(k + 1) : IsJoin(names[n], names[n - 1], T[n])
  <2>1. k + 1 \in Nat
    BY <1>3
  <2> QED
    BY <1>18, <1>19, <1>20, <2>1, GrownStarts
<1> DEFINE Bad == {n \in 0..k : ~(Len(names[n]) = n /\ \A i \in 1..n : names[n][i] = name[i])}
<1>22. Bad = {}
  <2> SUFFICES ASSUME Bad # {} PROVE FALSE
    OBVIOUS
  <2>1. Bad \in SUBSET Nat
    BY <1>3
  <2>2. PICK n \in Bad : \A j \in Bad : n <= j
    BY <2>1, Least
  <2>3. n \in 0..k /\ ~(Len(names[n]) = n /\ \A i \in 1..n : names[n][i] = name[i])
    BY <2>2
  <2>4. n # 0
    <3>1. names[0] = none
      BY <1>3, <1>21
    <3>2. \A i \in 1..0 : FALSE
      OBVIOUS
    <3> QED
      BY <1>19, <2>3, <3>1, <3>2
  <2>5. n \in 1..k /\ n - 1 \in 0..k /\ ~(n <= n - 1) /\ n \in 1..(k + 1)
    BY <1>3, <2>3, <2>4
  <2>6. Len(names[n - 1]) = n - 1 /\ \A i \in 1..(n - 1) : names[n - 1][i] = name[i]
    BY <2>2, <2>5
  <2> DEFINE y == <<name[n]>>
  <2>7. T[n] = y /\ Len(y) = 1 /\ y[1] = name[n]
    BY <1>14, <2>5, OneIsList
  <2> HIDE DEF y
  <2>8. IsJoin(names[n], names[n - 1], y)
    BY <1>21, <2>5, <2>7
  <2>9. Len(names[n]) = (n - 1) + 1 /\ (\A i \in 1..(n - 1) : names[n][i] = names[n - 1][i])
        /\ \A i \in 1..1 : names[n][(n - 1) + i] = y[i]
    BY <2>6, <2>7, <2>8 DEF IsJoin
  <2>10. Len(names[n]) = n /\ names[n][n] = name[n]
    <3>1. (n - 1) + 1 = n
      BY <2>5
    <3> QED
      BY <2>7, <2>9, <3>1
  <2>11. \A i \in 1..n : i = n \/ i \in 1..(n - 1)
    BY <2>5
  <2>12. \A i \in 1..n : names[n][i] = name[i]
    BY <2>6, <2>9, <2>10, <2>11
  <2> QED
    BY <2>3, <2>10, <2>12
<1>23. Len(names[k]) = k /\ \A i \in 1..k : names[k][i] = name[i]
  <2>1. k \in 0..k /\ k \notin Bad
    BY <1>3, <1>22
  <2> QED
    BY <2>1
<1>24. IsSeq(names[k + 1]) /\ Len(names[k + 1]) = L
       /\ (\A i \in 1..k : names[k + 1][i] = name[i])
       /\ \A i \in 1..(L - k) : names[k + 1][k + i] = name[k + i]
  <2>1. k + 1 \in 1..(k + 1) /\ k + 1 \in 0..(k + 1) /\ (k + 1) - 1 = k
    BY <1>3
  <2>2. IsJoin(names[k + 1], names[k], rest)
    BY <1>15, <1>21, <2>1
  <2>3. IsSeq(names[k + 1]) /\ Len(names[k + 1]) = Len(names[k]) + Len(rest)
        /\ (\A i \in 1..Len(names[k]) : names[k + 1][i] = names[k][i])
        /\ \A i \in 1..Len(rest) : names[k + 1][Len(names[k]) + i] = rest[i]
    BY <2>2 DEF IsJoin
  <2>4. k + (L - k) = L
    BY <1>0, <1>3
  <2>5. Len(names[k + 1]) = L
    BY <1>17, <1>23, <2>3, <2>4
  <2>6. \A i \in 1..k : names[k + 1][i] = name[i]
    BY <1>23, <2>3
  <2>7. \A i \in 1..(L - k) : names[k + 1][k + i] = name[k + i]
    BY <1>17, <1>23, <2>3
  <2> QED
    BY <2>3, <2>5, <2>6, <2>7
<1>25. ASSUME NEW i \in 1..Len(names[k + 1]) PROVE names[k + 1][i] = name[i]
  <2>1. CASE i <= k
    <3>1. i \in 1..k
      BY <1>24, <2>1
    <3> QED
      BY <1>24, <3>1
  <2>2. CASE ~(i <= k)
    <3> DEFINE j == i - k
    <3>1. j \in 1..(L - k) /\ i = k + j
      BY <1>0, <1>3, <1>24, <2>2
    <3> HIDE DEF j
    <3> QED
      BY <1>24, <3>1
  <2> QED
    BY <2>1, <2>2
<1>26. names[k + 1] = name
  BY <1>24, <1>25, Same
<1> QED
  BY <1>9, <1>26 DEF v

(* The host's name, behind its flags.                                      *)
LEMMA ArpaReturns ==
  ASSUME NEW flags, NEW name, IsSeq(name)
  PROVE  Returns(<<16, [flags |-> flags, name |-> name]>>)
<1> DEFINE s == [flags |-> flags, name |-> name]
           x == <<16, s>>
           e == encode_name(name)
           y == <<"flags", flags>>
           v == <<y>> \o e
           t == [tag |-> 16, value |-> v]
<1>1. ArpaEncode(s) = v
  BY DEF ArpaEncode
<1>2. IsSeq(e)
  BY Shape, NameIsWritten
<1>3. decode_name(e) = name
  BY NamesComeBack
<1>4. y[2] = flags
  OBVIOUS
<1> HIDE DEF e, y
<1>5. From(v, 1) = e /\ Has(v, 0) /\ v[1] = y
  BY <1>2, BehindOne
<1>6. x[1] = 16 /\ x[2] = s
  OBVIOUS
<1>7. Item(x) = t
  BY <1>1, <1>6 DEF Item, Encode
<1>8. t.tag = 16 /\ t.value = v
  OBVIOUS
<1> HIDE DEF v, t, x
<1>9. ArpaParse(v) = [flags |-> flags, name |-> name]
  BY <1>3, <1>4, <1>5 DEF ArpaParse
<1> HIDE DEF s
<1>10. Parse(t) = ArpaParse(v)
  BY <1>8 DEF Parse
<1> QED
  BY <1>6, <1>7, <1>9, <1>10 DEF Returns, x, s

(* Where the two names of a record are.                                    *)
LEMMA RecordIs ==
  ASSUME NEW n, IsSeq(n), NEW g, IsSeq(g)
  PROVE  LET v == ((<<Length(Len(n) + 1)>> \o n)
                     \o <<<<"type", "PTR">>, Length(Len(g)), Filler>>) \o g
         IN  /\ v[1][2] - 1 = Len(n) /\ v[Len(n) + 3][2] = Len(g)
             /\ Has(v, Len(n) + 3) /\ Has(v, Len(n) + 3 + Len(g))
             /\ SubSeq(v, 2, Len(n) + 1) = n
             /\ SubSeq(v, Len(n) + 5, Len(n) + 4 + Len(g)) = g
<1>0. PICK k \in Nat, l \in Nat : k = Len(n) /\ l = Len(g)
  BY Shape
<1> DEFINE h == Length(k + 1)
           r == <<h>> \o n
           a == <<"type", "PTR">>
           b == Length(l)
           m == <<a, b, Filler>>
           q == r \o m
           v == q \o g
<1>1. h[2] = k + 1 /\ b[2] = l
  BY DEF Length
<1> HIDE DEF h, a, b
<1>2. IsSeq(r) /\ Len(r) = 1 + k /\ r[1] = h /\ From(r, 1) = n
  <2>1. IsSeq(r) /\ Len(r) = 1 + Len(n)
    BY BehindOne
  <2>2. r[1] = h /\ From(r, 1) = n
    BY BehindOne
  <2> QED
    BY <1>0, <2>1, <2>2
<1> HIDE DEF r
<1>3. IsSeq(m) /\ Len(m) = 3 /\ m[2] = b
  BY ThreeAreList
<1> HIDE DEF m
<1>4. IsJoin(q, r, m) /\ SubSeq(q, 1, Len(r)) = r
  BY <1>2, <1>3, Joined, RestOfJoin
<1> HIDE DEF q
<1>5. IsSeq(q) /\ Len(q) = k + 4 /\ q[1] = h /\ q[k + 3] = b
  <2>1. IsSeq(q) /\ Len(q) = (1 + k) + 3 /\ (\A i \in 1..(1 + k) : q[i] = r[i])
        /\ \A i \in 1..3 : q[(1 + k) + i] = m[i]
    BY <1>2, <1>3, <1>4 DEF IsJoin
  <2>2. 1 \in 1..(1 + k) /\ 2 \in 1..3 /\ (1 + k) + 2 = k + 3 /\ (1 + k) + 3 = k + 4
    OBVIOUS
  <2>3. q[1] = r[1] /\ q[(1 + k) + 2] = m[2]
    BY <2>1, <2>2
  <2> QED
    BY <1>2, <1>3, <2>1, <2>2, <2>3
<1>6. IsJoin(v, q, g) /\ SubSeq(v, 1, Len(q)) = q
      /\ SubSeq(v, Len(q) + 1, Len(q) + Len(g)) = g
  <2>1. IsJoin(v, q, g)
    BY <1>5, Joined
  <2>2. SubSeq(v, 1, Len(q)) = q
    BY <1>5, RestOfJoin
  <2>3. SubSeq(v, Len(q) + 1, Len(q) + Len(g)) = g
    BY <1>5, RestOfJoin
  <2> QED
    BY <2>1, <2>2, <2>3
<1> HIDE DEF v
<1>7. IsSeq(v) /\ Len(v) = (k + 4) + l /\ v[1] = h /\ v[k + 3] = b
  <2>1. IsSeq(v) /\ Len(v) = (k + 4) + l /\ (\A i \in 1..(k + 4) : v[i] = q[i])
    BY <1>0, <1>5, <1>6 DEF IsJoin
  <2>2. 1 \in 1..(k + 4) /\ k + 3 \in 1..(k + 4)
    OBVIOUS
  <2>3. v[1] = q[1] /\ v[k + 3] = q[k + 3]
    BY <2>1, <2>2
  <2> QED
    BY <1>5, <2>1, <2>3
<1>8. SubSeq(v, 2, k + 1) = n
  <2>1. 1 \in Nat \ {0} /\ 2 \in Nat \ {0} /\ k + 1 = 1 + k /\ 1 + k \in 0..(k + 4)
        /\ k + 4 \in 0..Len(v) /\ 1 + k \in 0..(1 + k) /\ 1 + k \in 0..Len(v)
    BY <1>7
  <2>2. SubSeq(SubSeq(v, 1, k + 4), 1, 1 + k) = SubSeq(v, 1, 1 + k)
    BY <1>7, <2>1, PieceOfStart
  <2>3. SubSeq(v, 1, 1 + k) = r
    BY <1>2, <1>4, <1>5, <1>6, <2>2
  <2>4. SubSeq(SubSeq(v, 1, 1 + k), 2, 1 + k) = SubSeq(v, 2, 1 + k)
    BY <1>7, <2>1, PieceOfStart
  <2>5. From(r, 1) = SubSeq(r, 2, 1 + k)
    <3>1. 1 + 1 = 2
      OBVIOUS
    <3> QED
      BY <1>2, <3>1 DEF From
  <2> QED
    BY <1>2, <2>1, <2>3, <2>4, <2>5
<1>9. SubSeq(v, k + 5, k + 4 + l) = g
  <2>1. (k + 4) + 1 = k + 5 /\ (k + 4) + l = k + 4 + l
    OBVIOUS
  <2> QED
    BY <1>0, <1>5, <1>6, <2>1
<1>10. v[1][2] - 1 = k /\ v[k + 3][2] = l
  <2>1. (k + 1) - 1 = k
    OBVIOUS
  <2> QED
    BY <1>1, <1>7, <2>1
<1>11. Has(v, k + 3) /\ Has(v, k + 3 + l)
  BY <1>7 DEF Has
<1>12. v = ((<<Length(Len(n) + 1)>> \o n)
             \o <<<<"type", "PTR">>, Length(Len(g)), Filler>>) \o g
  BY <1>0 DEF v, q, r, m, h, a, b
<1> HIDE DEF h, r, a, b, m, q
<1> QED
  BY <1>0, <1>8, <1>9, <1>10, <1>11, <1>12

(* A record: both of its names.                                            *)
LEMMA RecordReturns ==
  ASSUME NEW name, IsSeq(name), NEW target, IsSeq(target)
  PROVE  Returns(<<2, [name |-> name, target |-> target]>>)
<1> DEFINE s == [name |-> name, target |-> target]
           x == <<2, s>>
           n == encode_name(name)
           g == encode_name(target)
           v == ((<<Length(Len(n) + 1)>> \o n) \o <<<<"type", "PTR">>, Length(Len(g)), Filler>>) \o g
           t == [tag |-> 2, value |-> v]
<1>1. RecordEncode(s) = v
  <2>1. s.name = name /\ s.target = target
    OBVIOUS
  <2> HIDE DEF s
  <2> QED
    BY <2>1 DEF RecordEncode
<1>2. IsSeq(n) /\ IsSeq(g)
  BY Shape, NameIsWritten
<1>3. decode_name(n) = name /\ decode_name(g) = target
  BY NamesComeBack
<1>6. x[1] = 2 /\ x[2] = s
  OBVIOUS
<1>7. Item(x) = t
  <2>1. Item(x) = [tag |-> 2, value |-> Encode(2, s)]
    BY <1>6 DEF Item
  <2> HIDE DEF s, v, x
  <2>2. Encode(2, s) = RecordEncode(s)
    BY DEF Encode
  <2> QED
    BY <1>1, <2>1, <2>2
<1>8. t.tag = 2 /\ t.value = v
  OBVIOUS
<1> HIDE DEF n, g
<1>4. /\ v[1][2] - 1 = Len(n) /\ v[Len(n) + 3][2] = Len(g)
      /\ Has(v, Len(n) + 3) /\ Has(v, Len(n) + 3 + Len(g))
      /\ SubSeq(v, 2, Len(n) + 1) = n
      /\ SubSeq(v, Len(n) + 5, Len(n) + 4 + Len(g)) = g
  BY <1>2, RecordIs
<1> HIDE DEF v, t, x
<1>9. RecordParse(v) = [name |-> decode_name(n), target |-> decode_name(g)]
  BY <1>4 DEF RecordParse
<1> HIDE DEF s
<1>10. Parse(t) = RecordParse(v)
  BY <1>8 DEF Parse
<1> QED
  BY <1>3, <1>6, <1>7, <1>9, <1>10 DEF Returns, x, s

(* Tags that come back, no two of one number.                              *)
Saying(t, S) ==
  /\ IsSeq(t) /\ \A i \in 1..Len(t) : Returns(t[i]) /\ t[i][1] \in S
  /\ \A i, j \in 1..Len(t) : t[i][1] = t[j][1] => i = j

LEMMA SayingJoins ==
  ASSUME NEW t, NEW S, Saying(t, S), NEW u, NEW T, Saying(u, T), S \cap T = {}
  PROVE  Saying(t \o u, S \cup T)
<1> DEFINE r == t \o u
<1>1. IsSeq(t) /\ IsSeq(u)
  BY DEF Saying
<1>2. PICK k \in Nat, l \in Nat : k = Len(t) /\ l = Len(u)
  BY <1>1, Shape
<1>3. IsJoin(r, t, u)
  BY <1>1, Joined
<1> HIDE DEF r
<1>4. IsSeq(r) /\ Len(r) = k + l /\ (\A i \in 1..k : r[i] = t[i]) /\ \A i \in 1..l : r[k + i] = u[i]
  BY <1>2, <1>3 DEF IsJoin
<1>5. /\ \A i \in 1..k : Returns(t[i]) /\ t[i][1] \in S
      /\ \A i, j \in 1..k : t[i][1] = t[j][1] => i = j
      /\ \A i \in 1..l : Returns(u[i]) /\ u[i][1] \in T
      /\ \A i, j \in 1..l : u[i][1] = u[j][1] => i = j
  BY <1>2 DEF Saying
<1>6. ASSUME NEW i \in 1..(k + l)
      PROVE  \/ i \in 1..k /\ r[i] = t[i]
             \/ i - k \in 1..l /\ ~(i <= k) /\ r[i] = u[i - k]
  <2>1. CASE i <= k
    BY <1>4, <2>1
  <2>2. CASE ~(i <= k)
    <3>1. i - k \in 1..l /\ k + (i - k) = i
      BY <2>2
    <3> QED
      BY <1>4, <2>2, <3>1
  <2> QED
    BY <2>1, <2>2
<1>7. ASSUME NEW i \in 1..(k + l) PROVE Returns(r[i]) /\ r[i][1] \in S \cup T
  BY <1>5, <1>6
<1>8. ASSUME NEW i \in 1..(k + l), NEW j \in 1..(k + l), r[i][1] = r[j][1] PROVE i = j
  <2>1. CASE i \in 1..k /\ r[i] = t[i]
    <3>1. r[j][1] \in S
      BY <1>5, <1>8, <2>1
    <3>2. ~(j - k \in 1..l /\ r[j] = u[j - k])
      BY <1>5, <3>1
    <3>3. j \in 1..k /\ r[j] = t[j]
      BY <1>6, <3>2
    <3> QED
      BY <1>5, <1>8, <2>1, <3>3
  <2>2. CASE i - k \in 1..l /\ r[i] = u[i - k]
    <3>1. r[j][1] \in T
      BY <1>5, <1>8, <2>2
    <3>2. ~(j \in 1..k /\ r[j] = t[j])
      BY <1>5, <3>1
    <3>3. j - k \in 1..l /\ r[j] = u[j - k]
      BY <1>6, <3>2
    <3>4. i - k = j - k
      BY <1>5, <1>8, <2>2, <3>3
    <3> QED
      BY <3>4
  <2> QED
    BY <1>6, <2>1, <2>2
<1> QED
  BY <1>4, <1>7, <1>8 DEF Saying, r

(* Every tag of a beacon comes back, and none is there twice.              *)
LEMMA TlvsReturn ==
  ASSUME NEW b, NEW subtype, NEW instant
  PROVE  \E S : Saying(TlvsOf(b, subtype, instant), S)
<1> DEFINE e4 == <<4, sync(b, instant)>>
           e5 == <<5, election(b)>>
           e18 == <<18, OpClassSequence(schedule(b.config))>>
           t == <<e4, e5, e18>>
           e24 == <<24, election_v2(b, instant)>>
           u == IF b.config.no_t24 THEN <<>> ELSE <<e24>>
           e12 == <<12, data_path(b)>>
           e7 == <<7, "ht">>
           e6 == <<6, SERVICE_PARAMS_AIRDROP>>
           e17 == <<17, <<[id |-> "vht capabilities", body |-> "vht"]>>>>
           e21 == <<21, [major |-> 3, minor |-> 4, device_class |-> 2]>>
           v == <<e12, e7, e6, e17, e21>>
           host == <<"host", "local">>
           kind == <<"_airdrop", "_tcp", "local">>
           instance_ == <<"instance", "_airdrop", "_tcp", "local">>
           e16 == <<16, [flags |-> 3, name |-> host]>>
           e2 == <<2, [name |-> kind, target |-> instance_]>>
           w == <<e16, e2>>
<1>1. state_tlvs(b, instant) = (t \o u) \o v
  BY DEF state_tlvs
<1>2. mif_tlvs(b, instant) = state_tlvs(b, instant) \o w
  BY DEF mif_tlvs
<1>3. Returns(e4) /\ e4[1] = 4
  BY SyncReturns
<1>4. Returns(e5) /\ e5[1] = 5 /\ Returns(e24) /\ e24[1] = 24
      /\ Returns(e7) /\ e7[1] = 7 /\ Returns(e6) /\ e6[1] = 6
  BY BlockReturns
<1>5. Returns(e18) /\ e18[1] = 18
  BY ScheduleReturns
<1>6. Returns(e12) /\ e12[1] = 12
  BY DataPathReturns
<1>7. Returns(e17) /\ e17[1] = 17
  BY ContainerReturns
<1>8. Returns(e21) /\ e21[1] = 21
  <2>1. 3 \in 0..15 /\ 4 \in 0..15
    OBVIOUS
  <2>2. Returns(e21)
    BY <2>1, VersionReturns
  <2> QED
    BY <2>2
<1>9. Returns(e16) /\ e16[1] = 16
  <2>1. IsSeq(host)
    BY TwoAreList
  <2> HIDE DEF host
  <2> QED
    BY <2>1, ArpaReturns
<1>10. Returns(e2) /\ e2[1] = 2
  <2>1. IsSeq(kind)
    BY ThreeAreList
  <2>2. IsSeq(instance_)
    <3> DEFINE q == instance_
    <3>1. DOMAIN q = 1..4 /\ q = [i \in 1..4 |-> q[i]] /\ 4 \in Nat
      OBVIOUS
    <3> HIDE DEF q
    <3> QED
      BY <3>1, Listed DEF q
  <2> HIDE DEF kind, instance_
  <2> QED
    BY <2>1, <2>2, RecordReturns
<1> HIDE DEF e4, e5, e18, e24, e12, e7, e6, e17, e21, e16, e2
<1>11. Saying(t, {4, 5, 18})
  <2>1. IsSeq(t) /\ Len(t) = 3 /\ t[1] = e4 /\ t[2] = e5 /\ t[3] = e18
    BY ThreeAreList
  <2> HIDE DEF t
  <2>2. \A i \in 1..Len(t) : i = 1 \/ i = 2 \/ i = 3
    BY <2>1
  <2>3. t[1][1] = 4 /\ t[2][1] = 5 /\ t[3][1] = 18
    BY <1>3, <1>4, <1>5, <2>1
  <2>4. \A i \in 1..Len(t) : Returns(t[i]) /\ t[i][1] \in {4, 5, 18}
    BY <1>3, <1>4, <1>5, <2>1, <2>2
  <2>5. \A i, j \in 1..Len(t) : t[i][1] = t[j][1] => i = j
    BY <2>2, <2>3
  <2> QED
    BY <2>1, <2>4, <2>5 DEF Saying
<1>12. Saying(u, {24})
  <2>1. CASE b.config.no_t24
    <3>1. u = <<>>
      BY <2>1
    <3>2. IsSeq(u) /\ \A i \in 1..Len(u) : FALSE
      BY <3>1, NoneIsList
    <3> QED
      BY <3>2 DEF Saying
  <2>2. CASE ~b.config.no_t24
    <3>1. u = <<e24>>
      BY <2>2
    <3>2. IsSeq(u) /\ Len(u) = 1 /\ u[1] = e24
      BY <3>1, OneIsList
    <3> HIDE DEF u
    <3>3. \A i \in 1..Len(u) : i = 1
      BY <3>2
    <3>4. \A i \in 1..Len(u) : Returns(u[i]) /\ u[i][1] \in {24}
      BY <1>4, <3>2, <3>3
    <3> QED
      BY <3>2, <3>3, <3>4 DEF Saying
  <2> QED
    BY <2>1, <2>2
<1>13. Saying(v, {12, 7, 6, 17, 21})
  <2>1. IsSeq(v) /\ Len(v) = 5 /\ v[1] = e12 /\ v[2] = e7 /\ v[3] = e6 /\ v[4] = e17 /\ v[5] = e21
    BY FiveAreList
  <2> HIDE DEF v
  <2>2. \A i \in 1..Len(v) : i = 1 \/ i = 2 \/ i = 3 \/ i = 4 \/ i = 5
    BY <2>1
  <2>3. v[1][1] = 12 /\ v[2][1] = 7 /\ v[3][1] = 6 /\ v[4][1] = 17 /\ v[5][1] = 21
    BY <1>4, <1>6, <1>7, <1>8, <2>1
  <2>4. \A i \in 1..Len(v) : Returns(v[i]) /\ v[i][1] \in {12, 7, 6, 17, 21}
    BY <1>4, <1>6, <1>7, <1>8, <2>1, <2>2
  <2>5. \A i, j \in 1..Len(v) : v[i][1] = v[j][1] => i = j
    BY <2>2, <2>3
  <2> QED
    BY <2>1, <2>4, <2>5 DEF Saying
<1>14. Saying(w, {16, 2})
  <2>1. IsSeq(w) /\ Len(w) = 2 /\ w[1] = e16 /\ w[2] = e2
    BY TwoAreList
  <2> HIDE DEF w
  <2>2. \A i \in 1..Len(w) : i = 1 \/ i = 2
    BY <2>1
  <2>3. w[1][1] = 16 /\ w[2][1] = 2
    BY <1>9, <1>10, <2>1
  <2>4. \A i \in 1..Len(w) : Returns(w[i]) /\ w[i][1] \in {16, 2}
    BY <1>9, <1>10, <2>1, <2>2
  <2>5. \A i, j \in 1..Len(w) : w[i][1] = w[j][1] => i = j
    BY <2>2, <2>3
  <2> QED
    BY <2>1, <2>4, <2>5 DEF Saying
<1> HIDE DEF t, u, v, w
<1>15. Saying(state_tlvs(b, instant), ({4, 5, 18} \cup {24}) \cup {12, 7, 6, 17, 21})
  <2>1. Saying(t \o u, {4, 5, 18} \cup {24})
    <3>1. {4, 5, 18} \cap {24} = {}
      OBVIOUS
    <3> QED
      BY <1>11, <1>12, <3>1, SayingJoins
  <2>2. ({4, 5, 18} \cup {24}) \cap {12, 7, 6, 17, 21} = {}
    OBVIOUS
  <2> QED
    BY <1>1, <1>13, <2>1, <2>2, SayingJoins
<1>16. Saying(mif_tlvs(b, instant), (({4, 5, 18} \cup {24}) \cup {12, 7, 6, 17, 21}) \cup {16, 2})
  <2>1. (({4, 5, 18} \cup {24}) \cup {12, 7, 6, 17, 21}) \cap {16, 2} = {}
    OBVIOUS
  <2> QED
    BY <1>2, <1>14, <1>15, <2>1, SayingJoins
<1> QED
  BY <1>15, <1>16 DEF TlvsOf

(* Read back, such tags are what they were meant to be.                    *)
LEMMA ReadAsMeant ==
  ASSUME NEW t, NEW S, Saying(t, S)
  PROVE  /\ Distinct(Items(t, 0)) /\ ReadTags(Items(t, 0)) = Meant(t)
         /\ \A i \in DOMAIN t : t[i][1] \in DOMAIN Meant(t) /\ Meant(t)[t[i][1]] = t[i][2]
<1> DEFINE r == Items(t, 0)
           n == Len(t)
           all == {t[i] : i \in DOMAIN t}
           tags == {t[i][1] : i \in DOMAIN t}
<1>1. IsSeq(t) /\ n \in Nat /\ DOMAIN t = 1..n
  BY Shape DEF Saying
<1>2. DOMAIN r = 1..n /\ r = [i \in 1..n |-> r[i]] /\ \A i \in 1..n : r[i] = Item(t[i])
  <2>1. n - 0 = n /\ \A i \in 1..n : 0 + i = i
    BY <1>1
  <2>2. r = [i \in 1..n |-> Item(t[0 + i])]
    BY <2>1 DEF Items
  <2> HIDE DEF r
  <2> QED
    BY <2>1, <2>2
<1> HIDE DEF r
<1>3. IsSeq(r) /\ Len(r) = n
  BY <1>1, <1>2, Listed
<1>4. \A i \in 1..n : r[i].tag = t[i][1]
  BY <1>2 DEF Item
<1>5. Distinct(r)
  BY <1>1, <1>2, <1>4 DEF Saying, Distinct
<1>6. ASSUME NEW i \in 1..n
      PROVE  t[i][1] \in DOMAIN ReadTags(r) /\ ReadTags(r)[t[i][1]] = t[i][2]
  <2>1. r[i].tag \in DOMAIN ReadTags(r) /\ ReadTags(r)[r[i].tag] = Parse(r[i])
    BY <1>2, <1>3, <1>5, TagRead
  <2>2. Parse(Item(t[i])) = t[i][2]
    BY DEF Saying, Returns
  <2> QED
    BY <1>2, <1>4, <2>1, <2>2
<1>7. ASSUME NEW i \in 1..n
      PROVE  t[i][1] \in DOMAIN Meant(t) /\ Meant(t)[t[i][1]] = t[i][2]
  <2>1. t[i] \in all /\ t[i][1] \in tags
    BY <1>1
  <2>2. ASSUME NEW x \in all, x[1] = t[i][1] PROVE x = t[i]
    <3>1. PICK j \in 1..n : x = t[j]
      BY <1>1
    <3>2. j = i
      BY <2>2, <3>1 DEF Saying
    <3> QED
      BY <3>1, <3>2
  <2>3. (CHOOSE x \in all : x[1] = t[i][1]) = t[i]
    <3> HIDE DEF all
    <3> QED
      BY <2>1, <2>2
  <2>4. Meant(t) = [tag \in tags |-> (CHOOSE x \in all : x[1] = tag)[2]]
    BY DEF Meant
  <2> HIDE DEF all, tags
  <2>5. t[i][1] \in DOMAIN Meant(t) /\ Meant(t)[t[i][1]] = (CHOOSE x \in all : x[1] = t[i][1])[2]
    BY <2>1, <2>4
  <2> QED
    BY <2>3, <2>5
<1>8. Meant(t) = [tag \in tags |-> Meant(t)[tag]]
  BY DEF Meant
<1>9. ReadTags(r) = [tag \in tags |-> ReadTags(r)[tag]]
  <2>1. {r[i].tag : i \in DOMAIN r} = tags
    BY <1>1, <1>2, <1>4
  <2> HIDE DEF tags
  <2> QED
    BY <2>1 DEF ReadTags
<1>10. \A tag \in tags : ReadTags(r)[tag] = Meant(t)[tag]
  BY <1>1, <1>6, <1>7
<1>11. ReadTags(r) = Meant(t)
  <2> HIDE DEF tags
  <2> QED
    BY <1>8, <1>9, <1>10
<1> QED
  BY <1>1, <1>5, <1>7, <1>11 DEF r

-----------------------------------------------------------------------------
(* A beacon, and everything else on the air.                               *)
(* A beacon reads as what its tags were meant to say: every tag a session  *)
(* writes, and no tag twice (beacon.rs, action.rs:144-193).                *)
THEOREM FrameReads ==
  ASSUME NEW b, NEW subtype, NEW instant, NEW claim,
         claim.src = b.addr, claim.phy_tx_time = instant + Latency,
         claim.tags = Meant(TlvsOf(b, subtype, instant))
  PROVE  ReadsAs(Frame(b, subtype, instant), claim)
<1> DEFINE t == TlvsOf(b, subtype, instant)
           fixed == Fixed(subtype, instant + Latency, instant)
           body == encode_body(fixed, t)
           h == MgmtHeader(BROADCAST, b.addr, b.sent)
           f == h \o body
           late == instant + Latency
           tags == claim.tags
<1>1. Frame(b, subtype, instant) = f
  BY DEF Frame, management_header
<1>2. Written(t)
  BY TlvsAreWritten DEF LedBy, Written
<1>3. PICK S : Saying(t, S)
  BY TlvsReturn
<1>4. fixed[1] = "apple" /\ fixed[3] = late
  BY DEF Fixed
<1>5. tags = Meant(t) /\ claim.phy_tx_time = late
  OBVIOUS
<1>6. IsSeq(h) /\ Len(h) = 5 /\ h[1] = FC_ACTION /\ h[3] = Address(b.addr)
  BY FiveAreList DEF MgmtHeader
<1> HIDE DEF t, fixed, h, late, tags
<1>7. IsSeq(body) /\ Len(body) >= 1 /\ body[1] = fixed /\ Tlvs(From(body, 1)) = Items(t, 0)
  BY <1>2, BodyTlvs
<1> HIDE DEF body
<1>8. PICK k \in Nat : k = Len(body)
  BY <1>7, Shape
<1>9. IsJoin(f, h, body)
  BY <1>6, <1>7, Joined
<1> HIDE DEF f
<1>10. IsSeq(f) /\ Len(f) = 5 + k /\ k >= 1
       /\ (\A i \in 1..5 : f[i] = h[i]) /\ \A i \in 1..k : f[5 + i] = body[i]
  BY <1>6, <1>7, <1>8, <1>9 DEF IsJoin
<1>11. f[1] = FC_ACTION /\ f[3] = Address(b.addr) /\ f[6] = fixed
  <2>1. 1 \in 1..5 /\ 3 \in 1..5 /\ 1 \in 1..k /\ 5 + 1 = 6
    BY <1>10
  <2> QED
    BY <1>6, <1>7, <1>10, <2>1
<1>12. From(f, 6) = From(body, 1)
  <2> DEFINE p == From(f, 6)
             q == From(body, 1)
  <2>1. IsRest(p, f, 6) /\ IsRest(q, body, 1)
    BY <1>7, <1>10, Rest
  <2> HIDE DEF p, q
  <2>2. IsSeq(p) /\ Len(p) = (IF 6 <= 5 + k THEN (5 + k) - 6 ELSE 0)
        /\ \A j \in 1..((5 + k) - 6) : p[j] = f[6 + j]
    BY <1>10, <2>1 DEF IsRest
  <2>3. IsSeq(q) /\ Len(q) = (IF 1 <= k THEN k - 1 ELSE 0)
        /\ \A j \in 1..(k - 1) : q[j] = body[1 + j]
    BY <1>8, <2>1 DEF IsRest
  <2>4. (5 + k) - 6 = k - 1 /\ 6 <= 5 + k
    BY <1>10
  <2>5. Len(p) = k - 1 /\ Len(q) = k - 1
    BY <1>10, <2>2, <2>3, <2>4
  <2>6. ASSUME NEW j \in 1..(k - 1) PROVE p[j] = q[j]
    <3>1. 1 + j \in 1..k /\ 6 + j = 5 + (1 + j)
      OBVIOUS
    <3>2. f[6 + j] = body[1 + j]
      BY <1>10, <3>1
    <3> QED
      BY <2>2, <2>3, <2>4, <3>2
  <2>7. p = q
    BY <2>2, <2>3, <2>5, <2>6, Same
  <2> QED
    BY <2>7 DEF p, q
<1>13. IsAwdl(f)
  <2>1. Has(f, 0) /\ Has(f, 5)
    BY <1>10 DEF Has
  <2>2. FC_ACTION[1] = "fc" /\ FC_ACTION[2] = 0 /\ FC_ACTION[3] = 0 /\ FC_ACTION[4] = 13
    BY DEF FC_ACTION, Fc
  <2>3. TypeOf(f) = 0
    BY <1>11, <2>1, <2>2 DEF TypeOf, IsFc
  <2>4. 5 + 1 = 6
    OBVIOUS
  <2> QED
    BY <1>4, <1>11, <2>1, <2>2, <2>3, <2>4 DEF IsAwdl, IsAction, MGMT_HEADER_LEN
<1>14. MGMT_HEADER_LEN + 1 = 6
  BY DEF MGMT_HEADER_LEN
<1>15. Read802(f) = [src |-> f[3][2], phy_tx_time |-> f[6][3], tags |-> ReadTags(Tlvs(From(f, 6)))]
  BY <1>13, <1>14, Read802Is
<1>16. Tlvs(From(f, 6)) = Items(t, 0) /\ Distinct(Items(t, 0)) /\ ReadTags(Items(t, 0)) = Meant(t)
  BY <1>3, <1>7, <1>12, ReadAsMeant
<1>17. f[3][2] = b.addr
  BY <1>11 DEF Address
<1>18. Read802(f) = [src |-> claim.src, phy_tx_time |-> claim.phy_tx_time, tags |-> claim.tags]
  BY <1>4, <1>5, <1>11, <1>15, <1>16, <1>17 DEF tags
<1>19. LET tlvs == Tlvs(From(f, MGMT_HEADER_LEN + 1)) IN
       \A i, j \in DOMAIN tlvs : tlvs[i].tag = tlvs[j].tag => i = j
  BY <1>14, <1>16 DEF Distinct
<1>20. ReadsAs(f, claim)
  BY <1>18, <1>19 DEF ReadsAs
<1> QED
  BY <1>1, <1>20

(* A data frame is no AWDL action frame, in any of its shapes.             *)
LEMMA DataIsNoAwdl ==
  ASSUME NEW f, f[1][3] = 2
  PROVE  ~IsAwdl(f)
BY ExchangeAssumption DEF IsAwdl, IsAction, TypeOf

LEMMA ShapedIsNoAwdl ==
  ASSUME NEW n, NEW frames, Together(n, frames), NEW shape \in Shapes
  PROVE  ~IsAwdl(Shaped(frames, shape))
<1> DEFINE f == frames[1]
           L == Len(frames)
           to == Receiver(n, frames)
           A == Numbered(frames)
           P == Carried(n, frames)
<1>1. Packed(frames, to, Mac(n), A, P) /\ L \in Nat \ {0}
  BY TogetherIsPacked DEF Together
<1> HIDE DEF to, A, P
<1>2. IsSeq(P[1]) /\ Wraps(f, to, Mac(n), A[1], P[1])
  BY <1>1 DEF Packed
<1>3. f[1][3] = 2
  BY <1>2 DEF Wraps
<1>4. CASE shape = "plain"
  <2>1. Shaped(frames, shape) = f
    BY <1>4 DEF Shaped
  <2> QED
    BY <1>3, <2>1, DataIsNoAwdl
<1>5. CASE shape = "padded"
  <2>1. Shaped(frames, shape) = Padded(f)
    BY <1>5 DEF Shaped
  <2>2. IsSeq(f) /\ Len(f) >= 6
    <3>1. Len(P[1]) \in Nat
      BY <1>2, Shape
    <3> QED
      BY <1>2, <3>1 DEF Wraps
  <2> HIDE DEF f
  <2>3. 1 \in 1..6 /\ \A i \in 1..6 : Padded(f)[i] = f[i]
    BY <2>2, PaddedIs
  <2> QED
    BY <1>3, <2>1, <2>3, DataIsNoAwdl
<1>6. CASE shape \notin Alone
  <2> DEFINE present == shape = "marked"
             bytes == Aggregate(frames, present)
  <2>1. Shaped(frames, shape) = bytes
    BY <1>6 DEF Shaped, Alone
  <2>2. present \in BOOLEAN
    OBVIOUS
  <2> HIDE DEF present
  <2>3. PICK chain : IsChain(chain, frames, present) /\ bytes = HeadOf(f, present) \o chain[L]
    BY <1>1, AggregateIs
  <2> DEFINE head == HeadOf(f, present)
  <2> HIDE DEF bytes, f
  <2>4. IsSeq(head) /\ Len(head) = 6 /\ Headed(head, to, Mac(n), present)
    BY <1>2, HeadIs
  <2>5. IsSeq(chain[L])
    <3>1. Subframed(frames, present) /\ L \in 1..L
      BY <1>1, <2>2, PackedSubframes
    <3> QED
      BY <2>3, <3>1, ChainLinks
  <2> HIDE DEF head
  <2>6. IsJoin(bytes, head, chain[L])
    BY <2>3, <2>4, <2>5, Joined DEF head
  <2>7. 1 \in 1..6 /\ \A i \in 1..6 : bytes[i] = head[i]
    BY <2>4, <2>6 DEF IsJoin
  <2>8. bytes[1][3] = 2
    BY <2>4, <2>7 DEF Headed
  <2> QED
    BY <2>1, <2>8, DataIsNoAwdl
<1> QED
  BY <1>4, <1>5, <1>6 DEF Alone

(* What the radio emits together are frames of its kernel's packets.       *)
LEMMA EmittedTogether ==
  ASSUME Senders, NEW n \in Ours, NEW k \in 1..RadioMax, NEW shape \in Shapes, Emit(n, k, shape)
  PROVE  Together(n, SubSeq(radio[n], 1, k))
<1> DEFINE r == radio[n]
           d == Gone(n)
           frames == SubSeq(r, 1, k)
<1>0. k \in Nat \ {0}
  BY ExchangeAssumption
<1>1. k <= Len(r) /\ \A i \in 1..k : IsData(frames[i]) /\ frames[i][2] = frames[1][2]
  BY DEF Emit
<1>2. SenderIs(n, handed[n], queue[n], seqs[n], r)
  BY DEF Senders
<1>3. IsSeq(r) /\ Len(r) \in Nat
  BY <1>2, SenderHas
<1>4. RadioIs(n, handed[n], d, r)
  BY <1>2 DEF SenderIs, Gone
<1>5. IsSeq(frames) /\ Len(frames) = k /\ \A i \in 1..k : frames[i] = r[i]
  <2>1. IsPiece(frames, r, 1, k)
    <3>1. 1 \in Nat \ {0} /\ k \in Nat /\ k <= Len(r)
      BY <1>0, <1>1
    <3> HIDE DEF r
    <3> QED
      BY <1>3, <3>1, Piece
  <2> HIDE DEF frames
  <2> QED
    BY <1>0, <2>1 DEF IsPiece
<1> HIDE DEF frames
<1>6. ASSUME NEW i \in 1..k
      PROVE  /\ No(frames[i]) \in Nat /\ Own(n, No(frames[i]), frames[i])
             /\ frames[i][2] = frames[1][2]
  <2>1. i \in 1..Len(r) /\ frames[i] = r[i] /\ IsData(frames[i])
    BY <1>0, <1>1, <1>3, <1>5
  <2>2. IsSent(handed[n], n, d, r[i])
    BY <1>4, <2>1 DEF RadioIs
  <2>3. No(frames[i]) \in 1..d /\ OwnIn(handed[n], n, No(frames[i]), frames[i])
    BY <2>1, <2>2 DEF IsSent
  <2> QED
    BY <1>1, <2>3 DEF Own
<1>7. Together(n, frames)
  BY <1>0, <1>5, <1>6 DEF Together
<1> QED
  BY <1>7 DEF frames

(* What is on the air reads as it claims, and says nothing if it claims    *)
(* nothing.                                                                *)
Told(a) ==
  /\ a.claims = {} => ~IsAwdl(a.bytes)
  /\ \A claim \in a.claims : ReadsAs(a.bytes, claim)

LEMMA MuteIsTold ==
  ASSUME NEW bytes, ~IsAwdl(bytes), NEW needs
  PROVE  Told(OnAir(bytes, needs))
<1> DEFINE a == OnAir(bytes, needs)
<1>1. a.bytes = bytes /\ a.claims = {}
  BY DEF OnAir
<1> HIDE DEF a
<1>2. Told(a)
  BY <1>1 DEF Told
<1> QED
  BY <1>2 DEF a

LEMMA ClaimedIsTold ==
  ASSUME NEW bytes, NEW needs, NEW claims,
         claims = {} => ~IsAwdl(bytes), \A claim \in claims : ReadsAs(bytes, claim)
  PROVE  Told([OnAir(bytes, needs) EXCEPT !.claims = claims])
<1> DEFINE a == [OnAir(bytes, needs) EXCEPT !.claims = claims]
<1>1. a.bytes = bytes /\ a.claims = claims
  BY DEF OnAir
<1> HIDE DEF a
<1>2. Told(a)
  BY <1>1 DEF Told
<1> QED
  BY <1>2 DEF a

LEMMA ToldStep ==
  ASSUME Senders, AirIs, Told(air), [Next]_vars
  PROVE  Told(air')
<1>1. ASSUME NEW n \in Ours, NEW dst \in Destinations, Read(n, dst) PROVE air' = air
  BY <1>1 DEF Read
<1>2. ASSUME NEW n \in Ours, NEW first \in BOOLEAN, NEW others \in 0..(Repeat - 1), Drain(n, first, others)
      PROVE  air' = air
  BY <1>2 DEF Drain
<1>3. ASSUME NEW n \in Ours, NEW master \in Theirs, Probe(n, master) PROVE air' = air
  BY <1>3 DEF Probe
<1>4. ASSUME NEW n \in Ours, NEW k \in 1..RadioMax, NEW shape \in Shapes, Emit(n, k, shape)
      PROVE  Told(air')
  <2> DEFINE frames == SubSeq(radio[n], 1, k)
             bytes == Shaped(frames, shape)
             needs == NeedsOf(frames, shape)
  <2>1. air' = OnAir(bytes, needs)
    BY <1>4 DEF Emit
  <2>2. Together(n, frames)
    BY <1>4, EmittedTogether
  <2> HIDE DEF frames
  <2>3. ~IsAwdl(bytes)
    BY <2>2, ShapedIsNoAwdl
  <2> HIDE DEF bytes, needs
  <2> QED
    BY <2>1, <2>3, MuteIsTold
<1>5. ASSUME NEW n \in Ours, EmitRequest(n) PROVE Told(air')
  <2> DEFINE r == radio[n]
             f == Head(r)
             none == <<>>
  <2>1. r # <<>> /\ ~IsData(f) /\ air' = OnAir(f, none)
    BY <1>5 DEF EmitRequest
  <2>2. SenderIs(n, handed[n], queue[n], seqs[n], r)
    BY DEF Senders
  <2>3. IsSeq(r) /\ Len(r) \in Nat
    BY <2>2, SenderHas
  <2>4. f = r[1] /\ 1 \in 1..Len(r)
    BY <2>1, <2>3, TailIs
  <2>5. IsSent(handed[n], n, Gone(n), r[1])
    BY <2>2, <2>4 DEF SenderIs, RadioIs, Gone
  <2>6. ~IsAwdl(f)
    BY <2>1, <2>4, <2>5 DEF IsSent, Mute
  <2> HIDE DEF f, none
  <2> QED
    BY <2>1, <2>6, MuteIsTold
<1>6. ASSUME NEW frame \in Foreign, EmitForeign(frame) PROVE Told(air')
  <2> DEFINE bytes == frame.bytes
             needs == frame.needs
             claims == frame.claims
  <2>1. air' = [OnAir(bytes, needs) EXCEPT !.claims = claims]
    BY <1>6 DEF EmitForeign
  <2>2. (claims = {} => ~IsAwdl(bytes)) /\ \A claim \in claims : ReadsAs(bytes, claim)
    BY ForeignAssumption
  <2> HIDE DEF bytes, needs, claims
  <2> QED
    BY <2>1, <2>2, ClaimedIsTold
<1>7. ASSUME NEW from \in Theirs, Answer(from) PROVE Told(air')
  <2> DEFINE bytes == Answered(air.bytes, from)
             none == <<>>
  <2>1. air' = OnAir(bytes, none)
    BY <1>7 DEF Answer
  <2>2. ~IsAwdl(bytes)
    BY AnswerIsMute DEF Mute
  <2> HIDE DEF bytes, none
  <2> QED
    BY <2>1, <2>2, MuteIsTold
<1>8. ASSUME NEW n \in Ours, NEW config, NEW t \in Instants \cup {now}, NEW own,
             Announce(n, config, t, own)
      PROVE  Told(air')
  <2> DEFINE h == Host(n, t)
             beacon == [addr |-> Mac(n), sent |-> beacons[n].sent, config |-> config,
                        follow |-> set_follow(cluster[n], Mac(n), config.metric, h)]
             subtype == IF beacons[n].sent % (PsfPerMif + 1) = 0 THEN SUBTYPE_MIF ELSE SUBTYPE_PSF
             bytes == Frame(beacon, subtype, h)
             tags == Meant(TlvsOf(beacon, subtype, h))
             late == h + Latency
             timed == beacon.follow # None /\ beacon.follow.aw_counter # None
             claim == [src |-> Mac(n), at |-> t, own |-> own, timed |-> timed,
                       phy_tx_time |-> late, tags |-> tags]
             claims == {claim}
             none == <<>>
  <2>1. air' = [OnAir(bytes, none) EXCEPT !.claims = claims]
    BY <1>8 DEF Announce
  <2>2. beacon.addr = Mac(n)
    OBVIOUS
  <2> HIDE DEF h, beacon, subtype, timed
  <2>3. claim.src = beacon.addr /\ claim.phy_tx_time = h + Latency
        /\ claim.tags = Meant(TlvsOf(beacon, subtype, h))
    BY <2>2
  <2> HIDE DEF claim
  <2>4. ReadsAs(bytes, claim)
    BY <2>3, FrameReads
  <2>5. (claims = {} => ~IsAwdl(bytes)) /\ \A c \in claims : ReadsAs(bytes, c)
    BY <2>4
  <2> HIDE DEF bytes, claims, none
  <2> QED
    BY <2>1, <2>5, ClaimedIsTold
<1>9. ASSUME NEW m \in Ours, NEW cut \in Cuts, NEW refused, Hear(m, cut, refused) PROVE Told(air')
  <2>1. air' = [air EXCEPT !.to = @ \ {m}]
    BY <1>9 DEF Hear
  <2>2. air = [bytes |-> air.bytes, needs |-> air.needs, to |-> air.to, claims |-> air.claims]
    BY DEF AirIs, IsOnAir
  <2>3. air'.claims = air.claims /\ air'.bytes = air.bytes
    BY <2>1, <2>2
  <2> QED
    BY <2>3 DEF Told
<1>10. ASSUME UNCHANGED vars PROVE air' = air
  BY <1>10 DEF vars
<1> DEFINE Goal == Told(air')
<1>11. air' = air => Goal
  OBVIOUS
<1>12. Told(air') => Goal
  OBVIOUS
<1> HIDE DEF Goal
<1>13. Goal
  BY <1>1, <1>2, <1>3, <1>4, <1>5, <1>6, <1>7, <1>8, <1>9, <1>10, <1>11, <1>12 DEF Next
<1> QED
  BY <1>13 DEF Goal

(* What a session reads of a reception cut anywhere.                       *)
Said(cut) == IF HasRadiotap(Captured(cut)) THEN Read802(Bare(Captured(cut))) ELSE None

LEMMA SaidIsTold ==
  ASSUME IsOnAir(air), Told(air), NEW cut \in 0..Whole
  PROVE  /\ air.claims = {} => Said(cut) = None
         /\ \A claim \in air.claims :
              /\ cut = Whole =>
                   Said(cut) = [src |-> claim.src, phy_tx_time |-> claim.phy_tx_time,
                                tags |-> claim.tags]
              /\ Said(cut) # None =>
                   /\ Said(cut).src = claim.src /\ Said(cut).phy_tx_time = claim.phy_tx_time
                   /\ \A tag \in DOMAIN Said(cut).tags :
                        tag \in DOMAIN claim.tags /\ Said(cut).tags[tag] = claim.tags[tag]
<1> DEFINE x == Captured(cut)
           f == air.bytes
           part == SubSeq(f, 1, cut - 1)
           said == Said(cut)
<1>1. IsSeq(f) /\ Len(f) \in Nat
  BY Shape DEF IsOnAir
<1>2. cut \in 0..(Len(f) + 1) /\ Whole = Len(f) + 1
  BY DEF Whole
<1>3. x = SubSeq(<<Radiotap>> \o f, 1, cut)
  BY DEF Captured
<1>7. said = IF HasRadiotap(x) THEN Read802(Bare(x)) ELSE None
  BY DEF Said
<1> HIDE DEF x, said
<1>4. IsCapture(x, f, cut)
  BY <1>1, <1>2, <1>3, CaptureIs
<1>5. CASE cut = 0
  <2>1. said = None
    BY <1>4, <1>5, <1>7 DEF IsCapture
  <2>2. cut # Whole
    BY <1>1, <1>2, <1>5
  <2> QED
    BY <2>1, <2>2 DEF said
<1>6. CASE cut # 0
  <2>1. HasRadiotap(x) /\ Bare(x) = part /\ cut - 1 \in 0..Len(f)
    BY <1>1, <1>2, <1>4, <1>6 DEF IsCapture
  <2>2. said = Read802(part)
    BY <1>7, <2>1
  <2>3. IsAwdl(part) => IsAwdl(f)
    BY <1>1, <2>1, StartIsAwdl
  <2>4. cut - 1 = Len(f) => part = f
    BY <1>1, <2>1, StartIsAwdl
  <2>5. ~IsAwdl(part) => Read802(part) = None
    BY DEF Read802
  <2>6. air.claims = {} => said = None
    BY <2>2, <2>3, <2>5 DEF Told
  <2>7. ASSUME NEW claim \in air.claims
        PROVE  /\ cut = Whole =>
                    said = [src |-> claim.src, phy_tx_time |-> claim.phy_tx_time,
                            tags |-> claim.tags]
               /\ said # None =>
                    /\ said.src = claim.src /\ said.phy_tx_time = claim.phy_tx_time
                    /\ \A tag \in DOMAIN said.tags :
                         tag \in DOMAIN claim.tags /\ said.tags[tag] = claim.tags[tag]
    <3>1. ReadsAs(f, claim)
      BY DEF Told
    <3>2. ASSUME cut = Whole
          PROVE  said = [src |-> claim.src, phy_tx_time |-> claim.phy_tx_time,
                         tags |-> claim.tags]
      <4>1. cut - 1 = Len(f)
        BY <1>1, <1>2, <3>2
      <4> QED
        BY <2>2, <2>4, <3>1, <4>1 DEF ReadsAs
    <3>3. ASSUME said # None
          PROVE  /\ said.src = claim.src /\ said.phy_tx_time = claim.phy_tx_time
                 /\ \A tag \in DOMAIN said.tags :
                      tag \in DOMAIN claim.tags /\ said.tags[tag] = claim.tags[tag]
      <4>1. IsAwdl(part)
        BY <2>2, <2>5, <3>3
      <4> DEFINE c == cut - 1
      <4>2. c \in 0..Len(f) /\ part = SubSeq(f, 1, c) /\ said = Read802(SubSeq(f, 1, c))
        BY <2>1, <2>2
      <4> HIDE DEF c, part
      <4>3. LET s == Read802(SubSeq(f, 1, c)) IN
            /\ s.src = claim.src /\ s.phy_tx_time = claim.phy_tx_time
            /\ \A tag \in DOMAIN s.tags :
                 tag \in DOMAIN claim.tags /\ s.tags[tag] = claim.tags[tag]
        BY <1>1, <3>1, <4>1, <4>2, CutReads
      <4> QED
        BY <4>2, <4>3
    <3> QED
      BY <3>2, <3>3
  <2> QED
    BY <2>6, <2>7 DEF said
<1> QED
  BY <1>5, <1>6

LEMMA ToldInit ==
  ASSUME Init
  PROVE  Told(air)
<1>1. air = Silence
  BY DEF Init
<1>2. air.claims = {} /\ air.bytes = <<>>
  BY <1>1 DEF Silence
<1>3. ~IsAwdl(<<>>)
  <2> DEFINE none == <<>>
  <2>1. Len(none) = 0
    BY NoneIsList
  <2> HIDE DEF none
  <2>2. ~IsAwdl(none)
    BY <2>1 DEF IsAwdl, Has, MGMT_HEADER_LEN
  <2> QED
    BY <2>2 DEF none
<1> QED
  BY <1>2, <1>3 DEF Told

(* Wherever the reception of a beacon is cut, what a session reads of it   *)
(* is what its sender meant, tag by tag, and of the whole of it all of it; *)
(* of what is no beacon it reads nothing (tlv.rs:106, action.rs:144-193).  *)
THEOREM Learned == Spec => []LearnedIsAdvertised
<1> DEFINE J == Told(air)
<1>1. Init => J
  BY ToldInit
<1>2. Inv /\ J /\ [Next]_vars => J'
  BY ToldStep DEF Inv
<1>3. Inv /\ J => LearnedIsAdvertised
  BY SaidIsTold DEF Inv, AirIs, LearnedIsAdvertised, Said
<1> HIDE DEF J
<1> QED
  BY <1>1, <1>2, <1>3, Deliveries, PTL DEF Spec

(* A remainder counted on from is the remainder of the sum.                *)
LEMMA CountingOn ==
  ASSUME NEW x \in Nat, NEW k \in Nat, NEW m \in Nat \ {0}
  PROVE  ((x % m) + k) % m = (x + k) % m
<1> DEFINE q == x \div m
           r == x % m
           p == (r + k) \div m
           s == (r + k) % m
<1>1. q \in Nat /\ r \in 0..(m - 1) /\ x = (m * q) + r
  OBVIOUS
<1> HIDE DEF q, r
<1>2. p \in Nat /\ s \in 0..(m - 1) /\ r + k = (m * p) + s
  <2>1. r + k \in Nat
    BY <1>1
  <2> DEFINE y == r + k
  <2>2. y \in Nat
    BY <2>1
  <2> HIDE DEF y
  <2>3. y \div m \in Nat /\ y % m \in 0..(m - 1) /\ y = (m * (y \div m)) + (y % m)
    BY <2>2
  <2> QED
    BY <2>3 DEF y
<1> HIDE DEF p, s
<1>3. x + k = (m * (q + p)) + s
  <2>1. m * (q + p) = (m * q) + (m * p)
    BY <1>1, <1>2
  <2>2. m * q \in Nat /\ m * p \in Nat
    BY <1>1, <1>2
  <2> DEFINE mq == m * q
             mp == m * p
  <2>3. x = mq + r /\ r + k = mp + s /\ m * (q + p) = mq + mp /\ mq \in Nat /\ mp \in Nat
    BY <1>1, <1>2, <2>1, <2>2
  <2> HIDE DEF mq, mp
  <2> QED
    BY <1>1, <1>2, <2>3
<1>4. (x + k) % m = s
  <2> DEFINE z == x + k
             o == q + p
  <2>1. z \in Nat /\ o \in Nat /\ z = (m * o) + s
    BY <1>1, <1>2, <1>3
  <2> HIDE DEF z, o
  <2>2. z % m = s
    BY <1>2, <2>1
  <2> QED
    BY <2>2 DEF z
<1> QED
  BY <1>4 DEF s, r

(* The windows begun in a sum of two times: those of both, or one more.    *)
LEMMA WindowsAdd ==
  ASSUME NEW x \in Nat, NEW d \in Nat
  PROVE  /\ aws_at(x) \in Nat /\ d \div AW_US \in Nat
         /\ \/ aws_at(x + d) = aws_at(x) + (d \div AW_US)
            \/ aws_at(x + d) = (aws_at(x) + (d \div AW_US)) + 1
BY SMT DEF aws_at, AW_US, TU_US

(* A counter heard some time ago and counted on by the windows of that     *)
(* time is the counter of this moment, or one window behind, across the    *)
(* wrap (projected_master_counter, follow.rs:659-669).                     *)
THEOREM ProjectionIsTrue ==
  ASSUME NEW x \in Nat, NEW d \in Nat, NEW m \in Nat \ {0}
  PROVE  ((aws_at(x) % m) + (d \div AW_US)) % m \in {aws_at(x + d) % m, (aws_at(x + d) - 1) % m}
<1> DEFINE a == aws_at(x)
           k == d \div AW_US
           now_ == aws_at(x + d)
<1>1. a \in Nat /\ k \in Nat /\ (now_ = a + k \/ now_ = (a + k) + 1)
  BY WindowsAdd
<1> HIDE DEF a, k, now_
<1>2. ((a % m) + k) % m = (a + k) % m
  BY <1>1, CountingOn
<1>3. now_ = a + k \/ now_ - 1 = a + k
  BY <1>1
<1>4. ((a % m) + k) % m \in {now_ % m, (now_ - 1) % m}
  BY <1>2, <1>3
<1> QED
  BY <1>4 DEF a, k, now_

-----------------------------------------------------------------------------
(* What a session knows of the cluster around it.                          *)
ClusterFields ==
  {"master", "master_metric", "schedule", "adopters", "root", "relay_parent", "master_counter",
   "follow_distance", "last_master_aw", "clock"}

(* What it would relay is of its master, and so is the time it keeps.      *)
Sane(c) ==
  /\ DOMAIN c = ClusterFields
  /\ c.root = None \/ c.root = c.master
  /\ c.follow_distance = None \/ c.follow_distance \in 1..33
  /\ c.last_master_aw # None => c.last_master_aw.of = c.master

(* The only time it takes is that of the frame of its master just heard.   *)
Heeds(c, f, d) ==
  \/ d.last_master_aw = c.last_master_aw
  \/ d.last_master_aw = None
  \/ /\ d.last_master_aw = [of |-> f.src, counter |-> f.sync.counter, at |-> f.sync.arrived_us]
     /\ d.master = f.src

LEMMA AdoptIsSane ==
  ASSUME NEW c, Sane(c), NEW e, NEW src
  PROVE  LET d == Tracker!Adopt(c, e, src) IN
         /\ DOMAIN d = ClusterFields
         /\ d = c \/ (d.master = e.master /\ Tracker!Plausible(e))
         /\ d.follow_distance = c.follow_distance
         /\ d.last_master_aw = c.last_master_aw \/ d.last_master_aw = None
         /\ d.last_master_aw # None => d.last_master_aw.of = d.master
<1> DEFINE kept == IF c.master = e.master THEN c ELSE Tracker!ForgetTimeline(c)
           named == Tracker!NameMaster(kept, e, src)
           d == Tracker!Adopt(c, e, src)
<1>1. /\ DOMAIN kept = ClusterFields /\ kept.follow_distance = c.follow_distance
      /\ IF c.master = e.master THEN kept.last_master_aw = c.last_master_aw
         ELSE kept.last_master_aw = None
  BY DEF Sane, ClusterFields, Tracker!ForgetTimeline
<1> HIDE DEF kept
<1>2. /\ DOMAIN named = ClusterFields /\ named.follow_distance = kept.follow_distance
      /\ named.last_master_aw = kept.last_master_aw /\ named.master = e.master
  BY <1>1 DEF ClusterFields, Tracker!NameMaster
<1>3. d = c \/ (d = named /\ Tracker!Plausible(e))
  BY DEF Tracker!Adopt, kept
<1> HIDE DEF named, d
<1>4. CASE d = c
  BY <1>4 DEF Sane, d
<1>5. CASE d = named /\ Tracker!Plausible(e)
  BY <1>1, <1>2, <1>5 DEF Sane, d
<1> QED
  BY <1>3, <1>4, <1>5

LEMMA ElectIsSane ==
  ASSUME NEW c, Sane(c), NEW f, f.elect # None => f.elect.distance \in Nat
  PROVE  LET d == Tracker!Elect(c, f) IN
         Sane(d) /\ (d.last_master_aw = c.last_master_aw \/ d.last_master_aw = None)
<1> DEFINE e == f.elect
           adopted == Tracker!Adopt(c, e, f.src)
           d == Tracker!Elect(c, f)
<1>1. CASE e = None
  BY <1>1 DEF Tracker!Elect
<1>2. CASE e # None
  <2>1. d = Tracker!Relay(adopted, e, f.src)
    BY <1>2 DEF Tracker!Elect
  <2>2. /\ DOMAIN adopted = ClusterFields
        /\ adopted = c \/ (adopted.master = e.master /\ Tracker!Plausible(e))
        /\ adopted.follow_distance = c.follow_distance
        /\ adopted.last_master_aw = c.last_master_aw \/ adopted.last_master_aw = None
        /\ adopted.last_master_aw # None => adopted.last_master_aw.of = adopted.master
    BY AdoptIsSane
  <2>3. e.distance \in Nat
    BY <1>2
  <2> HIDE DEF adopted, d, e
  <2>4. CASE adopted.master = e.master /\ Tracker!Plausible(e)
    <3>1. /\ DOMAIN d = ClusterFields /\ d.root = e.master /\ d.master = adopted.master
          /\ d.last_master_aw = adopted.last_master_aw
          /\ d.follow_distance = Tracker!Relayed(e)
      BY <2>1, <2>2, <2>4 DEF Tracker!Relay, ClusterFields
    <3>2. Tracker!Relayed(e) \in 1..33
      BY <2>3, <2>4 DEF Tracker!Plausible, Tracker!Relayed
    <3> QED
      BY <2>2, <2>4, <3>1, <3>2 DEF Sane, d
  <2>5. CASE ~(adopted.master = e.master /\ Tracker!Plausible(e))
    <3>1. d = adopted
      BY <2>1, <2>5 DEF Tracker!Relay
    <3>2. adopted = c
      BY <2>2, <2>5
    <3> QED
      BY <3>1, <3>2 DEF d
  <2> QED
    BY <2>4, <2>5
<1> QED
  BY <1>1, <1>2

(* A frame through the session loop keeps the cluster sane.                *)
LEMMA HearFrameIs ==
  ASSUME NEW c, Sane(c), NEW self, NEW f, f.elect # None => f.elect.distance \in Nat
  PROVE  LET d == Tracker!HearFrame(c, self, f) IN
         Sane(d) /\ Heeds(c, f, d) /\ (f.src = self => d = c)
<1> DEFINE elected == Tracker!Elect(c, f)
           anchored == Tracker!Anchor(elected, f)
           counted == Tracker!CountAdopter(c, f.src)
           seen == Tracker!ObserveAt(c, self, f)
           d == Tracker!HearFrame(c, self, f)
<1>1. Sane(elected) /\ (elected.last_master_aw = c.last_master_aw \/ elected.last_master_aw = None)
  BY ElectIsSane
<1> HIDE DEF elected
<1>2. Sane(anchored) /\ Heeds(c, f, anchored)
  <2>1. CASE elected.master # f.src
    <3>1. anchored = elected
      BY <2>1 DEF Tracker!Anchor
    <3> HIDE DEF anchored
    <3> QED
      BY <1>1, <3>1 DEF Heeds
  <2>2. CASE elected.master = f.src
    <3> DEFINE last == [of |-> f.src, counter |-> f.sync.counter, at |-> f.sync.arrived_us]
    <3>1. \E schedule_, clock_ :
            anchored = [elected EXCEPT !.schedule = schedule_, !.last_master_aw = last, !.clock = clock_]
      BY <2>2 DEF Tracker!Anchor
    <3>2. PICK schedule_, clock_ :
            anchored = [elected EXCEPT !.schedule = schedule_, !.last_master_aw = last, !.clock = clock_]
      BY <3>1
    <3>3. last.of = f.src
      OBVIOUS
    <3> HIDE DEF anchored, last
    <3>4. /\ DOMAIN anchored = ClusterFields /\ anchored.root = elected.root
          /\ anchored.follow_distance = elected.follow_distance
          /\ anchored.master = elected.master /\ anchored.last_master_aw = last
      BY <1>1, <3>2 DEF Sane, ClusterFields
    <3> QED
      BY <1>1, <2>2, <3>3, <3>4 DEF Sane, Heeds, last
  <2> QED
    BY <2>1, <2>2
<1>3. Sane(counted) /\ Heeds(c, f, counted)
  <2>1. \E x : counted = c \/ counted = [c EXCEPT !.adopters = x]
    BY DEF Tracker!CountAdopter
  <2>2. PICK x : counted = c \/ counted = [c EXCEPT !.adopters = x]
    BY <2>1
  <2> HIDE DEF counted
  <2>3. /\ DOMAIN counted = ClusterFields /\ counted.root = c.root
        /\ counted.follow_distance = c.follow_distance
        /\ counted.master = c.master /\ counted.last_master_aw = c.last_master_aw
    BY <2>2 DEF Sane, ClusterFields
  <2> QED
    BY <2>3 DEF Sane, Heeds
<1>4. seen = anchored \/ seen = counted
  BY DEF Tracker!ObserveAt, elected
<1> HIDE DEF anchored, counted
<1>5. Sane(seen) /\ Heeds(c, f, seen)
  <2> HIDE DEF seen
  <2> QED
    BY <1>2, <1>3, <1>4
<1> HIDE DEF seen
<1>6. CASE f.src = self
  <2>1. d = c
    BY <1>6 DEF Tracker!HearFrame
  <2> HIDE DEF d
  <2> QED
    BY <2>1 DEF Heeds, d
<1>7. CASE f.src # self
  <2>1. d = Tracker!PreferOpClass(seen, f)
    BY <1>7 DEF Tracker!HearFrame, seen
  <2>2. \E x : Tracker!PreferOpClass(seen, f) = seen
               \/ Tracker!PreferOpClass(seen, f) = [seen EXCEPT !.schedule = x]
    BY DEF Tracker!PreferOpClass
  <2> HIDE DEF d
  <2>3. PICK x : d = seen \/ d = [seen EXCEPT !.schedule = x]
    BY <2>1, <2>2
  <2>4. /\ DOMAIN d = ClusterFields /\ d.root = seen.root /\ d.follow_distance = seen.follow_distance
        /\ d.master = seen.master /\ d.last_master_aw = seen.last_master_aw
    BY <1>5, <2>3 DEF Sane, ClusterFields
  <2>5. Sane(d) /\ Heeds(c, f, d)
    BY <1>5, <2>4 DEF Sane, Heeds
  <2> QED
    BY <1>7, <2>5 DEF d
<1> QED
  BY <1>6, <1>7

-----------------------------------------------------------------------------
(* What a beacon says of the master it names.                              *)
Elects(t, b, instant) ==
  /\ IsSeq(t)
  /\ \A i \in 1..Len(t) : t[i][1] = 24 => t[i][2] = election_v2(b, instant)

LEMMA ElectsJoins ==
  ASSUME NEW b, NEW instant, NEW t, Elects(t, b, instant), NEW u, Elects(u, b, instant)
  PROVE  Elects(t \o u, b, instant)
<1> DEFINE r == t \o u
<1>1. IsSeq(t) /\ IsSeq(u)
  BY DEF Elects
<1>2. PICK k \in Nat, l \in Nat : k = Len(t) /\ l = Len(u)
  BY <1>1, Shape
<1>3. IsJoin(r, t, u)
  BY <1>1, Joined
<1> HIDE DEF r
<1>4. IsSeq(r) /\ Len(r) = k + l /\ (\A i \in 1..k : r[i] = t[i]) /\ \A i \in 1..l : r[k + i] = u[i]
  BY <1>2, <1>3 DEF IsJoin
<1>5. ASSUME NEW i \in 1..(k + l), r[i][1] = 24 PROVE r[i][2] = election_v2(b, instant)
  <2>1. CASE i <= k
    <3>1. i \in 1..Len(t) /\ r[i] = t[i]
      BY <1>2, <1>4, <2>1
    <3> QED
      BY <1>5, <3>1 DEF Elects
  <2>2. CASE ~(i <= k)
    <3>1. i - k \in 1..l /\ k + (i - k) = i
      BY <2>2
    <3>2. i - k \in 1..Len(u) /\ r[i] = u[i - k]
      BY <1>2, <1>4, <3>1
    <3> QED
      BY <1>5, <3>2 DEF Elects
  <2> QED
    BY <2>1, <2>2
<1> QED
  BY <1>4, <1>5 DEF Elects, r

(* The second tag stays where it is.                                       *)
Second(t, x) == IsSeq(t) /\ Len(t) >= 2 /\ t[2] = x

LEMMA SecondStays ==
  ASSUME NEW t, NEW x, Second(t, x), NEW u, IsSeq(u)
  PROVE  Second(t \o u, x)
<1> DEFINE r == t \o u
<1>1. PICK k \in Nat, l \in Nat : k = Len(t) /\ l = Len(u)
  BY Shape DEF Second
<1>2. IsJoin(r, t, u)
  BY Joined DEF Second
<1> HIDE DEF r
<1>3. IsSeq(r) /\ Len(r) = k + l /\ \A i \in 1..k : r[i] = t[i]
  BY <1>1, <1>2 DEF IsJoin
<1>4. 2 \in 1..k /\ Len(r) >= 2 /\ t[2] = x
  BY <1>1, <1>3 DEF Second
<1> QED
  BY <1>3, <1>4 DEF Second, r

LEMMA TlvsElect ==
  ASSUME NEW b, NEW subtype, NEW instant
  PROVE  LET t == TlvsOf(b, subtype, instant) IN
         Elects(t, b, instant) /\ Second(t, <<5, election(b)>>)
<1> DEFINE v2 == election_v2(b, instant)
           x == <<5, election(b)>>
           e4 == <<4, sync(b, instant)>>
           e18 == <<18, OpClassSequence(schedule(b.config))>>
           t == <<e4, x, e18>>
           e24 == <<24, v2>>
           u == IF b.config.no_t24 THEN <<>> ELSE <<e24>>
           e12 == <<12, data_path(b)>>
           e7 == <<7, "ht">>
           e6 == <<6, SERVICE_PARAMS_AIRDROP>>
           e17 == <<17, <<[id |-> "vht capabilities", body |-> "vht"]>>>>
           e21 == <<21, [major |-> 3, minor |-> 4, device_class |-> 2]>>
           v == <<e12, e7, e6, e17, e21>>
           e16 == <<16, [flags |-> 3, name |-> <<"host", "local">>]>>
           e2 == <<2, [name |-> <<"_airdrop", "_tcp", "local">>,
                       target |-> <<"instance", "_airdrop", "_tcp", "local">>]>>
           w == <<e16, e2>>
<1>1. state_tlvs(b, instant) = (t \o u) \o v
  BY DEF state_tlvs
<1>2. mif_tlvs(b, instant) = state_tlvs(b, instant) \o w
  BY DEF mif_tlvs
<1>3. e4[1] = 4 /\ x[1] = 5 /\ e18[1] = 18 /\ e24[1] = 24 /\ e24[2] = v2
  OBVIOUS
<1>4. e12[1] = 12 /\ e7[1] = 7 /\ e6[1] = 6 /\ e17[1] = 17 /\ e21[1] = 21 /\ e16[1] = 16 /\ e2[1] = 2
  OBVIOUS
<1> HIDE DEF v2, x, e4, e18, e24, e12, e7, e6, e17, e21, e16, e2
<1>5. Elects(t, b, instant) /\ Second(t, x)
  <2>1. IsSeq(t) /\ Len(t) = 3 /\ t[1] = e4 /\ t[2] = x /\ t[3] = e18
    BY ThreeAreList
  <2> HIDE DEF t
  <2>2. \A i \in 1..Len(t) : i = 1 \/ i = 2 \/ i = 3
    BY <2>1
  <2>3. \A i \in 1..Len(t) : t[i][1] # 24
    BY <1>3, <2>1, <2>2
  <2> QED
    BY <2>1, <2>3 DEF Elects, Second
<1>6. Elects(u, b, instant)
  <2>1. CASE b.config.no_t24
    <3>1. u = <<>>
      BY <2>1
    <3>2. IsSeq(u) /\ \A i \in 1..Len(u) : FALSE
      BY <3>1, NoneIsList
    <3> QED
      BY <3>2 DEF Elects
  <2>2. CASE ~b.config.no_t24
    <3>1. u = <<e24>>
      BY <2>2
    <3>2. IsSeq(u) /\ Len(u) = 1 /\ u[1] = e24
      BY <3>1, OneIsList
    <3> HIDE DEF u
    <3>3. \A i \in 1..Len(u) : i = 1
      BY <3>2
    <3>4. \A i \in 1..Len(u) : u[i][2] = v2
      BY <1>3, <3>2, <3>3
    <3> QED
      BY <3>2, <3>4 DEF Elects, v2
  <2> QED
    BY <2>1, <2>2
<1>7. Elects(v, b, instant)
  <2>1. IsSeq(v) /\ Len(v) = 5 /\ v[1] = e12 /\ v[2] = e7 /\ v[3] = e6 /\ v[4] = e17 /\ v[5] = e21
    BY FiveAreList
  <2> HIDE DEF v
  <2>2. \A i \in 1..Len(v) : i = 1 \/ i = 2 \/ i = 3 \/ i = 4 \/ i = 5
    BY <2>1
  <2>3. \A i \in 1..Len(v) : v[i][1] # 24
    BY <1>4, <2>1, <2>2
  <2> QED
    BY <2>1, <2>3 DEF Elects
<1>8. Elects(w, b, instant)
  <2>1. IsSeq(w) /\ Len(w) = 2 /\ w[1] = e16 /\ w[2] = e2
    BY TwoAreList
  <2> HIDE DEF w
  <2>2. \A i \in 1..Len(w) : i = 1 \/ i = 2
    BY <2>1
  <2>3. \A i \in 1..Len(w) : w[i][1] # 24
    BY <1>4, <2>1, <2>2
  <2> QED
    BY <2>1, <2>3 DEF Elects
<1> HIDE DEF t, u, v, w
<1>9. Elects(state_tlvs(b, instant), b, instant) /\ Second(state_tlvs(b, instant), x)
  <2>1. Elects(t \o u, b, instant)
    BY <1>5, <1>6, ElectsJoins
  <2>2. Elects((t \o u) \o v, b, instant)
    BY <1>7, <2>1, ElectsJoins
  <2>3. Second(t \o u, x)
    BY <1>5, <1>6, SecondStays DEF Elects
  <2>4. Second((t \o u) \o v, x)
    BY <1>7, <2>3, SecondStays DEF Elects
  <2> QED
    BY <1>1, <2>2, <2>4
<1>10. Elects(mif_tlvs(b, instant), b, instant) /\ Second(mif_tlvs(b, instant), x)
  <2>1. Elects(mif_tlvs(b, instant), b, instant)
    BY <1>2, <1>8, <1>9, ElectsJoins
  <2>2. Second(mif_tlvs(b, instant), x)
    BY <1>2, <1>8, <1>9, SecondStays DEF Elects
  <2> QED
    BY <2>1, <2>2
<1> QED
  BY <1>9, <1>10 DEF TlvsOf, x

(* The three tags that name a master.                                      *)
LEMMA BeaconMeans ==
  ASSUME NEW b, NEW subtype, NEW instant
  PROVE  LET tags == Meant(TlvsOf(b, subtype, instant)) IN
         /\ tags[4] = sync(b, instant) /\ tags[5] = election(b)
         /\ 24 \in DOMAIN tags => tags[24] = election_v2(b, instant)
<1> DEFINE t == TlvsOf(b, subtype, instant)
           x == <<5, election(b)>>
           v2 == election_v2(b, instant)
<1>1. PICK S : Saying(t, S)
  BY TlvsReturn
<1>2. \A i \in DOMAIN t : t[i][1] \in DOMAIN Meant(t) /\ Meant(t)[t[i][1]] = t[i][2]
  BY <1>1, ReadAsMeant
<1>3. LedBy(t, sync(b, instant))
  BY TlvsAreWritten
<1>4. Elects(t, b, instant) /\ Second(t, x)
  BY TlvsElect
<1>5. x[1] = 5 /\ x[2] = election(b)
  OBVIOUS
<1>6. Meant(t)[4] = sync(b, instant)
  BY <1>3, MeantFirst
<1> HIDE DEF t, x
<1>7. DOMAIN t = 1..Len(t) /\ Len(t) \in Nat
  BY <1>4, Shape DEF Second
<1>8. Meant(t)[5] = election(b)
  <2>1. 2 \in DOMAIN t /\ t[2] = x
    BY <1>4, <1>7 DEF Second
  <2> QED
    BY <1>2, <1>5, <2>1
<1>9. ASSUME 24 \in DOMAIN Meant(t) PROVE Meant(t)[24] = v2
  <2>1. 24 \in {t[i][1] : i \in DOMAIN t}
    BY <1>9 DEF Meant
  <2>2. PICK i \in DOMAIN t : t[i][1] = 24
    BY <2>1
  <2>3. t[i][2] = v2
    BY <1>4, <1>7, <2>2 DEF Elects
  <2> QED
    BY <1>2, <2>2, <2>3
<1> QED
  BY <1>6, <1>8, <1>9 DEF t

(* Whoever a session follows is another, and better than itself.           *)
LEMMA FollowIs ==
  ASSUME NEW c, NEW self, NEW metric, NEW h, set_follow(c, self, metric, h) # None
  PROVE  LET follow == set_follow(c, self, metric, h) IN
         /\ follow = [master |-> c.master, root |-> OrElse(c.root, c.master),
                      parent |-> OrElse(c.relay_parent, c.master),
                      distance |-> OrElse(c.follow_distance, 1), master_metric |-> c.master_metric,
                      master_counter |-> OrElse(c.master_counter, 0),
                      aw_counter |-> ProjectedAw(c, h)]
         /\ c.master # None /\ c.master # self /\ c.master_metric > metric
BY DEF set_follow, Leads

(* A beacon that does not claim the job names one master in its three      *)
(* tags, better than its sender and at most 33 hops away; one that claims  *)
(* it carries its sender's own counter (beacon.rs, Beacon::frame).         *)
THEOREM BeaconNames ==
  ASSUME NEW c, Sane(c), NEW b, NEW h,
         b.follow = set_follow(c, b.addr, b.config.metric, h),
         NEW subtype, NEW tags, tags = Meant(TlvsOf(b, subtype, h))
  PROVE  /\ 24 \in DOMAIN tags => tags[24].distance \in Nat
         /\ tags[4].fixed.master = b.addr => tags[4].fixed.aw_counter = aws_at(h) % CounterMod
         /\ tags[4].fixed.master # b.addr =>
              /\ tags[5].master = tags[4].fixed.master
              /\ tags[5].master_metric > tags[5].self_metric
              /\ 24 \in DOMAIN tags => /\ tags[24].master = tags[4].fixed.master
                                       /\ tags[24].distance \in 1..33
              /\ b.follow # None /\ b.follow.aw_counter # None =>
                   /\ c.last_master_aw # None /\ tags[4].fixed.master = c.master
                   /\ tags[4].fixed.aw_counter = Tracker!ProjectedCounter(c, h, CounterMod)
<1> DEFINE follow == b.follow
           s == sync(b, h)
           e == election(b)
           v2 == election_v2(b, h)
<1>1. tags[4] = s /\ tags[5] = e /\ (24 \in DOMAIN tags => tags[24] = v2)
  BY BeaconMeans
<1>2. /\ s.fixed.aw_counter = AwCounter(b, h)
      /\ s.fixed.master = IF follow # None THEN follow.master ELSE b.addr
  BY DEF sync
<1>3. follow # None =>
        /\ follow.master = c.master /\ follow.root = OrElse(c.root, c.master)
        /\ follow.distance = OrElse(c.follow_distance, 1)
        /\ follow.master_metric = c.master_metric /\ follow.aw_counter = ProjectedAw(c, h)
        /\ c.master # None /\ c.master # b.addr /\ c.master_metric > b.config.metric
  BY FollowIs
<1>4. follow # None => follow.root = c.master /\ follow.distance \in 1..33
  BY <1>3 DEF Sane, OrElse
<1>5. follow = None => v2.distance = 0
  BY DEF election_v2
<1>6. follow # None =>
        /\ v2.distance = follow.distance /\ v2.master = follow.root
        /\ e.master = follow.root /\ e.master_metric = follow.master_metric
        /\ e.self_metric = b.config.metric
  BY DEF election_v2, election
<1> HIDE DEF s, e, v2, follow
<1>7. 24 \in DOMAIN tags => tags[24].distance \in Nat
  BY <1>1, <1>4, <1>5, <1>6
<1>8. ASSUME tags[4].fixed.master = b.addr
      PROVE  tags[4].fixed.aw_counter = aws_at(h) % CounterMod
  <2>1. follow = None
    BY <1>1, <1>2, <1>3, <1>8
  <2> QED
    BY <1>1, <1>2, <2>1 DEF AwCounter, follow
<1>9. ASSUME tags[4].fixed.master # b.addr
      PROVE  /\ tags[5].master = tags[4].fixed.master
             /\ tags[5].master_metric > tags[5].self_metric
             /\ 24 \in DOMAIN tags => /\ tags[24].master = tags[4].fixed.master
                                      /\ tags[24].distance \in 1..33
             /\ b.follow # None /\ b.follow.aw_counter # None =>
                  /\ c.last_master_aw # None /\ tags[4].fixed.master = c.master
                  /\ tags[4].fixed.aw_counter = Tracker!ProjectedCounter(c, h, CounterMod)
  <2>1. follow # None
    BY <1>1, <1>2, <1>9
  <2>2. tags[4].fixed.master = c.master
    BY <1>1, <1>2, <1>3, <2>1
  <2>3. ASSUME follow.aw_counter # None
        PROVE  /\ c.last_master_aw # None
               /\ tags[4].fixed.aw_counter = Tracker!ProjectedCounter(c, h, CounterMod)
    <3>1. ProjectedAw(c, h) # None /\ AwCounter(b, h) = ProjectedAw(c, h)
      BY <1>3, <2>1, <2>3 DEF AwCounter, follow
    <3>2. c.last_master_aw # None /\ ProjectedAw(c, h) = Tracker!ProjectedCounter(c, h, CounterMod)
      BY <3>1 DEF ProjectedAw
    <3> QED
      BY <1>1, <1>2, <3>1, <3>2
  <2>4. tags[5].master = c.master /\ tags[5].master_metric > tags[5].self_metric
    BY <1>1, <1>3, <1>4, <1>6, <2>1
  <2>5. 24 \in DOMAIN tags => tags[24].master = c.master /\ tags[24].distance \in 1..33
    BY <1>1, <1>4, <1>6, <2>1
  <2> QED
    BY <2>2, <2>3, <2>4, <2>5 DEF follow
<1> QED
  BY <1>7, <1>8, <1>9

-----------------------------------------------------------------------------
(* The time a session keeps is that of a frame it heard: heard is what the *)
(* frame of its master meant, when it was heard and by whose count.        *)
TimeOf(n, c, heard, t) ==
  /\ heard.src = c.master /\ heard.tags[4].fixed.aw_counter = c.last_master_aw.counter
  /\ \A m \in Ours : heard.src = Mac(m) =>
       /\ heard.at \in Nat /\ Host(m, heard.at) \in Nat /\ heard.at <= t
       /\ c.last_master_aw.at = Host(n, heard.at)
       /\ Claims(heard) =>
            heard.tags[4].fixed.aw_counter = aws_at(Host(m, heard.at)) % CounterMod

Timed(n, c, h, t) == c.last_master_aw # None => \E heard \in h : TimeOf(n, c, heard, t)

(* What is on the air was said now, and by its sender's own count if the   *)
(* sender claims the job.                                                  *)
SpokenAt(claim, t) ==
  /\ 24 \in DOMAIN claim.tags => claim.tags[24].distance \in Nat
  /\ \A m \in Ours : claim.src = Mac(m) =>
       /\ claim.at = t
       /\ Claims(claim) =>
            claim.tags[4].fixed.aw_counter = aws_at(Host(m, t)) % CounterMod

Heeding ==
  /\ DOMAIN cluster = Ours /\ DOMAIN heeded = Ours
  /\ \A n \in Ours : Sane(cluster[n]) /\ Timed(n, cluster[n], heeded[n], now)
  /\ \A claim \in air.claims : SpokenAt(claim, now)

(* What a session keeps of a frame it hears.                               *)
HeedsThe(m, c, h, d, g) ==
  /\ Sane(d) /\ Timed(m, d, g, now)
  /\ \A claim \in air.claims : claim.src = Mac(m) => g = h

LEMMA ReadIs ==
  ASSUME NEW f, NEW h, parse_awdl(f, h) # None
  PROVE  LET said == Read802(f)
             heard == parse_awdl(f, h)
         IN  /\ said # None /\ 4 \in DOMAIN said.tags
             /\ heard.src = said.src /\ heard.elect = Tagged(said, 24)
             /\ heard.sync.arrived_us = h /\ heard.sync.counter = said.tags[4].fixed.aw_counter
<1> DEFINE said == Read802(f)
<1>1. said # None /\ Tagged(said, 4) # None
  BY DEF parse_awdl
<1>2. 4 \in DOMAIN said.tags
  BY <1>1 DEF Tagged
<1> HIDE DEF said
<1> QED
  BY <1>1, <1>2 DEF parse_awdl, said

(* A reception keeps the cluster sane, and the time a session keeps that of*)
(* a frame of its master; its own frame teaches it nothing.                *)
LEMMA LearnHeeds ==
  ASSUME Clocks, IsOnAir(air), Told(air), Heeding,
         NEW m \in Ours, NEW cut \in 0..Whole, Learn(m, Captured(cut))
  PROVE  /\ DOMAIN cluster' = Ours /\ DOMAIN heeded' = Ours
         /\ \A n \in Ours : HeedsThe(n, cluster[n], heeded[n], cluster'[n], heeded'[n])
<1> DEFINE x == Captured(cut)
           f == IF HasRadiotap(x) THEN Bare(x) ELSE <<>>
           said == Said(cut)
           h == Host(m, now)
           heard == parse_awdl(f, h)
           b == cluster[m]
           c == IF heard = None THEN b ELSE Tracker!HearFrame(b, Mac(m), heard)
           old == heeded[m]
           new == IF c.last_master_aw = b.last_master_aw THEN old ELSE air.claims
<1>1. DOMAIN cluster = Ours /\ DOMAIN heeded = Ours
      /\ \A n \in Ours : Sane(cluster[n]) /\ Timed(n, cluster[n], heeded[n], now)
      /\ \A claim \in air.claims : SpokenAt(claim, now)
  BY DEF Heeding
<1>2. cluster' = [cluster EXCEPT ![m] = c] /\ heeded' = [heeded EXCEPT ![m] = new]
  BY <1>1 DEF Learn
<1>3. Read802(f) = said
  <2>1. CASE HasRadiotap(x)
    BY <2>1 DEF Said
  <2>2. CASE ~HasRadiotap(x)
    <3>1. Read802(<<>>) = None
      <4> DEFINE none == <<>>
      <4>1. Len(none) = 0
        BY NoneIsList
      <4> HIDE DEF none
      <4>2. ~IsAwdl(none)
        BY <4>1 DEF IsAwdl, Has, MGMT_HEADER_LEN
      <4> HIDE DEF none
      <4>3. Read802(none) = None
        BY <4>2 DEF Read802
      <4> QED
        BY <4>3 DEF none
    <3> QED
      BY <2>2, <3>1 DEF Said
  <2> QED
    BY <2>1, <2>2
<1>4. /\ air.claims = {} => said = None
      /\ \A claim \in air.claims : said # None =>
           /\ said.src = claim.src
           /\ \A tag \in DOMAIN said.tags :
                tag \in DOMAIN claim.tags /\ said.tags[tag] = claim.tags[tag]
  BY SaidIsTold
<1> HIDE DEF f, x, said
<1>5. ASSUME heard # None
      PROVE  /\ said # None /\ 4 \in DOMAIN said.tags
             /\ heard.src = said.src /\ heard.elect = Tagged(said, 24)
             /\ heard.sync.arrived_us = h /\ heard.sync.counter = said.tags[4].fixed.aw_counter
  BY <1>3, <1>5, ReadIs
<1> HIDE DEF h, heard
<1>6. ASSUME heard # None
      PROVE  \E claim \in air.claims : TRUE
  BY <1>4, <1>5, <1>6
<1>7. ASSUME heard # None, NEW claim \in air.claims
      PROVE  /\ heard.src = claim.src /\ heard.sync.counter = claim.tags[4].fixed.aw_counter
             /\ heard.elect # None => 24 \in DOMAIN claim.tags /\ heard.elect = claim.tags[24]
  <2>1. heard.src = claim.src /\ said.tags[4] = claim.tags[4]
    BY <1>4, <1>5, <1>7
  <2>2. ASSUME heard.elect # None
        PROVE  24 \in DOMAIN claim.tags /\ heard.elect = claim.tags[24]
    BY <1>4, <1>5, <1>7, <2>2 DEF Tagged
  <2> QED
    BY <1>5, <1>7, <2>1, <2>2
<1>8. ASSUME heard # None PROVE heard.elect # None => heard.elect.distance \in Nat
  <2>1. PICK claim \in air.claims : TRUE
    BY <1>6, <1>8
  <2> QED
    BY <1>1, <1>7, <1>8, <2>1 DEF SpokenAt
<1>9. /\ Sane(c)
      /\ c = b \/ (heard # None /\ Heeds(b, heard, c))
      /\ heard # None /\ heard.src = Mac(m) => c = b
  <2>1. CASE heard = None
    BY <1>1, <2>1
  <2>2. CASE heard # None
    <3>1. Sane(b) /\ c = Tracker!HearFrame(b, Mac(m), heard)
      BY <1>1, <2>2
    <3> HIDE DEF b, c
    <3> QED
      BY <1>8, <2>2, <3>1, HearFrameIs
  <2> QED
    BY <2>1, <2>2
<1> HIDE DEF c
<1>10. Timed(m, c, new, now)
  <2> SUFFICES ASSUME c.last_master_aw # None
               PROVE  \E one \in new : TimeOf(m, c, one, now)
    BY DEF Timed
  <2>1. CASE c.last_master_aw = b.last_master_aw
    <3>1. PICK one \in old : TimeOf(m, b, one, now)
      BY <1>1, <2>1 DEF Timed
    <3>2. c.master = b.master
      BY <1>1, <1>9, <2>1 DEF Sane
    <3>3. TimeOf(m, c, one, now)
      BY <2>1, <3>1, <3>2 DEF TimeOf
    <3> QED
      BY <2>1, <3>1, <3>3
  <2>2. CASE c.last_master_aw # b.last_master_aw
    <3>1. /\ heard # None /\ c.master = heard.src
          /\ c.last_master_aw = [of |-> heard.src, counter |-> heard.sync.counter,
                                 at |-> heard.sync.arrived_us]
      BY <1>9, <2>2 DEF Heeds
    <3>2. PICK one \in air.claims : TRUE
      BY <1>6, <3>1
    <3>3. one.src = c.master /\ one.tags[4].fixed.aw_counter = c.last_master_aw.counter
          /\ c.last_master_aw.at = Host(m, now)
      BY <1>5, <1>7, <3>1, <3>2 DEF h
    <3>4. ASSUME NEW n \in Ours, one.src = Mac(n)
          PROVE  /\ one.at \in Nat /\ Host(n, one.at) \in Nat /\ one.at <= now
                 /\ c.last_master_aw.at = Host(m, one.at)
                 /\ Claims(one) =>
                      one.tags[4].fixed.aw_counter = aws_at(Host(n, one.at)) % CounterMod
      <4>1. one.at = now
            /\ (Claims(one) => one.tags[4].fixed.aw_counter = aws_at(Host(n, now)) % CounterMod)
        BY <1>1, <3>2, <3>4 DEF SpokenAt
      <4>2. now \in Nat /\ EpochOf[n] \in Nat /\ now >= EpochOf[n]
        BY ExchangeAssumption DEF Clocks, Stations
      <4>3. Host(n, now) \in Nat
        BY <4>2 DEF Host
      <4> QED
        BY <3>3, <4>1, <4>2, <4>3
    <3>5. TimeOf(m, c, one, now)
      BY <3>3, <3>4 DEF TimeOf
    <3> QED
      BY <2>2, <3>2, <3>5
  <2> QED
    BY <2>1, <2>2
<1>11. ASSUME NEW claim \in air.claims, claim.src = Mac(m) PROVE new = old
  <2>1. c = b
    BY <1>7, <1>9, <1>11
  <2> QED
    BY <2>1
<1>12. HeedsThe(m, b, old, c, new)
  BY <1>9, <1>10, <1>11 DEF HeedsThe
<1>13. ASSUME NEW n \in Ours
       PROVE  HeedsThe(n, cluster[n], heeded[n], cluster'[n], heeded'[n])
  <2>1. CASE n = m
    <3>1. cluster'[n] = c /\ heeded'[n] = new
      BY <1>1, <1>2, <2>1
    <3> HIDE DEF new
    <3> QED
      BY <1>12, <2>1, <3>1
  <2>2. CASE n # m
    <3>1. cluster'[n] = cluster[n] /\ heeded'[n] = heeded[n]
      BY <1>1, <1>2, <2>2
    <3> QED
      BY <1>1, <3>1 DEF HeedsThe
  <2> QED
    BY <2>1, <2>2
<1>14. DOMAIN cluster' = Ours /\ DOMAIN heeded' = Ours
  BY <1>1, <1>2
<1> QED
  BY <1>13, <1>14

(* What a follower makes of the counter it heard: its master's counter of  *)
(* this moment, or one window behind.                                      *)
LEMMA RelaysTheTime ==
  ASSUME Clocks, NEW n \in Ours, NEW m \in Ours, NEW t \in Nat, t >= now,
         NEW c, c.last_master_aw # None, NEW heard, TimeOf(n, c, heard, now),
         heard.src = Mac(m), Claims(heard)
  PROVE  LET true == aws_at(Host(m, t)) IN
         Tracker!ProjectedCounter(c, Host(n, t), CounterMod)
           \in {true % CounterMod, (true - 1) % CounterMod}
<1> DEFINE x == Host(m, heard.at)
           d == t - heard.at
           counter == c.last_master_aw.counter
           at == c.last_master_aw.at
           true == aws_at(Host(m, t))
<1>1. /\ heard.at \in Nat /\ x \in Nat /\ heard.at <= now /\ at = Host(n, heard.at)
      /\ counter = aws_at(x) % CounterMod
  BY DEF TimeOf
<1>2. now \in Nat /\ EpochOf[n] \in Nat /\ EpochOf[m] \in Nat /\ CounterMod \in Nat \ {0}
  BY ExchangeAssumption DEF Clocks, Stations
<1>3. d \in Nat
  BY <1>1, <1>2
<1>4. Tracker!SatSub(Host(n, t), at) = d
  BY <1>1, <1>2 DEF Tracker!SatSub, Host
<1>5. Host(m, t) = x + d
  BY <1>1, <1>2 DEF Host
<1>6. Tracker!ProjectedCounter(c, Host(n, t), CounterMod) = (counter + (d \div AW_US)) % CounterMod
  <2>1. Tracker!ProjectedCounter(c, Host(n, t), CounterMod)
          = (counter + (Tracker!SatSub(Host(n, t), at) \div AW_US)) % CounterMod
    BY DEF Tracker!ProjectedCounter
  <2> QED
    BY <1>4, <2>1
<1> HIDE DEF x, d, counter
<1>7. ((aws_at(x) % CounterMod) + (d \div AW_US)) % CounterMod
        \in {aws_at(x + d) % CounterMod, (aws_at(x + d) - 1) % CounterMod}
  BY <1>1, <1>2, <1>3, ProjectionIsTrue
<1> QED
  BY <1>1, <1>5, <1>6, <1>7

(* The claim of a beacon of ours.                                          *)
KeepsTheTimeline(claim, n, h) ==
  /\ claim.tags[5].master = claim.tags[4].fixed.master
  /\ claim.tags[5].master_metric > claim.tags[5].self_metric
  /\ 24 \in DOMAIN claim.tags =>
       /\ claim.tags[24].master = claim.tags[4].fixed.master
       /\ claim.tags[24].distance \in 1..33
  /\ claim.timed => \E heard \in h :
       /\ heard.src = claim.tags[4].fixed.master
       /\ \A m \in Ours : heard.src = Mac(m) /\ Claims(heard) =>
            LET true == aws_at(Host(m, claim.at)) IN
            claim.tags[4].fixed.aw_counter \in {true % CounterMod, (true - 1) % CounterMod}

LEMMA AnnounceKeeps ==
  ASSUME Clocks, Heeding,
         NEW n \in Ours, NEW config, NEW t \in Nat, t >= now, NEW own, Announce(n, config, t, own),
         NEW claim \in air'.claims
  PROVE  /\ SpokenAt(claim, t)
         /\ \A m \in Ours : claim.src = Mac(m) /\ ~Claims(claim) =>
              KeepsTheTimeline(claim, m, heeded[m])
<1> DEFINE c == cluster[n]
           h == Host(n, t)
           b == [addr |-> Mac(n), sent |-> beacons[n].sent, config |-> config,
                 follow |-> set_follow(c, Mac(n), config.metric, h)]
           subtype == IF beacons[n].sent % (PsfPerMif + 1) = 0 THEN SUBTYPE_MIF ELSE SUBTYPE_PSF
           tags == Meant(TlvsOf(b, subtype, h))
           timed == b.follow # None /\ b.follow.aw_counter # None
           said == [src |-> Mac(n), at |-> t, own |-> own, timed |-> timed,
                    phy_tx_time |-> h + Latency, tags |-> tags]
           bytes == Frame(b, subtype, h)
           none == <<>>
           claims == {said}
<1>1. air' = [OnAir(bytes, none) EXCEPT !.claims = claims]
  BY DEF Announce
<1>2. Sane(c) /\ Timed(n, c, heeded[n], now)
  BY DEF Heeding
<1>3. b.addr = Mac(n) /\ b.follow = set_follow(c, b.addr, b.config.metric, h)
  OBVIOUS
<1> HIDE DEF c, bytes, none, b, subtype
<1>4. claim = said
  <2> HIDE DEF said
  <2>1. air'.claims = claims
    <3> HIDE DEF claims
    <3> QED
      BY <1>1, ClaimIs
  <2> QED
    BY <2>1
<1>5. tags = Meant(TlvsOf(b, subtype, h))
  OBVIOUS
<1> HIDE DEF tags, timed
<1>6. claim.src = Mac(n) /\ claim.at = t /\ claim.timed = timed /\ claim.tags = tags
  BY <1>4
<1> HIDE DEF said, h
<1>7. /\ 24 \in DOMAIN tags => tags[24].distance \in Nat
      /\ tags[4].fixed.master = b.addr => tags[4].fixed.aw_counter = aws_at(h) % CounterMod
      /\ tags[4].fixed.master # b.addr =>
           /\ tags[5].master = tags[4].fixed.master
           /\ tags[5].master_metric > tags[5].self_metric
           /\ 24 \in DOMAIN tags => /\ tags[24].master = tags[4].fixed.master
                                    /\ tags[24].distance \in 1..33
           /\ b.follow # None /\ b.follow.aw_counter # None =>
                /\ c.last_master_aw # None /\ tags[4].fixed.master = c.master
                /\ tags[4].fixed.aw_counter = Tracker!ProjectedCounter(c, h, CounterMod)
  BY <1>2, <1>3, <1>5, BeaconNames
<1>8. ASSUME NEW m \in Ours, claim.src = Mac(m) PROVE m = n
  <2>1. MacOf[m] = MacOf[n]
    BY <1>6, <1>8 DEF Mac
  <2>2. m \in Stations /\ n \in Stations
    BY DEF Stations
  <2>3. \A p, q \in Stations : MacOf[p] = MacOf[q] => p = q
    BY ExchangeAssumption
  <2> QED
    BY <2>1, <2>2, <2>3
<1>9. SpokenAt(claim, t)
  <2>1. Claims(claim) => claim.tags[4].fixed.aw_counter = aws_at(Host(n, t)) % CounterMod
    BY <1>3, <1>6, <1>7 DEF Claims, h
  <2>2. 24 \in DOMAIN claim.tags => claim.tags[24].distance \in Nat
    BY <1>6, <1>7
  <2>3. ASSUME NEW m \in Ours, claim.src = Mac(m)
        PROVE  /\ claim.at = t
               /\ Claims(claim) =>
                    claim.tags[4].fixed.aw_counter = aws_at(Host(m, t)) % CounterMod
    BY <1>6, <1>8, <2>1, <2>3
  <2> QED
    BY <2>2, <2>3 DEF SpokenAt
<1>10. ASSUME ~Claims(claim) PROVE KeepsTheTimeline(claim, n, heeded[n])
  <2>1. tags[4].fixed.master # b.addr
    BY <1>3, <1>6, <1>10 DEF Claims
  <2>2. ASSUME claim.timed
        PROVE  \E heard \in heeded[n] :
                 /\ heard.src = claim.tags[4].fixed.master
                 /\ \A m \in Ours : heard.src = Mac(m) /\ Claims(heard) =>
                      LET true == aws_at(Host(m, claim.at)) IN
                      claim.tags[4].fixed.aw_counter
                        \in {true % CounterMod, (true - 1) % CounterMod}
    <3>1. /\ c.last_master_aw # None /\ tags[4].fixed.master = c.master
          /\ tags[4].fixed.aw_counter = Tracker!ProjectedCounter(c, h, CounterMod)
      BY <1>6, <1>7, <2>1, <2>2 DEF timed
    <3>2. PICK heard \in heeded[n] : TimeOf(n, c, heard, now)
      BY <1>2, <3>1 DEF Timed
    <3>3. heard.src = claim.tags[4].fixed.master
      BY <1>6, <3>1, <3>2 DEF TimeOf
    <3>4. ASSUME NEW m \in Ours, heard.src = Mac(m), Claims(heard)
          PROVE  LET true == aws_at(Host(m, claim.at)) IN
                 claim.tags[4].fixed.aw_counter
                   \in {true % CounterMod, (true - 1) % CounterMod}
      <4>1. LET true == aws_at(Host(m, t)) IN
            Tracker!ProjectedCounter(c, Host(n, t), CounterMod)
              \in {true % CounterMod, (true - 1) % CounterMod}
        BY <3>1, <3>2, <3>4, RelaysTheTime
      <4> QED
        BY <1>6, <3>1, <4>1 DEF h
    <3> QED
      BY <3>3, <3>4
  <2> QED
    BY <1>6, <1>7, <2>1, <2>2 DEF KeepsTheTimeline
<1> QED
  BY <1>8, <1>9, <1>10

(* Only a reception teaches a session anything.                            *)
Attending(cut) == \E m \in Ours : Learn(m, Captured(cut))

LEMMA WhoLearns ==
  ASSUME IsOnAir(air), [Next]_vars
  PROVE  \/ Announcing
         \/ UNCHANGED <<now, cluster, heeded>>
         \/ UNCHANGED now /\ air'.claims = air.claims /\ \E cut \in 0..Whole : Attending(cut)
<1> DEFINE Goal == \/ Announcing
                   \/ UNCHANGED <<now, cluster, heeded>>
                   \/ UNCHANGED now /\ air'.claims = air.claims
                      /\ \E cut \in 0..Whole : Attending(cut)
<1>1. ASSUME NEW n \in Ours, NEW dst \in Destinations, Read(n, dst) PROVE Goal
  BY <1>1 DEF Read, announcing
<1>2. ASSUME NEW n \in Ours, NEW first \in BOOLEAN, NEW others \in 0..(Repeat - 1), Drain(n, first, others)
      PROVE  Goal
  BY <1>2 DEF Drain, announcing
<1>3. ASSUME NEW n \in Ours, NEW master \in Theirs, Probe(n, master) PROVE Goal
  BY <1>3 DEF Probe, announcing
<1>4. ASSUME NEW n \in Ours, NEW k \in 1..RadioMax, NEW shape \in Shapes, Emit(n, k, shape) PROVE Goal
  BY <1>4 DEF Emit, announcing
<1>5. ASSUME NEW n \in Ours, EmitRequest(n) PROVE Goal
  BY <1>5 DEF EmitRequest, announcing
<1>6. ASSUME NEW frame \in Foreign, EmitForeign(frame) PROVE Goal
  BY <1>6 DEF EmitForeign, announcing
<1>7. ASSUME NEW from \in Theirs, Answer(from) PROVE Goal
  BY <1>7 DEF Answer, announcing
<1>8. ASSUME NEW n \in Ours, NEW config, NEW t \in Instants \cup {now}, NEW own,
             Announce(n, config, t, own)
      PROVE  Goal
  BY <1>8 DEF Announcing
<1>9. ASSUME NEW m \in Ours, NEW cut \in Cuts, NEW refused, Hear(m, cut, refused) PROVE Goal
  <2>1. air' = [air EXCEPT !.to = @ \ {m}] /\ Learn(m, Captured(cut)) /\ UNCHANGED now
    BY <1>9 DEF Hear
  <2>2. air = [bytes |-> air.bytes, needs |-> air.needs, to |-> air.to, claims |-> air.claims]
    BY DEF IsOnAir
  <2>3. air'.claims = air.claims
    BY <2>1, <2>2
  <2>4. cut \in 0..Whole
    BY CutsAre DEF Whole
  <2>5. Attending(cut)
    BY <2>1 DEF Attending
  <2> QED
    BY <2>1, <2>3, <2>4, <2>5
<1>10. ASSUME UNCHANGED vars PROVE Goal
  BY <1>10 DEF vars, announcing
<1> HIDE DEF Goal
<1>11. Goal
  BY <1>1, <1>2, <1>3, <1>4, <1>5, <1>6, <1>7, <1>8, <1>9, <1>10 DEF Next
<1> QED
  BY <1>11 DEF Goal

(* What the sessions keep of time, and what the air says of it.            *)
Faithful == \A claim \in air.claims, n \in Ours :
              claim.src = Mac(n) /\ ~Claims(claim) => KeepsTheTimeline(claim, n, heeded[n])

LEMMA HeedingStep ==
  ASSUME Clocks, AirIs, Told(air), Heeding, Faithful, [Next]_vars
  PROVE  Heeding' /\ Faithful'
<1>0. IsOnAir(air)
  BY DEF AirIs
<1>1. /\ DOMAIN cluster = Ours /\ DOMAIN heeded = Ours
      /\ \A n \in Ours : Sane(cluster[n]) /\ Timed(n, cluster[n], heeded[n], now)
      /\ \A claim \in air.claims : SpokenAt(claim, now)
  BY DEF Heeding
<1>2. CASE Announcing
  <2>1. PICK n \in Ours, t \in Instants \cup {now} : \E config, own : Announce(n, config, t, own)
    BY <1>2 DEF Announcing
  <2>2. PICK config, own : Announce(n, config, t, own)
    BY <2>1
  <2>3. t >= now /\ now' = t /\ cluster' = cluster /\ heeded' = heeded
    BY <2>2 DEF Announce
  <2>4. t \in Nat /\ now \in Nat
    BY <2>1, ExchangeAssumption DEF Clocks
  <2>5. \A claim \in air'.claims :
          /\ SpokenAt(claim, t)
          /\ \A m \in Ours : claim.src = Mac(m) /\ ~Claims(claim) =>
               KeepsTheTimeline(claim, m, heeded[m])
    BY <2>2, <2>3, <2>4, AnnounceKeeps
  <2>6. ASSUME NEW m \in Ours PROVE Timed(m, cluster[m], heeded[m], t)
    <3>1. Timed(m, cluster[m], heeded[m], now)
      BY <1>1
    <3>2. ASSUME NEW heard, TimeOf(m, cluster[m], heard, now)
          PROVE  TimeOf(m, cluster[m], heard, t)
      BY <2>3, <2>4, <3>2 DEF TimeOf
    <3> QED
      BY <3>1, <3>2 DEF Timed
  <2>7. Heeding'
    BY <1>1, <2>3, <2>5, <2>6 DEF Heeding
  <2>8. Faithful'
    BY <2>3, <2>5 DEF Faithful
  <2> QED
    BY <2>7, <2>8
<1>3. CASE UNCHANGED now /\ air'.claims = air.claims /\ \E cut \in 0..Whole : Attending(cut)
  <2>1. PICK cut \in 0..Whole, m \in Ours : Learn(m, Captured(cut))
    BY <1>3 DEF Attending
  <2>2. /\ DOMAIN cluster' = Ours /\ DOMAIN heeded' = Ours
        /\ \A n \in Ours : HeedsThe(n, cluster[n], heeded[n], cluster'[n], heeded'[n])
    BY <1>0, <2>1, LearnHeeds
  <2>3. Heeding'
    BY <1>1, <1>3, <2>2 DEF Heeding, HeedsThe
  <2>4. Faithful'
    BY <1>3, <2>2 DEF Faithful, HeedsThe
  <2> QED
    BY <2>3, <2>4
<1>4. CASE UNCHANGED <<now, cluster, heeded>> /\ ~Announcing
  <2>1. ASSUME NEW claim \in air'.claims
        PROVE  /\ SpokenAt(claim, now)
               /\ \A n \in Ours : claim.src = Mac(n) /\ ~Claims(claim) =>
                    KeepsTheTimeline(claim, n, heeded[n])
    <3>1. CASE air'.claims = {}
      BY <2>1, <3>1
    <3>2. CASE air'.claims = air.claims
      BY <1>1, <2>1, <3>2 DEF Faithful
    <3>3. CASE \E frame \in Foreign : air'.claims = frame.claims
      <4>1. PICK frame \in Foreign : claim \in frame.claims
        BY <2>1, <3>3
      <4>2. /\ \A n \in Ours : claim.src # Mac(n)
            /\ 24 \in DOMAIN claim.tags => claim.tags[24].distance \in Nat
        BY <4>1, ForeignAssumption
      <4> QED
        BY <4>2 DEF SpokenAt
    <3> QED
      BY <1>4, <3>1, <3>2, <3>3, WhatIsClaimed
  <2>2. Heeding'
    BY <1>1, <1>4, <2>1 DEF Heeding
  <2>3. Faithful'
    BY <1>4, <2>1 DEF Faithful
  <2> QED
    BY <2>2, <2>3
<1> QED
  BY <1>0, <1>2, <1>3, <1>4, WhoLearns

LEMMA HeedingInit ==
  ASSUME Init
  PROVE  Heeding /\ Faithful
<1>1. air.claims = {}
  BY DEF Init, Silence
<1>2. cluster = [n \in Ours |-> Tracker!NewCluster] /\ heeded = [n \in Ours |-> {}]
  BY DEF Init
<1>3. /\ DOMAIN Tracker!NewCluster = ClusterFields
      /\ Tracker!NewCluster.root = None /\ Tracker!NewCluster.follow_distance = None
      /\ Tracker!NewCluster.last_master_aw = None
  BY DEF Tracker!NewCluster, ClusterFields
<1>4. ASSUME NEW n \in Ours PROVE Sane(cluster[n]) /\ Timed(n, cluster[n], heeded[n], now)
  <2>1. cluster[n] = Tracker!NewCluster
    BY <1>2
  <2> QED
    BY <1>3, <2>1 DEF Sane, Timed
<1>5. DOMAIN cluster = Ours /\ DOMAIN heeded = Ours
  BY <1>2
<1> QED
  BY <1>1, <1>4, <1>5 DEF Heeding, Faithful

(* A follower relays its master's timeline: the counter of its beacon is   *)
(* its master's count of this moment, or one window behind, whenever and   *)
(* however often the master was heard, across the counter's wrap, and the  *)
(* three tags name one better master at most 33 hops away                  *)
(* (follow.rs:640-669, beacon.rs:486-504, action.rs:144-193).              *)
THEOREM Followed == Spec => []FollowerKeepsTheTimeline
<1> DEFINE J == Told(air) /\ Heeding /\ Faithful
<1>1. Init => J
  BY HeedingInit, ToldInit
<1>2. Sound /\ J /\ [Next]_vars => J'
  BY ToldStep, HeedingStep DEF Sound, Inv
<1>3. J => FollowerKeepsTheTimeline
  <2> SUFFICES ASSUME Faithful PROVE FollowerKeepsTheTimeline
    OBVIOUS
  <2> QED
    BY DEF Faithful, FollowerKeepsTheTimeline, KeepsTheTimeline
<1> HIDE DEF J
<1> QED
  BY <1>1, <1>2, <1>3, SoundAlways, PTL DEF Spec
=============================================================================
