-------------------------- MODULE DataFramesProofs --------------------------
(***************************************************************************)
(* Two sets of theorems about the data path's operators, for every value   *)
(* of their arguments.  The address rules undo each other, so a packet     *)
(* sent to the address a station derived from its MAC reaches that MAC.    *)
(* And unwrapping undoes wrapping: a frame of ours, lone, padded or in an  *)
(* aggregate, and wherever a reception cut it short, gives back the        *)
(* packets that are all there, as they were sent, and nothing else.        *)
(*                                                                         *)
(* The frames are sequences of symbols of different types, so a sequence   *)
(* is one over the set of its own symbols (IsSeq), and the lemmas on       *)
(* concatenation and pieces are stated for those.  The functions that      *)
(* DataFrames defines by recursion are shown to exist first.               *)
(***************************************************************************)
EXTENDS DataFrames, FiniteSetTheorems, SequenceTheorems, WellFoundedInduction, TLAPS

-----------------------------------------------------------------------------
(* Addresses.                                                              *)

(* Flipping the bit twice restores the octet: data.rs:386-424.             *)
LEMMA FlippedTwice ==
  ASSUME NEW o \in Octet
  PROVE  Flipped(o) \in Octet /\ Flipped(Flipped(o)) = o
BY DEF Flipped, Octet

(* An address derived from a MAC is a link-local IPv6 address, never a     *)
(* multicast one.                                                          *)
LEMMA DerivedIsLinkLocal ==
  ASSUME NEW mac \in MAC
  PROVE  /\ link_local_from_mac(mac) \in IPv6
         /\ IsLinkLocal(link_local_from_mac(mac))
         /\ ~IsMulticast(link_local_from_mac(mac))
PROOF
<1> DEFINE a == link_local_from_mac(mac)
<1>1. \A i \in 0..5 : mac[i] \in Octet
  BY DEF MAC
<1>2. Flipped(mac[0]) \in Octet
  BY <1>1, FlippedTwice
<1>3. ASSUME NEW i \in 0..15 PROVE a[i] \in Octet
  <2>1. a[i] = IF i < 8 THEN LinkLocalPrefix[i]
               ELSE IF i = 11 THEN 255
               ELSE IF i = 12 THEN 254
               ELSE IF i = 8 THEN Flipped(mac[0])
               ELSE mac[CarriedBy(i)]
    BY DEF link_local_from_mac
  <2>2. CASE i < 8
    BY <2>1, <2>2 DEF LinkLocalPrefix, Octet
  <2>3. CASE i \in {11, 12}
    BY <2>1, <2>3 DEF Octet
  <2>4. CASE i = 8
    BY <2>1, <2>4, <1>2
  <2>5. CASE i \in {9, 10, 13, 14, 15}
    <3>1. CarriedBy(i) \in 0..5
      BY <2>5 DEF CarriedBy
    <3> QED BY <2>1, <2>5, <3>1, <1>1
  <2> QED BY <2>2, <2>3, <2>4, <2>5
<1>4. a \in IPv6
  BY <1>3 DEF IPv6, link_local_from_mac
<1>5. \A i \in 0..7 : a[i] = LinkLocalPrefix[i]
  BY DEF link_local_from_mac
<1>6. a[11] = 255 /\ a[12] = 254
  BY DEF link_local_from_mac
<1>7. a[0] = 254
  BY <1>5 DEF LinkLocalPrefix
<1> QED BY <1>4, <1>5, <1>6, <1>7 DEF IsLinkLocal, IsMulticast

(* The inverse one way: the MAC comes back out of the address derived from *)
(* it, data.rs:403 ("the inverse of link_local_from_mac").                 *)
THEOREM MacComesBack ==
  ASSUME NEW mac \in MAC
  PROVE  mac_from_link_local(link_local_from_mac(mac)) = mac
PROOF
<1> DEFINE a == link_local_from_mac(mac)
           b == mac_from_link_local(a)
<1>1. IsLinkLocal(a)
  BY DerivedIsLinkLocal
<1>2. b = [i \in 0..5 |-> IF i = 0 THEN Flipped(a[8]) ELSE a[CarrierOf(i)]]
  BY <1>1 DEF mac_from_link_local
<1>3. ASSUME NEW i \in 0..5 PROVE b[i] = mac[i]
  <2>1. CASE i = 0
    <3>1. a[8] = Flipped(mac[0])
      BY DEF link_local_from_mac
    <3>2. mac[0] \in Octet
      BY DEF MAC
    <3>3. b[0] = Flipped(a[8])
      BY <1>2
    <3> QED BY <2>1, <3>1, <3>2, <3>3, FlippedTwice
  <2>2. CASE i # 0
    <3>1. CarrierOf(i) \in {9, 10, 13, 14, 15} /\ CarriedBy(CarrierOf(i)) = i
      BY <2>2 DEF CarrierOf, Carrier, CarriedBy
    <3>2. a[CarrierOf(i)] = mac[CarriedBy(CarrierOf(i))]
      BY <3>1 DEF link_local_from_mac
    <3>3. b[i] = a[CarrierOf(i)]
      BY <1>2, <2>2
    <3> QED BY <3>1, <3>2, <3>3
  <2> QED BY <2>1, <2>2
<1> QED BY <1>2, <1>3 DEF MAC

(* The inverse the other way: an address a MAC is computed from is the one *)
(* that MAC derives, so nothing is invented (data.rs:409-411).             *)
THEOREM AddressComesBack ==
  ASSUME NEW addr \in IPv6, mac_from_link_local(addr) # None
  PROVE  /\ mac_from_link_local(addr) \in MAC
         /\ link_local_from_mac(mac_from_link_local(addr)) = addr
PROOF
<1> DEFINE m == mac_from_link_local(addr)
           a == link_local_from_mac(m)
<1>1. IsLinkLocal(addr)
  BY DEF mac_from_link_local
<1>2. m = [i \in 0..5 |-> IF i = 0 THEN Flipped(addr[8]) ELSE addr[CarrierOf(i)]]
  BY <1>1 DEF mac_from_link_local
<1>3. \A i \in 0..15 : addr[i] \in Octet
  BY DEF IPv6
<1>4. \A i \in 1..5 : CarrierOf(i) \in 0..15
  BY DEF CarrierOf, Carrier
<1>5. Flipped(addr[8]) \in Octet /\ Flipped(Flipped(addr[8])) = addr[8]
  BY <1>3, FlippedTwice
<1>6. ASSUME NEW i \in 0..5 PROVE m[i] \in Octet
  <2>1. CASE i = 0
    BY <2>1, <1>2, <1>5
  <2>2. CASE i # 0
    <3>1. m[i] = addr[CarrierOf(i)] /\ i \in 1..5
      BY <2>2, <1>2
    <3> QED BY <3>1, <1>3, <1>4
  <2> QED BY <2>1, <2>2
<1>7. m \in MAC
  BY <1>2, <1>6 DEF MAC
<1>8. ASSUME NEW i \in 0..15 PROVE a[i] = addr[i]
  <2>1. CASE i < 8
    <3>1. i \in 0..7
      BY <2>1
    <3>2. a[i] = LinkLocalPrefix[i]
      BY <2>1 DEF link_local_from_mac
    <3>3. addr[i] = LinkLocalPrefix[i]
      BY <1>1, <3>1 DEF IsLinkLocal
    <3> QED BY <3>2, <3>3
  <2>2. CASE i = 8
    <3>1. a[8] = Flipped(m[0])
      BY DEF link_local_from_mac
    <3>2. m[0] = Flipped(addr[8])
      BY <1>2
    <3> QED BY <2>2, <3>1, <3>2, <1>5
  <2>3. CASE i \in {11, 12}
    BY <2>3, <1>1 DEF link_local_from_mac, IsLinkLocal
  <2>4. CASE i \in {9, 10, 13, 14, 15}
    <3>1. CarriedBy(i) \in 1..5 /\ CarrierOf(CarriedBy(i)) = i
      BY <2>4 DEF CarrierOf, Carrier, CarriedBy
    <3>2. a[i] = m[CarriedBy(i)]
      BY <2>4 DEF link_local_from_mac
    <3>3. m[CarriedBy(i)] = addr[CarrierOf(CarriedBy(i))]
      BY <1>2, <3>1
    <3> QED BY <3>1, <3>2, <3>3
  <2> QED BY <2>1, <2>2, <2>3, <2>4
<1>9. a = [i \in 0..15 |-> a[i]]
  BY DEF link_local_from_mac
<1>10. addr = [i \in 0..15 |-> addr[i]]
  BY DEF IPv6
<1>11. a = addr
  BY <1>8, <1>9, <1>10
<1> QED BY <1>7, <1>11

(* What the kernel addresses to a station goes to that station: a packet   *)
(* of at least a header's length, of version 6, whose destination is the   *)
(* address the station's interface derived from its MAC, is sent to that   *)
(* MAC (data.rs:440-446, with tun.rs:505 for the interface).               *)
THEOREM PacketsReachTheirStation ==
  ASSUME NEW mac \in MAC, NEW pkt \in [len : Nat, version : Nat, dst : IPv6],
         pkt.len >= 40, pkt.version = 6, pkt.dst = link_local_from_mac(mac)
  PROVE  dst_mac_for_ipv6(pkt) = mac
PROOF
<1>1. multicast_mac(pkt.dst) = None
  BY DerivedIsLinkLocal DEF multicast_mac
<1>2. mac_from_link_local(pkt.dst) = mac
  BY MacComesBack
<1>3. ~(pkt.len < 40 \/ pkt.version # 6)
  OBVIOUS
<1> QED BY <1>1, <1>2, <1>3 DEF dst_mac_for_ipv6

(* And only that: a packet sent to a station's MAC is addressed to that    *)
(* station or to a multicast group.                                        *)
THEOREM OnlyTheirPackets ==
  ASSUME NEW mac \in MAC, NEW pkt \in [len : Nat, version : Nat, dst : IPv6],
         dst_mac_for_ipv6(pkt) = mac
  PROVE  pkt.dst = link_local_from_mac(mac) \/ IsMulticast(pkt.dst)
PROOF
<1>1. mac # None
  BY AddressesAssumption
<1>2. pkt.dst \in IPv6
  OBVIOUS
<1>3. CASE multicast_mac(pkt.dst) # None
  BY <1>3 DEF multicast_mac
<1>4. CASE multicast_mac(pkt.dst) = None
  <2>1. mac_from_link_local(pkt.dst) = mac
    BY <1>1, <1>4 DEF dst_mac_for_ipv6
  <2> QED BY <1>1, <1>2, <2>1, AddressComesBack
<1> QED BY <1>3, <1>4

(* A multicast packet is sent to a group, and every receiver lets a frame  *)
(* for that group through: data.rs:114-116 and 427-432.                    *)
THEOREM MulticastIsForAll ==
  ASSUME NEW pkt \in [len : Nat, version : Nat, dst : IPv6],
         pkt.len >= 40, pkt.version = 6, IsMulticast(pkt.dst)
  PROVE  dst_mac_for_ipv6(pkt) \in MAC /\ is_ipv6_multicast(dst_mac_for_ipv6(pkt))
PROOF
<1> DEFINE g == multicast_mac(pkt.dst)
<1>1. g = [i \in 0..5 |-> IF i < 2 THEN 51 ELSE pkt.dst[i + 10]]
  BY DEF multicast_mac
<1>2. \A i \in 0..15 : pkt.dst[i] \in Octet
  BY DEF IPv6
<1>3. ASSUME NEW i \in 0..5 PROVE g[i] \in Octet
  <2>1. CASE i < 2
    BY <2>1, <1>1 DEF Octet
  <2>2. CASE ~(i < 2)
    <3>1. i + 10 \in 0..15 /\ g[i] = pkt.dst[i + 10]
      BY <2>2, <1>1
    <3> QED BY <3>1, <1>2
  <2> QED BY <2>1, <2>2
<1>4. g \in MAC
  BY <1>1, <1>3 DEF MAC
<1>5. g[0] = 51 /\ g[1] = 51
  BY <1>1
<1>6. dst_mac_for_ipv6(pkt) = g
  <2>1. g # None
    BY <1>4, AddressesAssumption
  <2>2. ~(pkt.len < 40 \/ pkt.version # 6)
    OBVIOUS
  <2> QED BY <2>1, <2>2 DEF dst_mac_for_ipv6
<1> QED BY <1>4, <1>5, <1>6 DEF is_ipv6_multicast


-----------------------------------------------------------------------------
(* Sequences of anything.                                                  *)
IsSeq(s) == s \in Seq({s[i] : i \in DOMAIN s})

(* A sequence over some set is one.                                        *)
LEMMA SeqIsSeq ==
  ASSUME NEW S, NEW s \in Seq(S)
  PROVE  IsSeq(s)
<1>1. DOMAIN s = 1..Len(s) /\ Len(s) \in Nat /\ s = [i \in 1..Len(s) |-> s[i]]
  BY LenProperties
<1> DEFINE R == {s[i] : i \in DOMAIN s}
<1>2. \A i \in 1..Len(s) : s[i] \in R
  BY <1>1
<1> HIDE DEF R
<1>3. s \in Seq(R)
  BY <1>1, <1>2
<1> QED
  BY <1>3 DEF IsSeq, R

(* A function over 1..n is a sequence of n.                                *)
LEMMA Listed ==
  ASSUME NEW s, NEW n \in Nat, DOMAIN s = 1..n, s = [i \in 1..n |-> s[i]]
  PROVE  IsSeq(s) /\ Len(s) = n
<1> DEFINE R == {s[i] : i \in DOMAIN s}
<1>1. \A i \in 1..n : s[i] \in R
  OBVIOUS
<1> HIDE DEF R
<1>2. s \in Seq(R) /\ Len(s) = n
  BY <1>1
<1> QED
  BY <1>2 DEF IsSeq, R

(* What a sequence looks like.                                             *)
LEMMA Shape ==
  ASSUME NEW s, IsSeq(s)
  PROVE  Len(s) \in Nat /\ DOMAIN s = 1..Len(s) /\ s = [i \in 1..Len(s) |-> s[i]]
BY LenProperties DEF IsSeq

(* Two sequences, over one set.                                            *)
LEMMA Common ==
  ASSUME NEW s, IsSeq(s), NEW t, IsSeq(t), NEW x
  PROVE  \E S : s \in Seq(S) /\ t \in Seq(S) /\ x \in S
<1> DEFINE A == {s[i] : i \in DOMAIN s}
           B == {t[i] : i \in DOMAIN t}
           S == (A \cup B) \cup {x}
<1>1. s \in Seq(A) /\ t \in Seq(B)
  BY DEF IsSeq
<1> HIDE DEF A, B
<1>2. Seq(A) \subseteq Seq(S) /\ Seq(B) \subseteq Seq(S)
  OBVIOUS
<1>3. s \in Seq(S) /\ t \in Seq(S) /\ x \in S
  BY <1>1, <1>2
<1> QED
  BY <1>3

(* r is s followed by t.                                                   *)
IsJoin(r, s, t) ==
  /\ IsSeq(r) /\ Len(r) = Len(s) + Len(t)
  /\ \A i \in 1..Len(s) : r[i] = s[i]
  /\ \A i \in 1..Len(t) : r[Len(s) + i] = t[i]

(* What follows what in a concatenation.                                   *)
LEMMA Joined ==
  ASSUME NEW s, IsSeq(s), NEW t, IsSeq(t)
  PROVE  IsJoin(s \o t, s, t)
<1>1. PICK S : s \in Seq(S) /\ t \in Seq(S)
  BY Common
<1>2. /\ s \o t \in Seq(S) /\ Len(s \o t) = Len(s) + Len(t)
      /\ \A i \in 1..(Len(s) + Len(t)) :
            (s \o t)[i] = IF i <= Len(s) THEN s[i] ELSE t[i - Len(s)]
  BY <1>1, ConcatProperties
<1>3. Len(s) \in Nat /\ Len(t) \in Nat
  BY <1>1
<1>4. IsSeq(s \o t)
  BY <1>2, SeqIsSeq
<1>5. ASSUME NEW i \in 1..Len(s) PROVE (s \o t)[i] = s[i]
  BY <1>2, <1>3
<1>6. ASSUME NEW i \in 1..Len(t) PROVE (s \o t)[Len(s) + i] = t[i]
  <2>1. Len(s) + i \in 1..(Len(s) + Len(t)) /\ ~(Len(s) + i <= Len(s)) /\ (Len(s) + i) - Len(s) = i
    BY <1>3
  <2> QED
    BY <1>2, <2>1
<1> QED
  BY <1>2, <1>4, <1>5, <1>6 DEF IsJoin

(* One symbol more.                                                        *)
LEMMA Appended ==
  ASSUME NEW s, IsSeq(s), NEW x
  PROVE  /\ IsSeq(Append(s, x)) /\ Len(Append(s, x)) = Len(s) + 1
         /\ \A i \in 1..Len(s) : Append(s, x)[i] = s[i]
         /\ Append(s, x)[Len(s) + 1] = x
<1>1. PICK S : s \in Seq(S) /\ x \in S
  BY Common
<1>2. /\ Append(s, x) \in Seq(S) /\ Len(Append(s, x)) = Len(s) + 1
      /\ \A i \in 1..Len(s) : Append(s, x)[i] = s[i]
      /\ Append(s, x)[Len(s) + 1] = x
  BY <1>1, AppendProperties
<1> QED
  BY <1>2, SeqIsSeq

(* A piece.                                                                *)
IsPiece(r, s, a, b) ==
  /\ IsSeq(r) /\ Len(r) = IF a <= b THEN (b - a) + 1 ELSE 0
  /\ \A i \in 1..((b - a) + 1) : r[i] = s[(a - 1) + i]

(* SubSeq, within the sequence.                                            *)
LEMMA Piece ==
  ASSUME NEW s, IsSeq(s), NEW a \in Nat \ {0}, NEW b \in Nat, b <= Len(s)
  PROVE  IsPiece(SubSeq(s, a, b), s, a, b)
<1>1. PICK S : s \in Seq(S)
  BY Common
<1>2. Len(s) \in Nat
  BY <1>1
<1>3. \A i \in a..b : s[i] \in S
  BY <1>1, <1>2
<1>4. a \in Int /\ b \in Int
  OBVIOUS
<1>5. /\ SubSeq(s, a, b) \in Seq(S)
      /\ Len(SubSeq(s, a, b)) = IF a <= b THEN (b - a) + 1 ELSE 0
      /\ \A i \in 1..((b - a) + 1) : SubSeq(s, a, b)[i] = s[(a + i) - 1]
  BY <1>3, <1>4, SubSeqProperties
<1>6. \A i \in Int : (a + i) - 1 = (a - 1) + i
  OBVIOUS
<1>7. IsSeq(SubSeq(s, a, b))
  BY <1>5, SeqIsSeq
<1> QED
  BY <1>5, <1>6, <1>7 DEF IsPiece

(* What follows i symbols; nothing follows the last.                       *)
IsRest(r, s, i) ==
  /\ IsSeq(r) /\ Len(r) = IF i <= Len(s) THEN Len(s) - i ELSE 0
  /\ \A j \in 1..(Len(s) - i) : r[j] = s[i + j]

(* b.get(from..): what is left after i symbols.                            *)
LEMMA Rest ==
  ASSUME NEW s, IsSeq(s), NEW i \in Nat
  PROVE  IsRest(From(s, i), s, i)
<1>1. Len(s) \in Nat /\ i + 1 \in Nat \ {0} /\ Len(s) <= Len(s)
  BY Shape
<1> DEFINE n == Len(s)
           a == i + 1
<1>2. IsPiece(SubSeq(s, a, n), s, a, n)
  BY <1>1, Piece
<1>3. From(s, i) = SubSeq(s, a, n)
  BY DEF From
<1>4. IsPiece(From(s, i), s, a, n)
  BY <1>2, <1>3
<1>5. (n - a) + 1 = n - i /\ a - 1 = i /\ (a <= n <=> i < n) /\ n \in Nat
  BY <1>1
<1> HIDE DEF n, a
<1>6. Len(From(s, i)) = IF i <= n THEN n - i ELSE 0
  BY <1>4, <1>5 DEF IsPiece
<1> QED
  BY <1>4, <1>5, <1>6 DEF IsPiece, IsRest, n

(* Sequences with the same symbols are the same.                           *)
LEMMA Same ==
  ASSUME NEW s, IsSeq(s), NEW t, IsSeq(t), Len(s) = Len(t), \A i \in 1..Len(s) : s[i] = t[i]
  PROVE  s = t
BY Shape

(* A set of numbers has a least one.                                       *)
LEMMA Least ==
  ASSUME NEW T \in SUBSET Nat, T # {}
  PROVE  \E n \in T : \A k \in T : n <= k
<1> DEFINE R == OpToRel(<, Nat)
<1>1. IsWellFoundedOn(R, Nat)
  BY NatLessThanWellFounded
<1>2. \A x, y \in Nat : y < x => <<y, x>> \in R
  BY DEF OpToRel
<1> HIDE DEF R
<1>3. PICK n \in T : \A k \in T : ~(<<k, n>> \in R)
  BY <1>1, WFMin
<1>4. \A k \in T : ~(k < n)
  BY <1>2, <1>3, Zenon
<1>5. \A k \in T : n <= k
  BY <1>4
<1> QED
  BY <1>5

(* The chain of subframes exists: each is put behind the one before.       *)
LEMMA ChainGrows ==
  ASSUME NEW T, NEW N \in Nat \ {0}
  PROVE  \E f : f = [n \in 1..N |-> IF n = 1 THEN T[1] ELSE UpToBoundary(f[n - 1]) \o T[n]]
<1> DEFINE Is(f, m) == f = [n \in 1..m |-> IF n = 1 THEN T[1] ELSE UpToBoundary(f[n - 1]) \o T[n]]
           Bad == {m \in 1..N : ~\E f : Is(f, m)}
<1>10. \A m \in 1..N : m \notin Bad <=> \E f : Is(f, m)
  BY Zenon
<1>0. Bad \subseteq 1..N
  BY Zenon
<1> HIDE DEF Is, Bad
<1>1. CASE Bad = {}
  <2>1. N \in 1..N /\ N \notin Bad
    BY <1>1
  <2>2. PICK f : Is(f, N)
    BY <1>10, <2>1
  <2> QED
    BY <2>2 DEF Is
<1>2. CASE Bad # {}
  <2>0. Bad \in SUBSET Nat
    BY <1>0
  <2>1. PICK m \in Bad : \A k \in Bad : m <= k
    BY <1>2, <2>0, Least
  <2>2. CASE m = 1
    <3>1. Is([n \in 1..1 |-> T[1]], 1)
      BY DEF Is
    <3> QED
      BY <1>10, <1>0, <2>1, <2>2, <3>1
  <2>3. CASE m # 1
    <3>1. m \in 2..N /\ m - 1 \in 1..N /\ m - 1 \notin Bad
      BY <1>0, <2>1, <2>3
    <3>2. PICK g : Is(g, m - 1)
      BY <1>10, <3>1
    <3> DEFINE x == UpToBoundary(g[m - 1]) \o T[m]
               f == [n \in 1..m |-> IF n = m THEN x ELSE g[n]]
    <3>3. \A n \in 1..(m - 1) : g[n] = IF n = 1 THEN T[1] ELSE UpToBoundary(g[n - 1]) \o T[n]
      BY <3>2 DEF Is
    <3> HIDE DEF x
    <3>4. ASSUME NEW n \in 1..m
          PROVE  f[n] = IF n = 1 THEN T[1] ELSE UpToBoundary(f[n - 1]) \o T[n]
      <4>1. CASE n = m
        <5>1. f[m - 1] = g[m - 1] /\ f[m] = x
          BY <3>1
        <5> QED
          BY <4>1, <5>1, <2>3 DEF x
      <4>2. CASE n # m /\ n # 1
        <5>1. f[n - 1] = g[n - 1] /\ f[n] = g[n]
          BY <4>2, <3>1
        <5>2. n \in 1..(m - 1)
          BY <4>2, <3>1
        <5> QED
          BY <4>2, <5>1, <5>2, <3>3
      <4>3. CASE n # m /\ n = 1
        BY <4>3, <3>3, <3>1
      <4> QED
        BY <4>1, <4>2, <4>3
    <3>5. Is(f, m)
      BY <3>4 DEF Is
    <3> QED
      BY <1>10, <3>1, <2>1, <3>5
  <2> QED
    BY <2>2, <2>3
<1> QED
  BY <1>1, <1>2

(* A walk over 0..M: it stops in stop, and elsewhere takes an item, moves. *)
IsRun(w, M, stop, item, next) ==
  w = [at \in 0..M |-> IF at \in stop THEN <<>> ELSE item[at] \o w[next[at]]]

(* A walk that moves on at every step exists: from its end backwards.      *)
LEMMA Walks ==
  ASSUME NEW M \in Nat, NEW stop, NEW item, NEW next,
         \A at \in 0..M : ~(at \in stop) => next[at] \in (at + 1)..M
  PROVE  \E w : IsRun(w, M, stop, item, next)
<1> DEFINE Is(w, k) == w = [at \in (M - k)..M |-> IF at \in stop THEN <<>> ELSE item[at] \o w[next[at]]]
           Bad == {k \in 0..M : ~\E w : Is(w, k)}
<1>10. \A k \in 0..M : k \notin Bad <=> \E w : Is(w, k)
  BY Zenon
<1>0. Bad \subseteq 0..M
  BY Zenon
<1> HIDE DEF Is, Bad
<1>1. CASE Bad = {}
  <2>1. M \in 0..M /\ M - M = 0 /\ M \notin Bad
    BY <1>1
  <2>2. PICK w : Is(w, M)
    BY <1>10, <2>1
  <2> QED
    BY <2>1, <2>2 DEF Is, IsRun
<1>2. CASE Bad # {}
  <2>0. Bad \in SUBSET Nat
    BY <1>0
  <2>1. PICK k \in Bad : \A j \in Bad : k <= j
    BY <1>2, <2>0, Least
  <2>2. k \in 0..M
    BY <1>0
  <2>3. \E g : (k > 0 => Is(g, k - 1))
    <3>1. k > 0 => (k - 1) \in 0..M /\ (k - 1) \notin Bad
      BY <2>1, <2>2
    <3> QED
      BY <1>10, <3>1
  <2>4. PICK g : k > 0 => Is(g, k - 1)
    BY <2>3
  <2> DEFINE x == IF (M - k) \in stop THEN <<>> ELSE item[M - k] \o g[next[M - k]]
             w == [at \in (M - k)..M |-> IF at = M - k THEN x ELSE g[at]]
  <2>5. ASSUME NEW at \in (M - k)..M, at # M - k
        PROVE  /\ k > 0 /\ at \in (M - (k - 1))..M
               /\ g[at] = IF at \in stop THEN <<>> ELSE item[at] \o g[next[at]]
    <3>1. k > 0 /\ at \in (M - (k - 1))..M
      BY <2>2, <2>5
    <3>2. Is(g, k - 1)
      BY <2>4, <3>1
    <3> QED
      BY <3>1, <3>2 DEF Is
  <2> HIDE DEF x
  <2>6. ASSUME NEW at \in (M - k)..M, at \notin stop
        PROVE  w[next[at]] = g[next[at]]
    <3>1. at \in 0..M
      BY <2>2
    <3>2. next[at] \in (at + 1)..M
      BY <2>6, <3>1
    <3>3. next[at] \in (M - k)..M /\ next[at] # M - k
      BY <3>2, <3>1, <2>2
    <3> QED
      BY <3>3
  <2>7. ASSUME NEW at \in (M - k)..M
        PROVE  w[at] = IF at \in stop THEN <<>> ELSE item[at] \o w[next[at]]
    <3>1. CASE at = M - k
      BY <3>1, <2>6 DEF x
    <3>2. CASE at # M - k
      BY <3>2, <2>5, <2>6
    <3> QED
      BY <3>1, <3>2
  <2>8. Is(w, k)
    BY <2>7 DEF Is
  <2> QED
    BY <1>10, <2>1, <2>2, <2>8
<1> QED
  BY <1>1, <1>2

(* An aggregate is its head and such a chain.                              *)
LEMMA ChainIs ==
  ASSUME NEW frames, NEW present, Len(frames) \in Nat \ {0}
  PROVE  \E chain :
    /\ chain = [n \in 1..Len(frames) |-> IF n = 1 THEN Subframe(frames[1], present)
                    ELSE UpToBoundary(chain[n - 1]) \o Subframe(frames[n], present)]
    /\ Aggregate(frames, present) =
         [SubSeq(frames[1], 1, QOS_HEADER_LEN) EXCEPT ![6] = QosControl(present)] \o chain[Len(frames)]
<1> DEFINE N == Len(frames)
           T == [n \in 1..N |-> Subframe(frames[n], present)]
           chain[n \in 1..Len(frames)] ==
             IF n = 1 THEN Subframe(frames[1], present)
             ELSE UpToBoundary(chain[n - 1]) \o Subframe(frames[n], present)
<1>1. PICK f : f = [n \in 1..N |-> IF n = 1 THEN T[1] ELSE UpToBoundary(f[n - 1]) \o T[n]]
  BY ChainGrows
<1>2. f = [n \in 1..N |-> IF n = 1 THEN Subframe(frames[1], present)
                    ELSE UpToBoundary(f[n - 1]) \o Subframe(frames[n], present)]
  BY <1>1
<1>3. chain = [n \in 1..N |-> IF n = 1 THEN Subframe(frames[1], present)
                    ELSE UpToBoundary(chain[n - 1]) \o Subframe(frames[n], present)]
  BY <1>2
<1>4. Aggregate(frames, present) =
         [SubSeq(frames[1], 1, QOS_HEADER_LEN) EXCEPT ![6] = QosControl(present)] \o chain[Len(frames)]
  BY DEF Aggregate
<1> QED
  BY <1>3, <1>4

-----------------------------------------------------------------------------
(* A frame of ours, symbol by symbol.                                      *)
Symbol(i, awdl) ==
  CASE i = 1 -> SNAP_AWDL [] i = 2 -> DATA_HEADER_PREFIX [] i = 3 -> <<"awdl", awdl>>
    [] i = 4 -> <<"tag", 0, 0>> [] i = 5 -> ETHERTYPE_IPV6

(* The symbols behind the header, from the signature on.                   *)
Contents(b, awdl, packet) ==
  /\ IsSeq(b) /\ Len(b) <= 5 + Len(packet)
  /\ \A i \in 1..Len(b) : b[i] = IF i <= 5 THEN Symbol(i, awdl) ELSE packet[i - 5]

(* f is a frame from one station to another around packet.                 *)
Wraps(f, to, from, awdl, packet) ==
  /\ IsSeq(f) /\ Len(f) = 11 + Len(packet)
  /\ DOMAIN f[1] = 1..5 /\ f[1][1] = "fc" /\ f[1][2] = 0 /\ f[1][3] = 2 /\ f[1][4] = 8
  /\ f[2] = Address(to) /\ f[3] = Address(from) /\ f[6] = QosControl(FALSE)
  /\ \A i \in 7..Len(f) : f[i] = IF i <= 11 THEN Symbol(i - 6, awdl) ELSE packet[i - 11]

(* A signature is told from a filler, a prefix and an address.             *)
LEMMA SymbolsDiffer ==
  /\ Filler # SNAP_AWDL /\ DATA_HEADER_PREFIX # SNAP_AWDL
  /\ \A x : Address(x) # SNAP_AWDL /\ Address(x) # Filler
<1>1. SNAP_AWDL[1] = "snap" /\ Filler[1] = "filler" /\ DATA_HEADER_PREFIX[1] = "prefix"
  BY DEF SNAP_AWDL, Filler, DATA_HEADER_PREFIX
<1>2. \A x : Address(x)[1] = "address"
  BY DEF Address
<1> QED
  BY <1>1, <1>2

(* A frame of ours, as encapsulate makes it (data.rs:138-171).             *)
LEMMA FrameWraps ==
  ASSUME NEW to, NEW from, NEW d11, NEW awdl, NEW packet, IsSeq(packet)
  PROVE  /\ Wraps(FrameOf(from, to, d11, awdl, packet), to, from, awdl, packet)
         /\ FrameOf(from, to, d11, awdl, packet)[1] = FC_QOS_DATA
         /\ FrameOf(from, to, d11, awdl, packet)[5] = SequenceControl(d11)
<1> DEFINE header == <<FC_QOS_DATA, Address(to), Address(from), Address(AWDL_BSSID),
                       SequenceControl(d11), QosControl(FALSE), SNAP_AWDL>>
           short == short_header(awdl, ETHERTYPE_IPV6)
           f == FrameOf(from, to, d11, awdl, packet)
<1>1. f = (header \o short) \o packet
  BY DEF FrameOf
<1>2. DOMAIN header = 1..7 /\ header = [i \in 1..7 |-> header[i]]
  OBVIOUS
<1>3. DOMAIN short = 1..4 /\ short = [i \in 1..4 |-> short[i]]
  BY DEF short_header
<1>4. /\ header[1] = FC_QOS_DATA /\ header[2] = Address(to) /\ header[3] = Address(from)
      /\ header[5] = SequenceControl(d11) /\ header[6] = QosControl(FALSE) /\ header[7] = SNAP_AWDL
  OBVIOUS
<1>5. /\ short[1] = DATA_HEADER_PREFIX /\ short[2] = <<"awdl", awdl>>
      /\ short[3] = <<"tag", 0, 0>> /\ short[4] = ETHERTYPE_IPV6
  BY DEF short_header
<1> HIDE DEF header, short
<1>6. IsSeq(header) /\ Len(header) = 7 /\ IsSeq(short) /\ Len(short) = 4
  BY <1>2, <1>3, Listed
<1> DEFINE hs == header \o short
<1>71. IsJoin(hs, header, short)
  BY <1>6, Joined
<1> HIDE DEF hs
<1>7. /\ IsSeq(hs) /\ Len(hs) = 11
      /\ \A i \in 1..7 : hs[i] = header[i]
      /\ \A i \in 1..4 : hs[7 + i] = short[i]
  BY <1>71, <1>6 DEF IsJoin
<1>81. IsJoin(f, hs, packet)
  BY <1>1, <1>7, Joined DEF hs
<1> HIDE DEF f
<1>8. /\ IsSeq(f) /\ Len(f) = 11 + Len(packet)
      /\ \A i \in 1..11 : f[i] = hs[i]
      /\ \A i \in 1..Len(packet) : f[11 + i] = packet[i]
  BY <1>81, <1>7 DEF IsJoin
<1>9. /\ f[1] = FC_QOS_DATA /\ f[2] = Address(to) /\ f[3] = Address(from)
      /\ f[5] = SequenceControl(d11) /\ f[6] = QosControl(FALSE) /\ f[7] = SNAP_AWDL
  <2>1. /\ hs[1] = header[1] /\ hs[2] = header[2] /\ hs[3] = header[3]
        /\ hs[5] = header[5] /\ hs[6] = header[6] /\ hs[7] = header[7]
    BY <1>7
  <2>2. /\ f[1] = hs[1] /\ f[2] = hs[2] /\ f[3] = hs[3]
        /\ f[5] = hs[5] /\ f[6] = hs[6] /\ f[7] = hs[7]
    BY <1>8
  <2> QED
    BY <1>4, <2>1, <2>2
<1>10. /\ f[8] = DATA_HEADER_PREFIX /\ f[9] = <<"awdl", awdl>>
       /\ f[10] = <<"tag", 0, 0>> /\ f[11] = ETHERTYPE_IPV6
  <2>1. hs[7 + 1] = short[1] /\ hs[7 + 2] = short[2] /\ hs[7 + 3] = short[3] /\ hs[7 + 4] = short[4]
    BY <1>7
  <2> QED
    BY <1>5, <1>8, <2>1
<1>11. Len(packet) \in Nat
  BY Shape
<1>12. ASSUME NEW i \in 7..Len(f)
       PROVE  f[i] = IF i <= 11 THEN Symbol(i - 6, awdl) ELSE packet[i - 11]
  <2>1. CASE i \in 7..11
    BY <2>1, <1>9, <1>10 DEF Symbol
  <2>2. CASE i > 11
    <3>1. i - 11 \in 1..Len(packet) /\ 11 + (i - 11) = i
      BY <2>2, <1>8, <1>11
    <3> QED
      BY <3>1, <2>2, <1>8
  <2> QED
    BY <2>1, <2>2, <1>8, <1>11
<1>13. /\ DOMAIN FC_QOS_DATA = 1..5 /\ FC_QOS_DATA[1] = "fc" /\ FC_QOS_DATA[2] = 0
       /\ FC_QOS_DATA[3] = 2 /\ FC_QOS_DATA[4] = 8
  BY DEF FC_QOS_DATA, Fc
<1> QED
  BY <1>8, <1>9, <1>12, <1>13 DEF Wraps, f

(* The repeat of a frame is a frame of the same packet.                    *)
LEMMA RetryWraps ==
  ASSUME NEW f, NEW to, NEW from, NEW awdl, NEW packet, IsSeq(packet),
         Wraps(f, to, from, awdl, packet)
  PROVE  /\ Wraps(Retried(f), to, from, awdl, packet) /\ Retried(f)[5] = f[5]
         /\ Retried(f)[1] = [f[1] EXCEPT ![5] = TRUE]
<1>1. Len(packet) \in Nat
  BY Shape
<1>2. IsSeq(f) /\ Len(f) = 11 + Len(packet)
  BY DEF Wraps
<1>3. DOMAIN f = 1..Len(f) /\ f = [i \in 1..Len(f) |-> f[i]] /\ Len(f) \in Nat
  BY <1>2, Shape
<1> DEFINE g == Retried(f)
<1>4. g = [f EXCEPT ![1] = [f[1] EXCEPT ![5] = TRUE]]
  BY DEF Retried
<1>5. DOMAIN g = 1..Len(f) /\ g = [i \in 1..Len(f) |-> g[i]]
  BY <1>3, <1>4
<1>6. IsSeq(g) /\ Len(g) = Len(f)
  BY <1>3, <1>5, Listed
<1>7. g[1] = [f[1] EXCEPT ![5] = TRUE] /\ \A i \in 2..Len(f) : g[i] = f[i]
  <2>1. 1 \in DOMAIN f
    BY <1>1, <1>2, <1>3
  <2> QED
    BY <1>3, <1>4, <2>1
<1>8. DOMAIN g[1] = 1..5 /\ g[1][1] = "fc" /\ g[1][2] = 0 /\ g[1][3] = 2 /\ g[1][4] = 8
  BY <1>7 DEF Wraps
<1> HIDE DEF g
<1>9. g[2] = f[2] /\ g[3] = f[3] /\ g[5] = f[5] /\ g[6] = f[6]
  BY <1>1, <1>2, <1>7
<1>10. \A i \in 7..Len(f) : g[i] = f[i]
  BY <1>1, <1>2, <1>7
<1>11. Wraps(g, to, from, awdl, packet)
  BY <1>2, <1>6, <1>8, <1>9, <1>10 DEF Wraps
<1> QED
  BY <1>7, <1>9, <1>11 DEF g

-----------------------------------------------------------------------------
(* One reads the packet behind a signature and a short header.             *)
LEMMA OneOfContents ==
  ASSUME NEW b, NEW awdl, NEW packet, IsSeq(packet), Contents(b, awdl, packet),
         NEW dst, NEW src, None \notin Nat
  PROVE  One(dst, src, b) =
           IF Len(b) >= 5
           THEN <<[dst |-> dst, src |-> src, sequence |-> awdl,
                   payload |-> SubSeq(packet, 1, Len(b) - 5)]>>
           ELSE <<>>
<1>1. Len(packet) \in Nat /\ Len(b) \in Nat /\ IsSeq(b) /\ Len(b) <= 5 + Len(packet)
  BY Shape DEF Contents
<1> DEFINE inner == From(b, 1)
<1>2. CASE Len(b) = 0
  <2>1. ~Has(b, 0)
    BY <1>2 DEF Has
  <2> QED
    BY <1>2, <2>1 DEF One
<1>3. CASE Len(b) > 0
  <2>1. /\ IsSeq(inner) /\ Len(inner) = Len(b) - 1
        /\ \A i \in 1..(Len(b) - 1) : inner[i] = b[i + 1]
    <3>1. IsRest(inner, b, 1)
      BY <1>1, Rest
    <3> HIDE DEF inner
    <3> QED
      BY <1>1, <1>3, <3>1 DEF IsRest
  <2>2. Has(b, 0) /\ b[1] = SNAP_AWDL
    BY <1>1, <1>3 DEF Has, Contents, Symbol
  <2>3. CASE Len(b) < 5
    <3>1. ~Has(inner, 2) \/ (Has(inner, 2) /\ ~Has(inner, 3))
      BY <2>1, <2>3, <1>1 DEF Has
    <3>2. PayloadOffset(inner) = None
      <4>1. CASE ~Has(inner, 2)
        BY <4>1 DEF PayloadOffset
      <4>2. CASE Has(inner, 2) /\ ~Has(inner, 3)
        <5>1. Len(b) = 4
          BY <4>2, <2>1, <2>3, <1>1 DEF Has
        <5>2. inner[3] = <<"tag", 0, 0>>
          BY <5>1, <2>1 DEF Contents, Symbol
        <5>3. inner[3][2] # LONG_FORM
          BY <5>2 DEF LONG_FORM
        <5> QED
          BY <4>2, <5>3 DEF PayloadOffset
      <4> QED
        BY <3>1, <4>1, <4>2
    <3> QED
      BY <2>3, <3>2, <1>1 DEF One
  <2>4. CASE Len(b) >= 5
    <3>1. /\ inner[2] = <<"awdl", awdl>> /\ inner[3] = <<"tag", 0, 0>>
      <4>1. inner[2] = b[3] /\ inner[3] = b[4]
        BY <2>4, <2>1, <1>1
      <4>2. b[3] = Symbol(3, awdl) /\ b[4] = Symbol(4, awdl)
        BY <2>4, <1>1 DEF Contents
      <4> QED
        BY <4>1, <4>2 DEF Symbol
    <3>2. inner[3][2] # LONG_FORM
      BY <3>1 DEF LONG_FORM
    <3>3. Has(inner, 2) /\ Has(inner, 3)
      BY <2>1, <2>4, <1>1 DEF Has
    <3>4. PayloadOffset(inner) = 4
      BY <3>2, <3>3 DEF PayloadOffset
    <3>5. From(inner, 4) = SubSeq(packet, 1, Len(b) - 5)
      <4> DEFINE x == From(inner, 4)
                 y == SubSeq(packet, 1, Len(b) - 5)
                 k == Len(b) - 5
      <4>1. IsSeq(inner)
        BY <2>1
      <4> HIDE DEF inner
      <4>2. IsRest(x, inner, 4)
        BY <4>1, Rest
      <4>3. IsPiece(y, packet, 1, k)
        <5>1. k \in Nat /\ k <= Len(packet)
          BY <2>4, <1>1
        <5> QED
          BY <5>1, Piece
      <4> HIDE DEF x, y, k, inner
      <4>40. k = Len(b) - 5
        BY DEF k
      <4>4. Len(x) = k /\ Len(y) = k
        BY <4>2, <4>3, <4>40, <2>1, <2>4, <1>1 DEF IsPiece, IsRest
      <4>5. ASSUME NEW i \in 1..k PROVE x[i] = y[i]
        <5>1. x[i] = inner[4 + i] /\ y[i] = packet[i]
          BY <4>2, <4>3, <4>40, <2>1, <2>4, <1>1 DEF IsPiece, IsRest
        <5>2. inner[4 + i] = b[5 + i]
          BY <2>1, <2>4, <4>40, <1>1
        <5>3. b[5 + i] = packet[(5 + i) - 5]
          <6>1. 5 + i \in 1..Len(b) /\ ~(5 + i <= 5)
            BY <2>4, <4>40, <1>1
          <6> QED
            BY <6>1 DEF Contents
        <5> QED
          BY <5>1, <5>2, <5>3
      <4>6. IsSeq(x) /\ IsSeq(y)
        BY <4>2, <4>3 DEF IsPiece, IsRest
      <4>7. x = y
        BY <4>4, <4>5, <4>6, Same
      <4> QED
        BY <4>7 DEF x, y
    <3>6. PayloadOffset(inner) # None
      BY <3>4
    <3>7. inner[2][2] = awdl
      BY <3>1
    <3> QED
      BY <2>2, <2>4, <3>4, <3>5, <3>6, <3>7 DEF One
  <2> QED
    BY <1>1, <2>3, <2>4
<1> QED
  BY <1>1, <1>2, <1>3

(* What does not begin with the signature carries no packet.               *)
LEMMA OneOfOthers ==
  ASSUME NEW b, NEW dst, NEW src, Len(b) \in Nat, Len(b) > 0 => b[1] # SNAP_AWDL
  PROVE  One(dst, src, b) = <<>>
BY DEF One, Has

-----------------------------------------------------------------------------
(* decapsulate_all by the header of what it is given.                      *)
Headed(b, to, from, marked) ==
  /\ IsSeq(b)
  /\ Len(b) > 0 => b[1][1] = "fc" /\ b[1][2] = 0 /\ b[1][3] = 2 /\ b[1][4] = 8
  /\ Len(b) > 5 => b[2] = Address(to) /\ b[3] = Address(from) /\ b[6] = QosControl(marked)

(* The branches of decapsulate_all for a frame with this header.           *)
LEMMA DecapsulateByHeader ==
  ASSUME None \notin Nat, NEW b, NEW to, NEW from, NEW marked \in BOOLEAN, Headed(b, to, from, marked)
  PROVE  decapsulate_all(b) =
           IF Len(b) < 6 THEN <<>>
           ELSE IF \/ marked
                   \/ /\ Len(From(b, 6)) >= 2
                      /\ From(b, 6)[1] = Address(to) /\ From(b, 6)[2] = Address(from)
                THEN Subframes(From(b, 6))
                ELSE OneEither(to, from, From(b, 6))
<1>1. IsSeq(b) /\ Len(b) \in Nat
  BY Shape DEF Headed
<1>2. CASE Len(b) = 0
  <2>1. ~IsData(b)
    BY <1>2 DEF IsData, TypeOf, IsFc, Has
  <2> QED
    BY <1>2, <2>1 DEF decapsulate_all
<1>3. CASE Len(b) > 0
  <2>1. IsData(b) /\ HasQos(b)
    BY <1>1, <1>3 DEF Headed, IsData, TypeOf, IsFc, Has, HasQos
  <2>2. CASE Len(b) < 6
    BY <2>1, <2>2 DEF decapsulate_all, QOS_HEADER_LEN
  <2>3. CASE ~(Len(b) < 6)
    <3> DEFINE body == From(b, 6)
    <3>1. b[2] = Address(to) /\ b[3] = Address(from) /\ b[6] = QosControl(marked)
      BY <1>1, <2>3 DEF Headed
    <3>2. b[6][3] = marked /\ b[2][2] = to /\ b[3][2] = from
      BY <3>1 DEF QosControl, Address
    <3>3. Len(body) \in Nat
      <4>1. IsRest(body, b, 6)
        BY <1>1, Rest
      <4> QED
        BY <4>1, Shape DEF IsRest
    <3>4. decapsulate_all(b) = IF IsAggregate(b, body) THEN Subframes(body) ELSE OneEither(to, from, body)
      BY <2>1, <2>3, <3>2 DEF decapsulate_all, QOS_HEADER_LEN
    <3> HIDE DEF body
    <3>5. IsMarked(b, body) <=> marked
      BY <2>1, <3>2 DEF IsMarked, QOS_HEADER_LEN
    <3>6. Has(body, 1) <=> Len(body) >= 2
      BY <3>3 DEF Has
    <3>7. IsAggregate(b, body) <=> \/ marked
                                   \/ /\ Len(body) >= 2
                                      /\ body[1] = Address(to) /\ body[2] = Address(from)
      BY <3>1, <3>5, <3>6 DEF IsAggregate
    <3> QED
      BY <2>3, <3>4, <3>7 DEF body
  <2> QED
    BY <2>2, <2>3
<1> QED
  BY <1>1, <1>2, <1>3

(* The start of a frame has its header, as far as it goes.                 *)
LEMMA StartIsHeaded ==
  ASSUME NEW g, IsSeq(g), NEW to, NEW from, NEW marked, NEW c \in 0..Len(g),
         Headed(g, to, from, marked)
  PROVE  Headed(SubSeq(g, 1, c), to, from, marked) /\ IsPiece(SubSeq(g, 1, c), g, 1, c)
         /\ Len(SubSeq(g, 1, c)) = c
<1> DEFINE b == SubSeq(g, 1, c)
<1>0. Len(g) \in Nat /\ c \in Nat /\ c <= Len(g) /\ 1 \in Nat \ {0}
  BY Shape
<1>1. IsPiece(b, g, 1, c)
  BY <1>0, Piece
<1> HIDE DEF b
<1>2. IsSeq(b) /\ Len(b) = c /\ \A i \in 1..c : b[i] = g[i]
  BY <1>0, <1>1 DEF IsPiece
<1>3. Len(b) > 0 => b[1] = g[1]
  BY <1>2
<1>4. Len(b) > 5 => b[2] = g[2] /\ b[3] = g[3] /\ b[6] = g[6]
  BY <1>0, <1>2
<1>5. Headed(b, to, from, marked)
  BY <1>0, <1>2, <1>3, <1>4 DEF Headed
<1> QED
  BY <1>1, <1>2, <1>5 DEF b

(* The packet decapsulate_all takes from it, n symbols of it.              *)
Taken(to, from, awdl, packet, n) ==
  [dst |-> to, src |-> from, sequence |-> awdl, payload |-> SubSeq(packet, 1, n)]

(* The signature is found where the body starts (data.rs:216).             *)
LEMMA EitherOfContents ==
  ASSUME None \notin Nat, NEW b, NEW awdl, NEW packet, IsSeq(packet), Contents(b, awdl, packet),
         NEW to, NEW from
  PROVE  OneEither(to, from, b) =
           IF Len(b) >= 5 THEN <<Taken(to, from, awdl, packet, Len(b) - 5)>> ELSE <<>>
<1>1. Len(packet) \in Nat /\ Len(b) \in Nat /\ IsSeq(b) /\ Len(b) <= 5 + Len(packet)
  BY Shape DEF Contents
<1>2. One(to, from, b) =
           IF Len(b) >= 5 THEN <<Taken(to, from, awdl, packet, Len(b) - 5)>> ELSE <<>>
  BY OneOfContents DEF Taken
<1>3. CASE Len(b) >= 5
  BY <1>2, <1>3 DEF OneEither
<1>4. CASE Len(b) < 5
  <2> DEFINE r == From(b, 1)
  <2>1. IsRest(r, b, 1)
    BY <1>1, Rest
  <2> HIDE DEF r
  <2>2. Len(r) \in Nat
    BY <2>1, Shape DEF IsRest
  <2>3. Len(r) > 0 => r[1] # SNAP_AWDL
    <3> SUFFICES ASSUME Len(r) > 0 PROVE r[1] # SNAP_AWDL
      OBVIOUS
    <3>1. Len(b) > 1 /\ r[1] = b[2]
      BY <1>1, <2>1 DEF IsRest
    <3>2. b[2] = Symbol(2, awdl)
      BY <1>1, <3>1 DEF Contents
    <3> QED
      BY <3>1, <3>2, SymbolsDiffer DEF Symbol
  <2>4. One(to, from, r) = <<>>
    BY <2>2, <2>3, OneOfOthers
  <2> QED
    BY <1>2, <1>4, <2>4, <1>1 DEF OneEither, r
<1> QED
  BY <1>1, <1>3, <1>4

(* The same behind two octets of filler.                                   *)
LEMMA EitherOfFilled ==
  ASSUME None \notin Nat, NEW b, NEW awdl, NEW packet, IsSeq(packet), IsSeq(b),
         Len(b) > 0 => b[1] = Filler, Contents(From(b, 1), awdl, packet),
         NEW to, NEW from
  PROVE  OneEither(to, from, b) =
           IF Len(b) >= 6 THEN <<Taken(to, from, awdl, packet, Len(b) - 6)>> ELSE <<>>
<1> DEFINE r == From(b, 1)
<1>1. Len(b) \in Nat
  BY Shape
<1>2. One(to, from, b) = <<>>
  BY <1>1, OneOfOthers, SymbolsDiffer
<1>3. One(to, from, r) =
           IF Len(r) >= 5 THEN <<Taken(to, from, awdl, packet, Len(r) - 5)>> ELSE <<>>
  BY OneOfContents DEF Taken
<1>4. IsRest(r, b, 1)
  BY Rest
<1> HIDE DEF r
<1>5. Len(b) >= 6 => Len(r) >= 5 /\ Len(r) - 5 = Len(b) - 6
  BY <1>1, <1>4 DEF IsRest
<1>6. Len(b) < 6 => Len(r) < 5
  BY <1>1, <1>4 DEF IsRest
<1>7. OneEither(to, from, b) = One(to, from, r)
  BY <1>2 DEF OneEither, r
<1>8. Len(r) \in Nat
  BY <1>4, Shape DEF IsRest
<1> QED
  BY <1>1, <1>3, <1>5, <1>6, <1>7, <1>8

(* A frame of ours, cut anywhere, gives its packet, or the beginning of it *)
(* that was heard, once the headers are there, and nothing before: under   *)
(* the addresses it was sent under (data.rs:257-273, 221-244).             *)
THEOREM LoneUnwraps ==
  ASSUME None \notin Nat, NEW f, NEW to, NEW from, NEW awdl, NEW packet, IsSeq(packet),
         Wraps(f, to, from, awdl, packet), NEW c \in 0..Len(f)
  PROVE  decapsulate_all(SubSeq(f, 1, c)) =
           IF c >= 11 THEN <<Taken(to, from, awdl, packet, c - 11)>> ELSE <<>>
<1> DEFINE b == SubSeq(f, 1, c)
           body == From(b, 6)
<1>0. IsSeq(f) /\ Len(f) = 11 + Len(packet) /\ Len(packet) \in Nat /\ c \in Nat
  BY Shape DEF Wraps
<1>1. Headed(f, to, from, FALSE)
  BY <1>0 DEF Wraps, Headed
<1>2. Headed(b, to, from, FALSE) /\ IsPiece(b, f, 1, c) /\ Len(b) = c
  BY <1>0, <1>1, StartIsHeaded
<1>3. IsSeq(b)
  BY <1>2 DEF IsPiece
<1>4. IsRest(body, b, 6)
  BY <1>3, Rest
<1>5. decapsulate_all(b) =
           IF Len(b) < 6 THEN <<>>
           ELSE IF Len(body) >= 2 /\ body[1] = Address(to) /\ body[2] = Address(from)
                THEN Subframes(body) ELSE OneEither(to, from, body)
  BY <1>2, DecapsulateByHeader
<1>6. CASE c < 6
  BY <1>0, <1>2, <1>5, <1>6
<1>7. CASE c >= 6
  <2> HIDE DEF b, body
  <2>1. IsSeq(body) /\ Len(body) = c - 6
    BY <1>0, <1>2, <1>4, <1>7 DEF IsRest
  <2>2. ASSUME NEW i \in 1..Len(body)
        PROVE  body[i] = IF i <= 5 THEN Symbol(i, awdl) ELSE packet[i - 5]
    <3>1. body[i] = b[6 + i]
      BY <1>0, <1>2, <1>4, <2>1 DEF IsRest
    <3>2. b[6 + i] = f[6 + i]
      BY <1>0, <1>2, <2>1 DEF IsPiece
    <3>3. 6 + i \in 7..Len(f) /\ (6 + i) - 6 = i /\ (6 + i) - 11 = i - 5 /\ (6 + i <= 11 <=> i <= 5)
      BY <1>0, <1>7, <2>1
    <3>4. f[6 + i] = IF 6 + i <= 11 THEN Symbol((6 + i) - 6, awdl) ELSE packet[(6 + i) - 11]
      BY <3>3 DEF Wraps
    <3> QED
      BY <3>1, <3>2, <3>3, <3>4
  <2>3. Contents(body, awdl, packet)
    BY <1>0, <2>1, <2>2 DEF Contents
  <2>4. ~(Len(body) >= 2 /\ body[1] = Address(to) /\ body[2] = Address(from))
    <3> SUFFICES ASSUME Len(body) >= 2 PROVE body[1] # Address(to)
      OBVIOUS
    <3>1. body[1] = Symbol(1, awdl)
      BY <1>0, <2>1, <2>2
    <3> QED
      BY <3>1, SymbolsDiffer DEF Symbol
  <2>5. decapsulate_all(b) = OneEither(to, from, body)
    BY <1>0, <1>2, <1>5, <1>7, <2>4
  <2>6. OneEither(to, from, body) =
           IF Len(body) >= 5 THEN <<Taken(to, from, awdl, packet, Len(body) - 5)>> ELSE <<>>
    BY <2>3, EitherOfContents
  <2>7. (Len(body) >= 5 <=> c >= 11) /\ Len(body) - 5 = c - 11
    BY <1>0, <1>7, <2>1
  <2> QED
    BY <2>5, <2>6, <2>7 DEF b
<1> QED
  BY <1>0, <1>6, <1>7

(* A padded frame, symbol by symbol.                                       *)
LEMMA PaddedIs ==
  ASSUME NEW f, IsSeq(f), Len(f) >= 6
  PROVE  /\ IsSeq(Padded(f)) /\ Len(Padded(f)) = Len(f) + 1
         /\ \A i \in 1..6 : Padded(f)[i] = f[i]
         /\ Padded(f)[7] = Filler
         /\ \A i \in 8..(Len(f) + 1) : Padded(f)[i] = f[i - 1]
<1> DEFINE head == SubSeq(f, 1, 6)
           rest == From(f, 6)
           x == head \o <<Filler>>
           p == x \o rest
<1>0. Len(f) \in Nat /\ 1 \in Nat \ {0} /\ 6 \in Nat /\ 6 <= Len(f)
  BY Shape
<1>1. IsPiece(head, f, 1, 6)
  BY <1>0, Piece
<1>2. IsRest(rest, f, 6)
  BY <1>0, Rest
<1>3. Padded(f) = p
  BY DEF Padded, QOS_HEADER_LEN
<1> DEFINE one == <<Filler>>
<1>4. IsSeq(one) /\ Len(one) = 1 /\ one[1] = Filler
  <2>1. DOMAIN one = 1..1 /\ one = [i \in 1..1 |-> one[i]] /\ one[1] = Filler
    OBVIOUS
  <2> HIDE DEF one
  <2> QED
    BY <2>1, Listed
<1> HIDE DEF head, rest, one
<1>5. IsJoin(head \o one, head, one)
  BY <1>1, <1>4, Joined DEF IsPiece
<1>6. IsJoin(x, head, one)
  BY <1>5 DEF one
<1> HIDE DEF x
<1>61. IsSeq(x) /\ IsSeq(rest)
  BY <1>2, <1>6 DEF IsJoin, IsRest
<1>7. IsJoin(p, x, rest)
  BY <1>61, Joined
<1> HIDE DEF p
<1>8. Len(head) = 6 /\ Len(x) = 7 /\ Len(rest) = Len(f) - 6
  BY <1>0, <1>1, <1>2, <1>4, <1>6 DEF IsPiece, IsRest, IsJoin
<1>9. IsSeq(p) /\ Len(p) = Len(f) + 1
  BY <1>0, <1>7, <1>8 DEF IsJoin
<1>10. ASSUME NEW i \in 1..6 PROVE p[i] = f[i]
  <2>1. p[i] = x[i]
    BY <1>7, <1>8 DEF IsJoin
  <2>2. x[i] = head[i]
    BY <1>6, <1>8 DEF IsJoin
  <2>3. head[i] = f[i]
    BY <1>1 DEF IsPiece
  <2> QED
    BY <2>1, <2>2, <2>3
<1>11. p[7] = Filler
  <2>1. p[7] = x[7]
    BY <1>7, <1>8 DEF IsJoin
  <2>2. x[6 + 1] = one[1]
    BY <1>4, <1>6, <1>8 DEF IsJoin
  <2> QED
    BY <1>4, <2>1, <2>2
<1>12. ASSUME NEW i \in 8..(Len(f) + 1) PROVE p[i] = f[i - 1]
  <2>1. i - 7 \in 1..(Len(f) - 6) /\ 7 + (i - 7) = i /\ 6 + (i - 7) = i - 1
    BY <1>0
  <2>2. p[7 + (i - 7)] = rest[i - 7]
    BY <1>7, <1>8, <2>1 DEF IsJoin
  <2>3. rest[i - 7] = f[6 + (i - 7)]
    BY <1>2, <2>1 DEF IsRest
  <2> QED
    BY <2>1, <2>2, <2>3
<1> QED
  BY <1>3, <1>9, <1>10, <1>11, <1>12

(* The same for a frame with two octets of filler, which are skipped: the  *)
(* packet begins a symbol later (data.rs:207-219).                         *)
THEOREM PaddedUnwraps ==
  ASSUME None \notin Nat, NEW f, NEW to, NEW from, NEW awdl, NEW packet, IsSeq(packet),
         Wraps(f, to, from, awdl, packet), NEW c \in 0..(Len(f) + 1)
  PROVE  decapsulate_all(SubSeq(Padded(f), 1, c)) =
           IF c >= 12 THEN <<Taken(to, from, awdl, packet, c - 12)>> ELSE <<>>
<1> DEFINE g == Padded(f)
           b == SubSeq(g, 1, c)
           body == From(b, 6)
           inside == From(body, 1)
<1>0. IsSeq(f) /\ Len(f) = 11 + Len(packet) /\ Len(packet) \in Nat /\ c \in Nat
  BY Shape DEF Wraps
<1>1. /\ IsSeq(g) /\ Len(g) = Len(f) + 1
      /\ \A i \in 1..6 : g[i] = f[i]
      /\ g[7] = Filler
      /\ \A i \in 8..(Len(f) + 1) : g[i] = f[i - 1]
  BY <1>0, PaddedIs
<1> HIDE DEF g
<1>2. g[1] = f[1] /\ g[2] = f[2] /\ g[3] = f[3] /\ g[6] = f[6]
  BY <1>1
<1>3. Headed(g, to, from, FALSE)
  BY <1>0, <1>1, <1>2 DEF Wraps, Headed
<1>4. Headed(b, to, from, FALSE) /\ IsPiece(b, g, 1, c) /\ Len(b) = c
  <2>1. c \in 0..Len(g)
    BY <1>1
  <2> QED
    BY <1>1, <1>3, <2>1, StartIsHeaded
<1>5. IsSeq(b)
  BY <1>4 DEF IsPiece
<1>6. IsRest(body, b, 6)
  BY <1>5, Rest
<1>7. decapsulate_all(b) =
           IF Len(b) < 6 THEN <<>>
           ELSE IF Len(body) >= 2 /\ body[1] = Address(to) /\ body[2] = Address(from)
                THEN Subframes(body) ELSE OneEither(to, from, body)
  BY <1>4, DecapsulateByHeader
<1>8. CASE c < 6
  BY <1>0, <1>4, <1>7, <1>8 DEF g
<1>9. CASE c >= 6
  <2> HIDE DEF b
  <2>1. IsSeq(body) /\ Len(body) = c - 6
    BY <1>0, <1>4, <1>6, <1>9 DEF IsRest
  <2> HIDE DEF body
  <2>2. ASSUME NEW i \in 1..Len(body) PROVE body[i] = g[6 + i]
    <3>1. body[i] = b[6 + i]
      BY <1>0, <1>4, <1>6, <2>1 DEF IsRest
    <3>2. b[6 + i] = g[6 + i]
      BY <1>0, <1>4, <2>1 DEF IsPiece
    <3> QED
      BY <3>1, <3>2
  <2>3. Len(body) > 0 => body[1] = Filler
    BY <1>0, <1>1, <2>1, <2>2
  <2>4. IsRest(inside, body, 1)
    BY <2>1, Rest
  <2> HIDE DEF inside
  <2>5. IsSeq(inside) /\ Len(inside) = IF c >= 7 THEN c - 7 ELSE 0
    BY <1>0, <1>9, <2>1, <2>4 DEF IsRest
  <2>6. ASSUME NEW i \in 1..Len(inside)
        PROVE  inside[i] = IF i <= 5 THEN Symbol(i, awdl) ELSE packet[i - 5]
    <3>1. inside[i] = body[1 + i] /\ 1 + i \in 1..Len(body)
      BY <1>0, <2>1, <2>4, <2>5 DEF IsRest
    <3>2. body[1 + i] = g[6 + (1 + i)]
      BY <2>2, <3>1
    <3>3. 6 + (1 + i) \in 8..(Len(f) + 1) /\ (6 + (1 + i)) - 1 = 6 + i
      BY <1>0, <1>9, <2>5
    <3>4. g[6 + (1 + i)] = f[6 + i]
      BY <1>1, <3>3
    <3>5. 6 + i \in 7..Len(f) /\ (6 + i) - 6 = i /\ (6 + i) - 11 = i - 5 /\ (6 + i <= 11 <=> i <= 5)
      BY <1>0, <1>9, <2>5
    <3>6. f[6 + i] = IF 6 + i <= 11 THEN Symbol((6 + i) - 6, awdl) ELSE packet[(6 + i) - 11]
      BY <3>5 DEF Wraps
    <3> QED
      BY <3>1, <3>2, <3>4, <3>5, <3>6
  <2>7. Contents(inside, awdl, packet)
    BY <1>0, <1>9, <2>5, <2>6 DEF Contents
  <2>8. ~(Len(body) >= 2 /\ body[1] = Address(to) /\ body[2] = Address(from))
    BY <1>0, <2>1, <2>3, SymbolsDiffer
  <2>9. decapsulate_all(b) = OneEither(to, from, body)
    BY <1>0, <1>4, <1>7, <1>9, <2>8
  <2>10. OneEither(to, from, body) =
           IF Len(body) >= 6 THEN <<Taken(to, from, awdl, packet, Len(body) - 6)>> ELSE <<>>
    BY <2>1, <2>3, <2>7, EitherOfFilled DEF inside
  <2>11. (Len(body) >= 6 <=> c >= 12) /\ Len(body) - 6 = c - 12
    BY <1>0, <1>9, <2>1
  <2> QED
    BY <2>9, <2>10, <2>11 DEF b, g
<1> QED
  BY <1>0, <1>8, <1>9

-----------------------------------------------------------------------------
(* Aggregates.                                                             *)
SubframeOf(s, to, from, awdl, packet, present) ==
  /\ IsSeq(s) /\ Len(s) = (IF present THEN 8 ELSE 9) + Len(packet)
  /\ s[1] = Address(to) /\ s[2] = Address(from) /\ s[3] = Length(Len(s) - 3)
  /\ ~present => s[4] = Filler
  /\ \A i \in 1..(5 + Len(packet)) :
       s[(IF present THEN 3 ELSE 4) + i] = IF i <= 5 THEN Symbol(i, awdl) ELSE packet[i - 5]

(* A subframe, symbol by symbol: its addresses are those of its frame.     *)
LEMMA SubframeIs ==
  ASSUME NEW f, NEW to, NEW from, NEW awdl, NEW packet, IsSeq(packet),
         Wraps(f, to, from, awdl, packet), NEW present \in BOOLEAN
  PROVE  SubframeOf(Subframe(f, present), to, from, awdl, packet, present)
<1> DEFINE inside == From(f, 6)
           one == <<Filler>>
           body == IF present THEN inside ELSE one \o inside
           head == <<f[2], f[3], Length(Len(body))>>
           s == head \o body
           k == IF present THEN 0 ELSE 1
<1>0. IsSeq(f) /\ Len(f) = 11 + Len(packet) /\ Len(packet) \in Nat
  BY Shape DEF Wraps
<1>1. Subframe(f, present) = s
  BY DEF Subframe, QOS_HEADER_LEN
<1>2. IsRest(inside, f, 6)
  BY <1>0, Rest
<1>3. IsSeq(one) /\ Len(one) = 1 /\ one[1] = Filler
  <2>1. DOMAIN one = 1..1 /\ one = [i \in 1..1 |-> one[i]] /\ one[1] = Filler
    OBVIOUS
  <2> HIDE DEF one
  <2> QED
    BY <2>1, Listed
<1>4. head[1] = f[2] /\ head[2] = f[3] /\ head[3] = Length(Len(body))
  OBVIOUS
<1>5. DOMAIN head = 1..3 /\ head = [i \in 1..3 |-> head[i]]
  OBVIOUS
<1> HIDE DEF inside, one
<1>6. IsJoin(one \o inside, one, inside)
  BY <1>2, <1>3, Joined DEF IsRest
<1>7. IsSeq(inside) /\ Len(inside) = 5 + Len(packet) /\ \A i \in 1..(5 + Len(packet)) : inside[i] = f[6 + i]
  BY <1>0, <1>2 DEF IsRest
<1>8. /\ IsSeq(body) /\ Len(body) = (5 + k) + Len(packet)
      /\ ~present => body[1] = Filler
      /\ \A i \in 1..(5 + Len(packet)) : body[k + i] = f[6 + i]
  <2>1. CASE present
    BY <1>0, <1>7, <2>1
  <2>2. CASE ~present
    <3> DEFINE r == one \o inside
    <3>1. IsJoin(r, one, inside) /\ body = r /\ k = 1
      BY <1>6, <2>2
    <3> HIDE DEF r, body, k
    <3>2. IsSeq(r) /\ Len(r) = 6 + Len(packet)
      BY <1>0, <1>3, <1>7, <3>1 DEF IsJoin
    <3>3. r[1] = Filler
      BY <1>3, <3>1 DEF IsJoin
    <3>4. ASSUME NEW i \in 1..(5 + Len(packet)) PROVE r[1 + i] = f[6 + i]
      BY <1>3, <1>7, <3>1 DEF IsJoin
    <3> QED
      BY <1>0, <3>1, <3>2, <3>3, <3>4
  <2> QED
    BY <2>1, <2>2
<1>9. k \in 0..1 /\ (present <=> k = 0)
  OBVIOUS
<1> HIDE DEF body, head, k
<1>10. IsSeq(head) /\ Len(head) = 3
  BY <1>5, Listed
<1>11. IsJoin(s, head, body)
  BY <1>8, <1>10, Joined
<1> HIDE DEF s
<1>12. IsSeq(s) /\ Len(s) = (8 + k) + Len(packet)
  BY <1>0, <1>8, <1>9, <1>10, <1>11 DEF IsJoin
<1>13. s[1] = Address(to) /\ s[2] = Address(from) /\ s[3] = Length(Len(s) - 3)
  <2>1. s[1] = head[1] /\ s[2] = head[2] /\ s[3] = head[3]
    BY <1>10, <1>11 DEF IsJoin
  <2>2. f[2] = Address(to) /\ f[3] = Address(from)
    BY DEF Wraps
  <2>3. Len(body) = Len(s) - 3
    BY <1>0, <1>8, <1>9, <1>12
  <2> QED
    BY <1>4, <2>1, <2>2, <2>3
<1>14. ~present => s[4] = Filler
  <2> SUFFICES ASSUME ~present PROVE s[3 + 1] = Filler
    OBVIOUS
  <2>1. s[3 + 1] = body[1]
    BY <1>0, <1>8, <1>9, <1>10, <1>11 DEF IsJoin
  <2> QED
    BY <1>8, <2>1
<1>15. ASSUME NEW i \in 1..(5 + Len(packet))
       PROVE  s[(3 + k) + i] = IF i <= 5 THEN Symbol(i, awdl) ELSE packet[i - 5]
  <2>1. k + i \in 1..Len(body) /\ (3 + k) + i = 3 + (k + i)
    BY <1>0, <1>8, <1>9
  <2>2. s[3 + (k + i)] = body[k + i]
    BY <1>10, <1>11, <2>1 DEF IsJoin
  <2>3. body[k + i] = f[6 + i]
    BY <1>8
  <2>4. 6 + i \in 7..Len(f) /\ (6 + i) - 6 = i /\ (6 + i) - 11 = i - 5 /\ (6 + i <= 11 <=> i <= 5)
    BY <1>0
  <2>5. f[6 + i] = IF 6 + i <= 11 THEN Symbol((6 + i) - 6, awdl) ELSE packet[(6 + i) - 11]
    BY <2>4 DEF Wraps
  <2> QED
    BY <2>1, <2>2, <2>3, <2>4, <2>5
<1>16. (IF present THEN 8 ELSE 9) = 8 + k /\ (IF present THEN 3 ELSE 4) = 3 + k
  BY <1>9
<1> QED
  BY <1>1, <1>12, <1>13, <1>14, <1>15, <1>16 DEF SubframeOf

(* Padding to the next boundary adds at most one symbol.                   *)
LEMMA UpToBoundaryIs ==
  ASSUME NEW b, IsSeq(b)
  PROVE  /\ IsSeq(UpToBoundary(b)) /\ Len(UpToBoundary(b)) = Boundary(Len(b))
         /\ \A i \in 1..Len(b) : UpToBoundary(b)[i] = b[i]
         /\ Boundary(Len(b)) \in Len(b)..(Len(b) + 1)
<1>1. Len(b) \in Nat
  BY Shape
<1>2. /\ IsSeq(Append(b, Filler)) /\ Len(Append(b, Filler)) = Len(b) + 1
      /\ \A i \in 1..Len(b) : Append(b, Filler)[i] = b[i]
  BY Appended
<1>3. Len(b) % 2 \in 0..1
  BY <1>1
<1>4. Boundary(Len(b)) = Len(b) + (Len(b) % 2)
  BY DEF Boundary
<1> DEFINE n == Len(b)
           r == n % 2
<1> HIDE DEF n, r
<1>5. CASE Len(b) % 2 = 0
  BY <1>1, <1>4, <1>5 DEF UpToBoundary
<1>6. CASE Len(b) % 2 = 1
  BY <1>1, <1>2, <1>4, <1>6 DEF UpToBoundary
<1> QED
  BY <1>3, <1>5, <1>6

(* The chain of an aggregate: one subframe after another.                  *)
IsChain(chain, frames, present) ==
  chain = [n \in 1..Len(frames) |-> IF n = 1 THEN Subframe(frames[1], present)
              ELSE UpToBoundary(chain[n - 1]) \o Subframe(frames[n], present)]

(* Where subframe i starts.                                                *)
Start(chain, i) == IF i = 1 THEN 0 ELSE Boundary(Len(chain[i - 1]))

(* Link i, by the one before it.                                           *)
Links(chain, frames, present, i) ==
  IF i = 1 THEN chain[1] = Subframe(frames[1], present)
  ELSE IsJoin(chain[i], UpToBoundary(chain[i - 1]), Subframe(frames[i], present))

(* The subframes have more than a header.                                  *)
Subframed(frames, present) ==
  /\ Len(frames) \in Nat \ {0}
  /\ \A i \in 1..Len(frames) : /\ IsSeq(Subframe(frames[i], present))
                               /\ Len(Subframe(frames[i], present)) > 3

(* Every link of a chain is a sequence made of the one before.             *)
LEMMA ChainLinks ==
  ASSUME NEW frames, NEW present, NEW chain, IsChain(chain, frames, present),
         Subframed(frames, present), NEW i \in 1..Len(frames)
  PROVE  IsSeq(chain[i]) /\ Links(chain, frames, present, i)
<1> DEFINE Good(n) == IsSeq(chain[n]) /\ Links(chain, frames, present, n)
           Bad == {n \in 1..Len(frames) : ~Good(n)}
<1>0. Len(frames) \in Nat /\ Len(frames) > 0
  BY DEF Subframed
<1>1. \A n \in 1..Len(frames) : n \notin Bad <=> Good(n)
  BY Zenon
<1>2. Bad \in SUBSET Nat /\ \A n \in Bad : n \in 1..Len(frames)
  BY <1>0
<1>3. chain[1] = Subframe(frames[1], present)
  BY <1>0 DEF IsChain
<1>4. ASSUME NEW n \in 2..Len(frames)
      PROVE  chain[n] = UpToBoundary(chain[n - 1]) \o Subframe(frames[n], present)
  <2>1. n \in 1..Len(frames) /\ n # 1
    BY <1>0
  <2> QED
    BY <2>1, Zenon DEF IsChain
<1> HIDE DEF Bad, Good
<1>5. CASE Bad # {}
  <2>1. PICK n \in Bad : \A k \in Bad : n <= k
    BY <1>2, <1>5, Least
  <2>2. n # 1
    <3>1. 1 \in 1..Len(frames)
      BY <1>0
    <3>2. Good(1)
      BY <1>3, <3>1 DEF Good, Links, Subframed
    <3> QED
      BY <1>1, <2>1, <3>1, <3>2
  <2>3. n \in 2..Len(frames) /\ n - 1 \in 1..Len(frames) /\ n - 1 \notin Bad
    BY <1>0, <1>2, <2>1, <2>2
  <2>4. IsSeq(chain[n - 1])
    BY <1>1, <2>3 DEF Good
  <2>5. IsSeq(UpToBoundary(chain[n - 1]))
    BY <2>4, UpToBoundaryIs
  <2>6. IsSeq(Subframe(frames[n], present))
    BY <2>3 DEF Subframed
  <2>7. IsJoin(chain[n], UpToBoundary(chain[n - 1]), Subframe(frames[n], present))
    BY <1>4, <2>3, <2>5, <2>6, Joined
  <2>8. Good(n)
    BY <2>2, <2>7 DEF Good, Links, IsJoin
  <2> QED
    BY <1>1, <1>2, <2>1, <2>8
<1>6. CASE Bad = {}
  BY <1>1, <1>6 DEF Good
<1> QED
  BY <1>5, <1>6

(* Where a subframe stands, and that it ends after it begins.              *)
LEMMA LinkStands ==
  ASSUME NEW frames, NEW present, NEW chain, IsChain(chain, frames, present),
         Subframed(frames, present), NEW i \in 1..Len(frames)
  PROVE  /\ Start(chain, i) \in Nat
         /\ Len(chain[i]) = Start(chain, i) + Len(Subframe(frames[i], present))
         /\ Len(chain[i]) \in Nat /\ Len(Subframe(frames[i], present)) \in Nat
         /\ \A j \in 1..Len(Subframe(frames[i], present)) :
              chain[i][Start(chain, i) + j] = Subframe(frames[i], present)[j]
         /\ i > 1 => /\ Start(chain, i) \in Len(chain[i - 1])..(Len(chain[i - 1]) + 1)
                     /\ Len(chain[i - 1]) \in Nat
                     /\ \A j \in 1..Len(chain[i - 1]) : chain[i][j] = chain[i - 1][j]
<1> DEFINE s == Subframe(frames[i], present)
<1>0. IsSeq(s) /\ Len(s) > 3
  BY DEF Subframed
<1>1. Len(s) \in Nat
  BY <1>0, Shape
<1>2. IsSeq(chain[i]) /\ Links(chain, frames, present, i)
  BY ChainLinks
<1>3. Len(chain[i]) \in Nat
  BY <1>2, Shape
<1>4. CASE i = 1
  <2>1. chain[1] = Subframe(frames[1], present) /\ Start(chain, 1) = 0
    BY <1>2, <1>4 DEF Links, Start
  <2>2. chain[i] = s /\ Start(chain, i) = 0
    BY <1>4, <2>1
  <2> HIDE DEF s
  <2>3. \A j \in 1..Len(s) : chain[i][0 + j] = s[j]
    BY <1>1, <2>2
  <2>4. Len(chain[i]) = 0 + Len(s)
    BY <1>1, <2>2
  <2> QED
    BY <1>1, <1>3, <1>4, <2>2, <2>3, <2>4 DEF s
<1>5. CASE i # 1
  <2> DEFINE p == chain[i - 1]
             u == UpToBoundary(p)
  <2>1. i - 1 \in 1..Len(frames) /\ i > 1
    BY <1>5 DEF Subframed
  <2>2. IsSeq(p)
    BY <2>1, ChainLinks
  <2>3. Len(p) \in Nat
    BY <2>2, Shape
  <2>4. IsJoin(chain[i], u, s) /\ Start(chain, i) = Boundary(Len(p))
    BY <1>2, <1>5 DEF Links, Start
  <2> HIDE DEF p
  <2>5. /\ Len(u) = Boundary(Len(p)) /\ IsSeq(u)
        /\ \A j \in 1..Len(p) : u[j] = p[j]
        /\ Boundary(Len(p)) \in Len(p)..(Len(p) + 1)
    BY <2>2, UpToBoundaryIs
  <2> DEFINE c == chain[i]
             a == Start(chain, i)
  <2> HIDE DEF s, u, c, a
  <2>6. /\ Len(c) = a + Len(s) /\ a \in Len(p)..(Len(p) + 1)
        /\ \A j \in 1..Len(s) : c[a + j] = s[j]
        /\ \A j \in 1..Len(u) : c[j] = u[j]
    BY <2>4, <2>5 DEF IsJoin, c, a
  <2>7. a \in Nat /\ Len(p) <= Len(u)
    BY <2>3, <2>4, <2>5, <2>6 DEF a
  <2>8. \A j \in 1..Len(p) : c[j] = p[j]
    BY <2>3, <2>5, <2>6, <2>7
  <2> QED
    BY <1>1, <1>3, <2>1, <2>3, <2>6, <2>7, <2>8 DEF s, p, c, a
<1> QED
  BY <1>4, <1>5

(* A chain begins with every shorter one.                                  *)
LEMMA ChainPrefix ==
  ASSUME NEW frames, NEW present, NEW chain, IsChain(chain, frames, present),
         Subframed(frames, present), NEW n \in 1..Len(frames), NEW i \in 1..n
  PROVE  /\ Len(chain[i]) \in Nat /\ Len(chain[n]) \in Nat
         /\ Len(chain[i]) <= Len(chain[n]) /\ (i < n => Len(chain[i]) < Len(chain[n]))
         /\ \A j \in 1..Len(chain[i]) : chain[n][j] = chain[i][j]
<1> DEFINE Good(m) == /\ Len(chain[i]) \in Nat /\ Len(chain[m]) \in Nat
                      /\ Len(chain[i]) <= Len(chain[m]) /\ (i < m => Len(chain[i]) < Len(chain[m]))
                      /\ \A j \in 1..Len(chain[i]) : chain[m][j] = chain[i][j]
           Bad == {m \in i..Len(frames) : ~Good(m)}
<1>0. Len(frames) \in Nat /\ i \in 1..Len(frames) /\ n \in i..Len(frames)
  BY DEF Subframed
<1>1. \A m \in i..Len(frames) : m \notin Bad <=> Good(m)
  BY Zenon
<1>2. Bad \in SUBSET Nat /\ \A m \in Bad : m \in i..Len(frames)
  BY <1>0
<1> HIDE DEF Bad
<1>3. CASE Bad # {}
  <2>1. PICK m \in Bad : \A k \in Bad : m <= k
    BY <1>2, <1>3, Least
  <2>2. m # i
    <3>1. Len(chain[i]) \in Nat
      BY <1>0, LinkStands
    <3>2. Good(i)
      BY <3>1
    <3> QED
      BY <1>0, <1>1, <2>1, <3>2
  <2>3. m \in 1..Len(frames) /\ m > 1 /\ m - 1 \in i..Len(frames) /\ m - 1 \notin Bad /\ i <= m - 1
    BY <1>0, <1>2, <2>1, <2>2
  <2>4. Good(m - 1)
    BY <1>1, <2>3
  <2>5. /\ Len(chain[m]) = Start(chain, m) + Len(Subframe(frames[m], present))
        /\ Len(chain[m]) \in Nat /\ Len(Subframe(frames[m], present)) \in Nat
        /\ Start(chain, m) \in Nat /\ Len(chain[m - 1]) \in Nat
        /\ Start(chain, m) \in Len(chain[m - 1])..(Len(chain[m - 1]) + 1)
        /\ \A j \in 1..Len(chain[m - 1]) : chain[m][j] = chain[m - 1][j]
    BY <2>3, LinkStands
  <2>6. Len(Subframe(frames[m], present)) > 3
    BY <2>3 DEF Subframed
  <2>7. Len(chain[m - 1]) < Len(chain[m])
    BY <2>5, <2>6
  <2>8. Len(chain[i]) <= Len(chain[m - 1]) /\ Len(chain[i]) \in Nat
    BY <2>4
  <2>9. ASSUME NEW j \in 1..Len(chain[i]) PROVE chain[m][j] = chain[i][j]
    <3>1. chain[m - 1][j] = chain[i][j]
      BY <2>4
    <3>2. j \in 1..Len(chain[m - 1])
      BY <2>5, <2>8
    <3>3. chain[m][j] = chain[m - 1][j]
      BY <2>5, <3>2
    <3> QED
      BY <3>1, <3>3
  <2>10. Good(m)
    BY <2>5, <2>7, <2>8, <2>9
  <2> QED
    BY <1>1, <1>2, <2>1, <2>10
<1>4. CASE Bad = {}
  <2>1. Good(n)
    BY <1>0, <1>1, <1>4
  <2> QED
    BY <2>1
<1> QED
  BY <1>3, <1>4

(* A subframe stands where it did in the whole.                            *)
LEMMA SubframeStands ==
  ASSUME NEW frames, NEW present, NEW chain, IsChain(chain, frames, present),
         Subframed(frames, present), NEW n \in 1..Len(frames), NEW i \in 1..n,
         NEW j \in 1..Len(Subframe(frames[i], present))
  PROVE  /\ Start(chain, i) + j \in 1..Len(chain[i])
         /\ chain[n][Start(chain, i) + j] = Subframe(frames[i], present)[j]
<1>1. i \in 1..Len(frames)
  BY DEF Subframed
<1>2. /\ Start(chain, i) \in Nat
      /\ Len(chain[i]) = Start(chain, i) + Len(Subframe(frames[i], present))
      /\ Len(chain[i]) \in Nat /\ Len(Subframe(frames[i], present)) \in Nat
      /\ chain[i][Start(chain, i) + j] = Subframe(frames[i], present)[j]
  BY <1>1, LinkStands
<1>3. Start(chain, i) + j \in 1..Len(chain[i])
  BY <1>2
<1>4. \A k \in 1..Len(chain[i]) : chain[n][k] = chain[i][k]
  BY ChainPrefix
<1>5. chain[n][Start(chain, i) + j] = chain[i][Start(chain, i) + j]
  BY <1>3, <1>4
<1> QED
  BY <1>2, <1>3, <1>5

-----------------------------------------------------------------------------
(* The walk over a chain.                                                  *)
Measured(b) == \A i \in 1..Len(b) : b[i][1] = "length" => b[i][2] \in Nat

(* Where the walk ends, and what it finds where it does not.               *)
Ends(b, at) ==
  ~Has(b, at + 2) \/ LengthAt(b, at) = 0 \/ at + 3 + LengthAt(b, at) > Len(b)
Found(b, at) ==
  OneEither(b[at + 1][2], b[at + 2][2], SubSeq(b, at + 4, at + 3 + LengthAt(b, at)))

(* The walk of Subframes.                                                  *)
IsWalk(w, b) ==
  \A at \in 0..(Len(b) + 1) :
    w[at] = IF Ends(b, at) THEN <<>> ELSE Found(b, at) \o w[Boundary(at + 3 + LengthAt(b, at))]

(* Subframes is the walk its definition describes, and it comes to an end  *)
(* (data.rs:297-331): every step moves past a subframe header.             *)
LEMMA SubframesWalk ==
  ASSUME NEW b, IsSeq(b), Measured(b)
  PROVE  \E w : IsWalk(w, b) /\ Subframes(b) = w[0]
<1> DEFINE M == Len(b) + 1
           stop == {at \in 0..M : Ends(b, at)}
           item == [at \in 0..M |-> Found(b, at)]
           next == [at \in 0..M |-> Boundary(at + 3 + LengthAt(b, at))]
           walk[at \in 0..(Len(b) + 1)] ==
             IF ~Has(b, at + 2) THEN <<>>
             ELSE LET len == LengthAt(b, at) IN
                  IF len = 0 \/ at + 3 + len > Len(b) THEN <<>>
                  ELSE OneEither(b[at + 1][2], b[at + 2][2], SubSeq(b, at + 4, at + 3 + len))
                         \o walk[Boundary(at + 3 + len)]
<1>0. Len(b) \in Nat /\ M \in Nat
  BY Shape
<1>1. ASSUME NEW at \in 0..M, ~(at \in stop)
      PROVE  next[at] \in (at + 1)..M
  <2> DEFINE len == LengthAt(b, at)
             e == at + 3 + len
  <2>1. ~Ends(b, at)
    BY <1>1
  <2>2. Has(b, at + 2) /\ len # 0 /\ ~(at + 3 + len > Len(b))
    BY <2>1 DEF Ends
  <2>3. at + 3 \in 1..Len(b)
    BY <1>0, <2>2 DEF Has
  <2>4. len \in Nat
    BY <2>3 DEF LengthAt, Measured
  <2> HIDE DEF len
  <2>5. e \in Nat /\ e <= Len(b) /\ e >= at + 3 /\ at \in Nat
    BY <1>0, <2>2, <2>4
  <2>6. Boundary(e) \in e..(e + 1)
    <3>1. e % 2 \in 0..1
      BY <2>5
    <3> HIDE DEF e
    <3> QED
      BY <2>5, <3>1 DEF Boundary
  <2>7. next[at] = Boundary(e)
    BY DEF len
  <2> HIDE DEF e, next
  <2> QED
    BY <1>0, <2>5, <2>6, <2>7
<1>20. PICK w : IsRun(w, M, stop, item, next)
  <2> HIDE DEF M, stop, item, next
  <2>1. \A at \in 0..M : ~(at \in stop) => next[at] \in (at + 1)..M
    BY <1>1
  <2>2. M \in Nat
    BY <1>0
  <2> QED
    BY <2>1, <2>2, Walks
<1>2. w = [at \in 0..M |-> IF at \in stop THEN <<>> ELSE item[at] \o w[next[at]]]
  BY <1>20, Zenon DEF IsRun
<1>3. ASSUME NEW at \in 0..M
      PROVE  (IF at \in stop THEN <<>> ELSE item[at] \o w[next[at]]) =
             IF Ends(b, at) THEN <<>> ELSE Found(b, at) \o w[Boundary(at + 3 + LengthAt(b, at))]
  OBVIOUS
<1>4. ASSUME NEW f, NEW at
      PROVE  (IF Ends(b, at) THEN <<>> ELSE Found(b, at) \o f[Boundary(at + 3 + LengthAt(b, at))]) =
             IF ~Has(b, at + 2) THEN <<>>
             ELSE LET len == LengthAt(b, at) IN
                  IF len = 0 \/ at + 3 + len > Len(b) THEN <<>>
                  ELSE OneEither(b[at + 1][2], b[at + 2][2], SubSeq(b, at + 4, at + 3 + len))
                         \o f[Boundary(at + 3 + len)]
  BY DEF Ends, Found
<1> DEFINE Step(f, at) ==
             IF ~Has(b, at + 2) THEN <<>>
             ELSE LET len == LengthAt(b, at) IN
                  IF len = 0 \/ at + 3 + len > Len(b) THEN <<>>
                  ELSE OneEither(b[at + 1][2], b[at + 2][2], SubSeq(b, at + 4, at + 3 + len))
                         \o f[Boundary(at + 3 + len)]
           Old(at) == IF at \in stop THEN <<>> ELSE item[at] \o w[next[at]]
<1>51. \A at \in 0..M : Old(at) = Step(w, at)
  BY <1>3, <1>4
<1>5. w = [at \in 0..(Len(b) + 1) |-> Step(w, at)]
  <2>1. w = [at \in 0..M |-> Old(at)]
    BY <1>2
  <2> HIDE DEF Step, Old
  <2> QED
    BY <1>51, <2>1, Zenon
<1>6. walk = [at \in 0..(Len(b) + 1) |->
             IF ~Has(b, at + 2) THEN <<>>
             ELSE LET len == LengthAt(b, at) IN
                  IF len = 0 \/ at + 3 + len > Len(b) THEN <<>>
                  ELSE OneEither(b[at + 1][2], b[at + 2][2], SubSeq(b, at + 4, at + 3 + len))
                         \o walk[Boundary(at + 3 + len)]]
  BY <1>5, Zenon
<1>7. Subframes(b) = walk[0]
  BY DEF Subframes
<1>8. \A at \in 0..(Len(b) + 1) :
    walk[at] = IF Ends(b, at) THEN <<>> ELSE Found(b, at) \o walk[Boundary(at + 3 + LengthAt(b, at))]
  <2> HIDE DEF walk
  <2> QED
    BY <1>4, <1>6, Zenon
<1>9. IsWalk(walk, b)
  BY <1>8 DEF IsWalk
<1> HIDE DEF walk
<1> QED
  BY <1>7, <1>9

(* The frames of an aggregate: packet P[i] under number A[i].              *)
Packed(frames, to, from, A, P) ==
  /\ Len(frames) \in Nat \ {0}
  /\ \A i \in 1..Len(frames) :
       IsSeq(P[i]) /\ Measured(P[i]) /\ Wraps(frames[i], to, from, A[i], P[i])

(* The subframes of frames of ours.                                        *)
LEMMA PackedSubframes ==
  ASSUME NEW frames, NEW to, NEW from, NEW A, NEW P, Packed(frames, to, from, A, P),
         NEW present \in BOOLEAN
  PROVE  /\ Subframed(frames, present)
         /\ \A i \in 1..Len(frames) :
              SubframeOf(Subframe(frames[i], present), to, from, A[i], P[i], present)
<1>1. ASSUME NEW i \in 1..Len(frames)
      PROVE  /\ SubframeOf(Subframe(frames[i], present), to, from, A[i], P[i], present)
             /\ Len(P[i]) \in Nat
  BY SubframeIs, Shape DEF Packed
<1>2. ASSUME NEW i \in 1..Len(frames)
      PROVE  IsSeq(Subframe(frames[i], present)) /\ Len(Subframe(frames[i], present)) > 3
  <2> DEFINE s == Subframe(frames[i], present)
             n == Len(P[i])
  <2>1. SubframeOf(s, to, from, A[i], P[i], present) /\ n \in Nat
    BY <1>1
  <2>2. IsSeq(s) /\ Len(s) = (IF present THEN 8 ELSE 9) + n
    BY <2>1 DEF SubframeOf
  <2> HIDE DEF s, n
  <2>3. IsSeq(s) /\ Len(s) > 3
    BY <2>1, <2>2
  <2> QED
    BY <2>3 DEF s
<1> QED
  BY <1>1, <1>2 DEF Subframed, Packed

(* Only a length is read as a length.                                      *)
LEMMA SymbolsMeasured ==
  ASSUME NEW i \in 1..5, NEW awdl
  PROVE  Symbol(i, awdl)[1] # "length"
BY DEF Symbol, SNAP_AWDL, DATA_HEADER_PREFIX, ETHERTYPE_IPV6

(* Nor does a subframe hold any other.                                     *)
LEMMA SubframeMeasured ==
  ASSUME NEW s, NEW to, NEW from, NEW awdl, NEW packet, IsSeq(packet), Measured(packet),
         NEW present \in BOOLEAN, SubframeOf(s, to, from, awdl, packet, present)
  PROVE  Measured(s)
<1> DEFINE k == IF present THEN 3 ELSE 4
<1>0. Len(packet) \in Nat /\ k \in Nat /\ Len(s) = (5 + k) + Len(packet) /\ (k = 3 \/ (k = 4 /\ ~present))
  BY Shape DEF SubframeOf
<1>1. s[1][1] = "address" /\ s[2][1] = "address" /\ s[3][2] = Len(s) - 3
  BY DEF SubframeOf, Address, Length
<1>2. k = 4 => s[4][1] = "filler"
  BY <1>0 DEF SubframeOf, Filler
<1>3. \A i \in 1..(5 + Len(packet)) : s[k + i] = IF i <= 5 THEN Symbol(i, awdl) ELSE packet[i - 5]
  BY DEF SubframeOf
<1> HIDE DEF k
<1>4. ASSUME NEW i \in 1..Len(s), s[i][1] = "length" PROVE s[i][2] \in Nat
  <2>1. CASE i <= k
    <3>1. i \in {1, 2, 3, 4} /\ (i = 4 => k = 4)
      BY <1>0, <2>1
    <3>2. i = 3
      BY <1>1, <1>2, <1>4, <3>1
    <3> QED
      BY <1>0, <1>1, <3>2
  <2>2. CASE i > k
    <3> DEFINE j == i - k
    <3>1. j \in 1..(5 + Len(packet)) /\ k + j = i
      BY <1>0, <2>2
    <3>2. s[i] = IF j <= 5 THEN Symbol(j, awdl) ELSE packet[j - 5]
      BY <1>3, <3>1
    <3> HIDE DEF j
    <3>3. ~(j <= 5)
      <4> SUFFICES ASSUME j <= 5 PROVE FALSE
        OBVIOUS
      <4>1. j \in 1..5
        BY <1>0, <3>1
      <4> QED
        BY <1>4, <3>2, <4>1, SymbolsMeasured
    <3>4. j - 5 \in 1..Len(packet) /\ s[i] = packet[j - 5]
      BY <1>0, <3>1, <3>2, <3>3
    <3> QED
      BY <1>4, <3>4 DEF Measured
  <2> QED
    BY <1>0, <2>1, <2>2
<1> QED
  BY <1>4 DEF Measured

(* Nor does a chain.                                                       *)
LEMMA ChainMeasured ==
  ASSUME NEW frames, NEW to, NEW from, NEW A, NEW P, Packed(frames, to, from, A, P),
         NEW present \in BOOLEAN, NEW chain, IsChain(chain, frames, present),
         NEW n \in 1..Len(frames)
  PROVE  Measured(chain[n])
<1> DEFINE Bad == {m \in 1..Len(frames) : ~Measured(chain[m])}
<1>0. Len(frames) \in Nat /\ Subframed(frames, present)
  BY PackedSubframes DEF Packed
<1>1. \A m \in 1..Len(frames) : m \notin Bad <=> Measured(chain[m])
  OBVIOUS
<1>2. Bad \in SUBSET Nat /\ \A m \in Bad : m \in 1..Len(frames)
  BY <1>0
<1> HIDE DEF Bad
<1>3. CASE Bad # {}
  <2>1. PICK m \in Bad : \A k \in Bad : m <= k
    BY <1>2, <1>3, Least
  <2> DEFINE s == Subframe(frames[m], present)
  <2>2. m \in 1..Len(frames)
    BY <1>2
  <2>3. Measured(s)
    <3>1. IsSeq(P[m]) /\ Measured(P[m])
      BY <2>2 DEF Packed
    <3>2. SubframeOf(s, to, from, A[m], P[m], present)
      BY <2>2, PackedSubframes
    <3> HIDE DEF s
    <3> QED
      BY <3>1, <3>2, SubframeMeasured
  <2>4. IsSeq(chain[m]) /\ Links(chain, frames, present, m)
    BY <1>0, <2>2, ChainLinks
  <2>5. CASE m = 1
    <3>1. chain[m] = s
      BY <2>4, <2>5 DEF Links
    <3> QED
      BY <1>1, <2>1, <2>2, <2>3, <3>1
  <2>6. CASE m # 1
    <3> DEFINE p == chain[m - 1]
               u == UpToBoundary(p)
    <3>1. m - 1 \in 1..Len(frames) /\ m - 1 \notin Bad
      BY <1>0, <2>1, <2>2, <2>6
    <3>2. IsSeq(p) /\ Measured(p)
      BY <1>0, <1>1, <3>1, ChainLinks
    <3>3. IsJoin(chain[m], u, s)
      BY <2>4, <2>6 DEF Links
    <3> HIDE DEF p, s
    <3>4. /\ IsSeq(u) /\ Len(u) \in Len(p)..(Len(p) + 1)
          /\ \A i \in 1..Len(p) : u[i] = p[i]
      BY <3>2, UpToBoundaryIs
    <3>5. Len(p) \in Nat /\ Len(u) \in Nat
      BY <3>2, <3>4, Shape
    <3>6. Measured(u)
      <4>1. CASE Len(u) = Len(p)
        BY <3>2, <3>4, <3>5, <4>1 DEF Measured
      <4>2. CASE Len(u) = Len(p) + 1
        <5>1. u = Append(p, Filler)
          <6>1. u # p
            BY <4>2, <3>5
          <6> QED
            BY <6>1 DEF UpToBoundary
        <5>2. u[Len(p) + 1] = Filler
          BY <3>2, <5>1, Appended
        <5>3. Filler[1] = "filler"
          BY DEF Filler
        <5>4. ASSUME NEW i \in 1..Len(u), u[i][1] = "length" PROVE u[i][2] \in Nat
          <6>1. i # Len(p) + 1
            BY <5>2, <5>3, <5>4
          <6>2. i \in 1..Len(p)
            BY <3>5, <4>2, <6>1
          <6> QED
            BY <3>2, <3>4, <5>4, <6>2 DEF Measured
        <5> QED
          BY <5>4 DEF Measured
      <4> QED
        BY <3>4, <3>5, <4>1, <4>2
    <3>7. IsSeq(s) /\ Len(s) \in Nat
      <4>1. IsSeq(Subframe(frames[m], present))
        BY <1>0, <2>2 DEF Subframed
      <4> QED
        BY <4>1, Shape DEF s
    <3> HIDE DEF u
    <3> DEFINE c == chain[m]
    <3>8. IsJoin(c, u, s)
      BY <3>3
    <3> HIDE DEF c
    <3>9. ASSUME NEW i \in 1..Len(c), c[i][1] = "length" PROVE c[i][2] \in Nat
      <4>1. CASE i <= Len(u)
        <5>1. i \in 1..Len(u) /\ c[i] = u[i]
          BY <3>5, <3>8, <4>1 DEF IsJoin
        <5> QED
          BY <3>6, <3>9, <5>1 DEF Measured
      <4>2. CASE i > Len(u)
        <5>1. i - Len(u) \in 1..Len(s) /\ Len(u) + (i - Len(u)) = i
          BY <3>5, <3>7, <3>8, <4>2 DEF IsJoin
        <5>2. c[Len(u) + (i - Len(u))] = s[i - Len(u)]
          BY <3>8, <5>1 DEF IsJoin
        <5> QED
          BY <2>3, <3>9, <5>1, <5>2 DEF Measured, s
      <4> QED
        BY <3>5, <3>8, <3>7, <4>1, <4>2 DEF IsJoin
    <3>10. Measured(chain[m])
      BY <3>9 DEF Measured, c
    <3> QED
      BY <1>1, <2>1, <2>2, <3>10
  <2> QED
    BY <2>5, <2>6
<1>4. CASE Bad = {}
  BY <1>1, <1>4
<1> QED
  BY <1>3, <1>4

(* The start of a chain, d symbols of it.                                  *)
Begins(b, g, d) == IsSeq(b) /\ Len(b) = d /\ \A i \in 1..d : b[i] = g[i]

(* At a subframe that is all there the walk takes its packet, whole, and   *)
(* goes to the next.                                                       *)
LEMMA WalkFinds ==
  ASSUME None \notin Nat,
         NEW frames, NEW to, NEW from, NEW A, NEW P, Packed(frames, to, from, A, P),
         NEW present \in BOOLEAN, NEW chain, IsChain(chain, frames, present),
         NEW k \in 1..Len(frames), NEW d \in 0..Len(chain[k]), NEW b, Begins(b, chain[k], d),
         NEW i \in 1..k, Len(chain[i]) <= d
  PROVE  /\ Start(chain, i) \in 0..(d + 1) /\ ~Ends(b, Start(chain, i))
         /\ Found(b, Start(chain, i)) = <<Taken(to, from, A[i], P[i], Len(P[i]))>>
         /\ Start(chain, i) + 3 + LengthAt(b, Start(chain, i)) = Len(chain[i])
<1> DEFINE at == Start(chain, i)
           s == Subframe(frames[i], present)
           p == P[i]
           e == Len(chain[i])
           len == LengthAt(b, at)
           h == IF present THEN 3 ELSE 4
<1>01. Len(frames) \in Nat
  BY DEF Packed
<1>02. Subframed(frames, present)
  BY PackedSubframes
<1>0. Len(frames) \in Nat /\ Subframed(frames, present) /\ i \in 1..Len(frames)
  BY <1>01, <1>02
<1>1. SubframeOf(s, to, from, A[i], p, present) /\ IsSeq(p)
  BY <1>0, PackedSubframes DEF Packed
<1>2. /\ at \in Nat /\ e = at + Len(s) /\ e \in Nat /\ Len(s) \in Nat
  BY <1>0, LinkStands
<1>3. ASSUME NEW j \in 1..Len(s) PROVE at + j \in 1..d /\ b[at + j] = s[j]
  <2>1. at + j \in 1..e /\ chain[k][at + j] = s[j]
    BY <1>0, SubframeStands
  <2>2. Len(chain[k]) \in Nat
    BY <1>0, LinkStands
  <2> HIDE DEF at, s, e
  <2>3. at + j \in 1..d
    BY <1>2, <2>1, <2>2 DEF e
  <2> QED
    BY <2>1, <2>3 DEF Begins
<1>4. Len(chain[k]) \in Nat /\ d \in Nat /\ IsSeq(b) /\ Len(b) = d /\ e <= d
  BY <1>0, LinkStands DEF Begins
<1>5. Len(p) \in Nat
  BY <1>1, Shape
<1> HIDE DEF at, s, p, e
<1>60. (present => h = 3) /\ (~present => h = 4) /\ h \in 3..4
  OBVIOUS
<1>6. Len(s) = (5 + h) + Len(p) /\ h \in 3..4
  <2>1. Len(s) = (IF present THEN 8 ELSE 9) + Len(p)
    BY <1>1 DEF SubframeOf
  <2> QED
    BY <1>5, <1>60, <2>1
<1> HIDE DEF h
<1>7. s[1] = Address(to) /\ s[2] = Address(from) /\ s[3] = Length(Len(s) - 3)
  BY <1>1 DEF SubframeOf
<1>8. b[at + 1] = s[1] /\ b[at + 2] = s[2] /\ b[at + 3] = s[3]
  BY <1>2, <1>3, <1>5, <1>6
<1>9. len = Len(s) - 3
  <2>1. b[at + 3][1] = "length" /\ b[at + 3][2] = Len(s) - 3
    BY <1>7, <1>8 DEF Length
  <2> QED
    BY <2>1 DEF LengthAt
<1> HIDE DEF len
<1>10. Has(b, at + 2) /\ len # 0 /\ ~(at + 3 + len > Len(b)) /\ at + 3 + len = e
  <2>1. len = (2 + h) + Len(p) /\ h \in Nat
    BY <1>5, <1>6, <1>9
  <2>2. at + 3 + len = e
    BY <1>2, <1>9
  <2> QED
    BY <1>2, <1>4, <1>5, <1>6, <2>1, <2>2 DEF Has
<1>11. ~Ends(b, at)
  BY <1>10 DEF Ends, len
<1> DEFINE body == SubSeq(b, at + 4, at + 3 + len)
<1>12. Found(b, at) = OneEither(to, from, body)
  <2>1. b[at + 1][2] = to /\ b[at + 2][2] = from
    BY <1>7, <1>8 DEF Address
  <2> QED
    BY <2>1 DEF Found, len
<1>13. IsPiece(body, b, at + 4, at + 3 + len)
  <2>1. at + 4 \in Nat \ {0} /\ at + 3 + len \in Nat /\ at + 3 + len <= Len(b)
    BY <1>2, <1>4, <1>10
  <2> QED
    BY <1>4, <2>1, Piece
<1> HIDE DEF body
<1>14. IsSeq(body) /\ Len(body) = (2 + h) + Len(p)
  <2>1. at + 4 <= at + 3 + len /\ ((at + 3 + len) - (at + 4)) + 1 = (2 + h) + Len(p)
    BY <1>2, <1>5, <1>6, <1>9
  <2> QED
    BY <1>13, <2>1 DEF IsPiece
<1>15. ASSUME NEW j \in 1..Len(body) PROVE body[j] = s[3 + j]
  <2>1. body[j] = b[((at + 4) - 1) + j]
    <3>1. j \in 1..(((at + 3 + len) - (at + 4)) + 1)
      BY <1>2, <1>5, <1>6, <1>9, <1>14
    <3> QED
      BY <1>13, <3>1 DEF IsPiece
  <2>2. ((at + 4) - 1) + j = at + (3 + j) /\ 3 + j \in 1..Len(s)
    BY <1>2, <1>5, <1>6, <1>14
  <2> QED
    BY <1>3, <2>1, <2>2
<1>16. \A j \in 1..(5 + Len(p)) : s[h + j] = IF j <= 5 THEN Symbol(j, A[i]) ELSE p[j - 5]
  BY <1>1 DEF SubframeOf, h
<1>17. ~present => s[4] = Filler
  BY <1>1 DEF SubframeOf
<1>18. CASE present
  <2>1. h = 3 /\ Len(body) = 5 + Len(p)
    BY <1>5, <1>60, <1>14, <1>18
  <2>2. ASSUME NEW j \in 1..Len(body)
        PROVE  body[j] = IF j <= 5 THEN Symbol(j, A[i]) ELSE p[j - 5]
    BY <1>15, <1>16, <2>1
  <2>3. Contents(body, A[i], p)
    BY <1>5, <1>14, <2>1, <2>2 DEF Contents
  <2>4. OneEither(to, from, body) = <<Taken(to, from, A[i], p, Len(body) - 5)>>
    BY <1>1, <1>5, <2>1, <2>3, EitherOfContents
  <2>5. Len(body) - 5 = Len(p)
    BY <1>5, <2>1
  <2>6. Found(b, at) = <<Taken(to, from, A[i], p, Len(p))>>
    BY <1>12, <2>4, <2>5
  <2> QED
    BY <1>2, <1>4, <1>10, <1>11, <2>6 DEF at, p, e, len
<1>19. CASE ~present
  <2>1. h = 4 /\ Len(body) = 6 + Len(p)
    BY <1>5, <1>60, <1>14, <1>19
  <2>2. body[1] = Filler
    BY <1>5, <1>15, <1>17, <1>19, <2>1
  <2> DEFINE r == From(body, 1)
  <2>3. IsRest(r, body, 1)
    BY <1>14, Rest
  <2> HIDE DEF r
  <2>4. IsSeq(r) /\ Len(r) = 5 + Len(p)
    BY <1>5, <2>1, <2>3 DEF IsRest
  <2>5. ASSUME NEW j \in 1..Len(r)
        PROVE  r[j] = IF j <= 5 THEN Symbol(j, A[i]) ELSE p[j - 5]
    <3>1. r[j] = body[1 + j] /\ 1 + j \in 1..Len(body)
      BY <1>5, <2>1, <2>3, <2>4 DEF IsRest
    <3>2. body[1 + j] = s[3 + (1 + j)]
      BY <1>15, <3>1
    <3>3. 3 + (1 + j) = h + j
      BY <2>1
    <3> QED
      BY <1>16, <2>4, <3>1, <3>2, <3>3
  <2>6. Contents(r, A[i], p)
    BY <1>5, <2>4, <2>5 DEF Contents
  <2>7. OneEither(to, from, body) = <<Taken(to, from, A[i], p, Len(body) - 6)>>
    BY <1>1, <1>5, <1>14, <2>1, <2>2, <2>6, EitherOfFilled DEF r
  <2>8. Len(body) - 6 = Len(p)
    BY <1>5, <2>1
  <2>9. Found(b, at) = <<Taken(to, from, A[i], p, Len(p))>>
    BY <1>12, <2>7, <2>8
  <2> QED
    BY <1>2, <1>4, <1>10, <1>11, <2>9 DEF at, p, e, len
<1> QED
  BY <1>18, <1>19

(* A subframe that is not all there ends the walk, and so does the end.    *)
LEMMA WalkEnds ==
  ASSUME NEW frames, NEW to, NEW from, NEW A, NEW P, Packed(frames, to, from, A, P),
         NEW present \in BOOLEAN, NEW chain, IsChain(chain, frames, present),
         NEW k \in 1..Len(frames), NEW d \in 0..Len(chain[k]), NEW b, Begins(b, chain[k], d),
         NEW i \in 1..k, Len(chain[i]) > d
  PROVE  Ends(b, Start(chain, i))
<1> DEFINE at == Start(chain, i)
           s == Subframe(frames[i], present)
           e == Len(chain[i])
<1>01. Len(frames) \in Nat
  BY DEF Packed
<1>02. Subframed(frames, present)
  BY PackedSubframes
<1>0. Len(frames) \in Nat /\ Subframed(frames, present) /\ i \in 1..Len(frames)
  BY <1>01, <1>02
<1>1. s[3] = Length(Len(s) - 3) /\ Len(s) > 3
  BY <1>0, PackedSubframes DEF SubframeOf, Subframed
<1>2. at \in Nat /\ e = at + Len(s) /\ e \in Nat /\ Len(s) \in Nat
  BY <1>0, LinkStands
<1>3. Len(chain[k]) \in Nat /\ d \in Nat /\ Len(b) = d /\ e > d
  BY <1>0, LinkStands DEF Begins
<1>4. chain[k][at + 3] = s[3]
  <2>1. 3 \in 1..Len(s)
    BY <1>1, <1>2
  <2> QED
    BY <1>0, <2>1, SubframeStands
<1> HIDE DEF at, s, e
<1>5. CASE ~Has(b, at + 2)
  BY <1>5 DEF Ends, at
<1>6. CASE Has(b, at + 2)
  <2>1. at + 3 \in 1..d
    BY <1>2, <1>3, <1>6 DEF Has
  <2>2. b[at + 3] = Length(Len(s) - 3)
    BY <1>1, <1>4, <2>1 DEF Begins
  <2>3. b[at + 3][1] = "length" /\ b[at + 3][2] = Len(s) - 3
    BY <2>2 DEF Length
  <2>4. LengthAt(b, at) = Len(s) - 3
    BY <2>3 DEF LengthAt
  <2>5. at + 3 + LengthAt(b, at) > Len(b)
    BY <1>2, <1>3, <2>4
  <2> QED
    BY <2>5 DEF Ends, at
<1> QED
  BY <1>5, <1>6

(* g is f, led by x.                                                       *)
IsLed(g, x, f, n) ==
  /\ n \in Nat /\ f = [j \in 1..n |-> f[j]] /\ g = [j \in 1..(n + 1) |-> g[j]]
  /\ g[1] = x /\ \A j \in 1..n : g[1 + j] = f[j]

(* One symbol put before others.                                           *)
LEMMA Led ==
  ASSUME NEW n, NEW f, NEW g, NEW x, IsLed(g, x, f, n)
  PROVE  <<x>> \o f = g
<1>0. n \in Nat /\ f = [j \in 1..n |-> f[j]] /\ g = [j \in 1..(n + 1) |-> g[j]]
  BY DEF IsLed
<1>00. g[1] = x /\ \A j \in 1..n : g[1 + j] = f[j]
  BY DEF IsLed
<1> DEFINE one == <<x>>
           r == one \o f
<1>1. IsSeq(one) /\ Len(one) = 1 /\ one[1] = x
  <2>1. DOMAIN one = 1..1 /\ one = [i \in 1..1 |-> one[i]] /\ one[1] = x
    OBVIOUS
  <2> HIDE DEF one
  <2> QED
    BY <2>1, Listed
<1>2. IsSeq(f) /\ Len(f) = n
  <2>1. DOMAIN f = 1..n
    BY <1>0
  <2> QED
    BY <1>0, <2>1, Listed
<1>3. IsSeq(g) /\ Len(g) = n + 1
  <2>1. n + 1 \in Nat /\ DOMAIN g = 1..(n + 1)
    BY <1>0
  <2> QED
    BY <1>0, <2>1, Listed
<1> HIDE DEF one
<1>4. IsJoin(r, one, f)
  BY <1>1, <1>2, Joined
<1> HIDE DEF r
<1>5. IsSeq(r) /\ Len(r) = n + 1
  BY <1>0, <1>1, <1>2, <1>4 DEF IsJoin
<1>6. ASSUME NEW j \in 1..(n + 1) PROVE r[j] = g[j]
  <2>1. CASE j = 1
    BY <1>00, <1>1, <1>4, <2>1 DEF IsJoin
  <2>2. CASE j # 1
    <3>1. j - 1 \in 1..n /\ 1 + (j - 1) = j
      BY <1>0, <2>2
    <3>2. r[1 + (j - 1)] = f[j - 1]
      BY <1>1, <1>2, <1>4, <3>1 DEF IsJoin
    <3>3. g[1 + (j - 1)] = f[j - 1]
      BY <1>00, <3>1
    <3> QED
      BY <3>1, <3>2, <3>3
  <2> QED
    BY <1>0, <2>1, <2>2
<1>7. r = g
  BY <1>0, <1>3, <1>5, <1>6, Same
<1> QED
  BY <1>7 DEF r, one

(* How many of the links end by d.                                         *)
Reaches(chain, k, d, K) ==
  K \in 0..k /\ \A j \in 1..k : Len(chain[j]) <= d <=> j <= K

(* Some number of subframes ends by d.                                     *)
LEMMA SomeReach ==
  ASSUME NEW frames, NEW present, NEW chain, IsChain(chain, frames, present),
         Subframed(frames, present), NEW k \in 1..Len(frames), NEW d \in Nat
  PROVE  \E K : Reaches(chain, k, d, K)
<1> DEFINE S == {j \in 1..(k + 1) : j = k + 1 \/ Len(chain[j]) > d}
<1>0. k \in Nat /\ Len(frames) \in Nat /\ k <= Len(frames)
  BY DEF Subframed
<1>1. S \in SUBSET Nat /\ k + 1 \in S
  BY <1>0
<1>2. \A j \in 1..(k + 1) : j \in S <=> j = k + 1 \/ Len(chain[j]) > d
  OBVIOUS
<1>3. \A j \in S : j \in 1..(k + 1)
  OBVIOUS
<1> HIDE DEF S
<1>4. PICK m \in S : \A j \in S : m <= j
  BY <1>1, Least
<1>5. m \in 1..(k + 1) /\ m - 1 \in 0..k
  BY <1>0, <1>3
<1>6. ASSUME NEW j \in 1..k PROVE Len(chain[j]) <= d <=> j <= m - 1
  <2>1. Len(chain[j]) \in Nat
    BY <1>0, LinkStands
  <2>2. CASE j < m
    <3>1. j \in 1..(k + 1) /\ j # k + 1 /\ j \notin S
      BY <1>0, <1>4, <1>5, <2>2
    <3> QED
      BY <1>2, <1>5, <2>1, <2>2, <3>1
  <2>3. CASE j >= m
    <3>1. m \in 1..k /\ m \in 1..j /\ j \in 1..Len(frames)
      BY <1>0, <1>5, <2>3
    <3>2. Len(chain[m]) > d
      BY <1>0, <1>2, <1>5, <3>1
    <3>3. Len(chain[m]) \in Nat /\ Len(chain[m]) <= Len(chain[j])
      BY <3>1, ChainPrefix
    <3> QED
      BY <1>5, <2>1, <2>3, <3>2, <3>3
  <2> QED
    BY <1>5, <2>2, <2>3
<1> QED
  BY <1>5, <1>6 DEF Reaches

(* The first K packets.                                                    *)
Packets(to, from, A, P, K) == [j \in 1..K |-> Taken(to, from, A[j], P[j], Len(P[j]))]

(* A walk over the start of a chain takes the packets of the subframes that*)
(* are all there, in their order (data.rs:302-330).                        *)
LEMMA WalkYields ==
  ASSUME None \notin Nat,
         NEW frames, NEW to, NEW from, NEW A, NEW P, Packed(frames, to, from, A, P),
         NEW present \in BOOLEAN, NEW chain, IsChain(chain, frames, present),
         NEW k \in 1..Len(frames), NEW d \in 0..Len(chain[k]), NEW b, Begins(b, chain[k], d),
         NEW K, Reaches(chain, k, d, K), NEW w, IsWalk(w, b)
  PROVE  w[0] = Packets(to, from, A, P, K)
<1> DEFINE Pk(i) == Taken(to, from, A[i], P[i], Len(P[i]))
           Due(x) == [j \in 1..x |-> Pk((K - x) + j)]
           Good(x) == w[Start(chain, (K + 1) - x)] = Due(x)
           Bad == {x \in 0..K : ~Good(x)}
<1>01. Len(frames) \in Nat
  BY DEF Packed
<1>02. Subframed(frames, present)
  BY PackedSubframes
<1>0. k \in Nat /\ K \in 0..k /\ Len(chain[k]) \in Nat /\ d \in Nat /\ IsSeq(b) /\ Len(b) = d
  BY <1>01, <1>02, LinkStands DEF Reaches, Begins
<1>1. \A x \in 0..K : x \notin Bad <=> Good(x)
  BY Zenon
<1>2. Bad \in SUBSET Nat /\ \A x \in Bad : x \in 0..K
  BY <1>0
<1> HIDE DEF Bad
<1>3. Good(0)
  <2> DEFINE at == Start(chain, K + 1)
  <2>1. at \in 0..(d + 1)
    <3>1. CASE K = 0
      BY <1>0, <3>1 DEF Start
    <3>2. CASE K # 0
      <4>1. K \in 1..k /\ K \in 1..Len(frames) /\ K + 1 # 1 /\ (K + 1) - 1 = K
        BY <1>0, <1>01, <3>2
      <4>2. Len(chain[K]) <= d /\ Len(chain[K]) \in Nat /\ IsSeq(chain[K])
        <5>1. IsSeq(chain[K])
          BY <4>1, <1>02, ChainLinks
        <5>2. Len(chain[K]) <= d
          BY <1>0, <4>1 DEF Reaches
        <5> QED
          BY <5>1, <5>2, Shape
      <4>3. at = Boundary(Len(chain[K]))
        BY <4>1 DEF Start
      <4>4. Boundary(Len(chain[K])) \in Len(chain[K])..(Len(chain[K]) + 1)
        BY <4>2, UpToBoundaryIs
      <4> HIDE DEF at
      <4> QED
        BY <1>0, <4>2, <4>3, <4>4
    <3> QED
      BY <3>1, <3>2
  <2>2. Ends(b, at)
    <3>1. CASE K < k
      <4>1. K + 1 \in 1..k
        BY <1>0, <3>1
      <4>2. Len(chain[K + 1]) > d
        <5>1. ~(Len(chain[K + 1]) <= d)
          BY <1>0, <4>1 DEF Reaches
        <5>2. Len(chain[K + 1]) \in Nat
          <6>1. K + 1 \in 1..Len(frames)
            BY <1>0, <1>01, <4>1
          <6> QED
            BY <6>1, <1>02, LinkStands
        <5> QED
          BY <1>0, <5>1, <5>2
      <4> QED
        BY <4>1, <4>2, WalkEnds
    <3>2. CASE K = k
      <4>1. Len(chain[k]) <= d
        BY <1>0, <3>2 DEF Reaches
      <4>2. at = Boundary(Len(chain[k]))
        BY <1>0, <3>2 DEF Start
      <4>3. IsSeq(chain[k])
        BY <1>02, ChainLinks
      <4>4. Boundary(Len(chain[k])) \in Len(chain[k])..(Len(chain[k]) + 1)
        BY <4>3, UpToBoundaryIs
      <4> HIDE DEF at
      <4>5. ~Has(b, at + 2)
        BY <1>0, <4>1, <4>2, <4>4 DEF Has
      <4> QED
        BY <4>5 DEF Ends
    <3> QED
      BY <1>0, <3>1, <3>2
  <2>3. w[at] = <<>>
    BY <1>0, <2>1, <2>2 DEF IsWalk
  <2>4. (K + 1) - 0 = K + 1
    BY <1>0
  <2>5. Due(0) = <<>>
    OBVIOUS
  <2> QED
    BY <2>3, <2>4, <2>5
<1>4. CASE Bad # {}
  <2>1. PICK x \in Bad : \A y \in Bad : x <= y
    BY <1>2, <1>4, Least
  <2>2. x \in 1..K /\ x - 1 \in 0..K /\ x - 1 \notin Bad
    <3>1. x \in 0..K /\ 0 \in 0..K
      BY <1>0, <1>2
    <3>2. x # 0
      BY <1>1, <1>3, <2>1, <3>1
    <3> QED
      BY <1>0, <2>1, <3>1, <3>2
  <2>3. Good(x - 1)
    BY <1>1, <2>2
  <2> DEFINE i == (K + 1) - x
             at == Start(chain, i)
             f == Due(x - 1)
             g == Due(x)
  <2>4. i \in 1..k /\ (K + 1) - (x - 1) = i + 1 /\ i <= K /\ (i + 1) - 1 = i /\ i + 1 # 1
    BY <1>0, <2>2
  <2>5. w[Start(chain, i + 1)] = f
    BY <2>3, <2>4
  <2>6. Start(chain, i + 1) = Boundary(Len(chain[i]))
    BY <2>4 DEF Start
  <2> HIDE DEF i
  <2>7. Len(chain[i]) <= d
    BY <1>0, <2>4 DEF Reaches
  <2>8. /\ at \in 0..(d + 1) /\ ~Ends(b, at)
        /\ Found(b, at) = <<Pk(i)>>
        /\ at + 3 + LengthAt(b, at) = Len(chain[i])
    BY <2>4, <2>7, WalkFinds
  <2>9. w[at] = Found(b, at) \o w[Boundary(at + 3 + LengthAt(b, at))]
    BY <1>0, <2>8 DEF IsWalk
  <2>10. w[at] = <<Pk(i)>> \o f
    BY <2>5, <2>6, <2>8, <2>9
  <2>11. x - 1 \in Nat /\ (x - 1) + 1 = x
    BY <1>0, <2>2
  <2>12. f = [j \in 1..(x - 1) |-> f[j]]
    BY Zenon
  <2>13. g = [j \in 1..x |-> g[j]]
    BY Zenon
  <2>14. g[1] = Pk(i)
    <3>1. (K - x) + 1 = i /\ 1 \in 1..x
      BY <1>0, <2>2 DEF i
    <3> QED
      BY <3>1
  <2>15. ASSUME NEW j \in 1..(x - 1) PROVE g[1 + j] = f[j]
    <3>1. 1 + j \in 1..x /\ (K - x) + (1 + j) = (K - (x - 1)) + j
      BY <1>0, <2>2
    <3> HIDE DEF Pk
    <3>2. g[1 + j] = Pk((K - x) + (1 + j)) /\ f[j] = Pk((K - (x - 1)) + j)
      BY <3>1
    <3> QED
      BY <3>1, <3>2
  <2> HIDE DEF f, g, at, Pk
  <2>16. <<Pk(i)>> \o f = g
    <3> DEFINE n == x - 1
               a == Pk(i)
    <3>1. n \in Nat /\ g = [j \in 1..(n + 1) |-> g[j]]
      BY <2>11, <2>13
    <3>2. f = [j \in 1..n |-> f[j]] /\ g[1] = a /\ \A j \in 1..n : g[1 + j] = f[j]
      BY <2>12, <2>14, <2>15
    <3> HIDE DEF n, a
    <3>3. IsLed(g, a, f, n)
      BY <3>1, <3>2 DEF IsLed
    <3>4. <<a>> \o f = g
      BY <3>3, Led
    <3> QED
      BY <3>4 DEF a
  <2>17. Good(x)
    BY <2>10, <2>16 DEF at, i, g
  <2> QED
    BY <1>1, <1>2, <2>1, <2>17
<1>5. CASE Bad = {}
  <2>1. Good(K)
    BY <1>0, <1>1, <1>5
  <2>2. (K + 1) - K = 1 /\ Start(chain, 1) = 0
    BY <1>0 DEF Start
  <2>3. Due(K) = Packets(to, from, A, P, K)
    <3>1. \A j \in 1..K : (K - K) + j = j
      BY <1>0
    <3> QED
      BY <3>1 DEF Packets
  <2> QED
    BY <2>1, <2>2, <2>3
<1> QED
  BY <1>4, <1>5

(* The header of an aggregate.                                             *)
HeadOf(frame, present) == [SubSeq(frame, 1, QOS_HEADER_LEN) EXCEPT ![6] = QosControl(present)]

(* An aggregate, by its chain.                                             *)
LEMMA AggregateIs ==
  ASSUME NEW frames, NEW present, Len(frames) \in Nat \ {0}
  PROVE  \E chain : /\ IsChain(chain, frames, present)
                    /\ Aggregate(frames, present) = HeadOf(frames[1], present) \o chain[Len(frames)]
BY ChainIs DEF IsChain, HeadOf

(* The head of an aggregate carries the addresses of its first frame.      *)
LEMMA HeadIs ==
  ASSUME NEW f, NEW to, NEW from, NEW awdl, NEW packet, IsSeq(packet),
         Wraps(f, to, from, awdl, packet), NEW present
  PROVE  /\ IsSeq(HeadOf(f, present)) /\ Len(HeadOf(f, present)) = 6
         /\ Headed(HeadOf(f, present), to, from, present)
<1> DEFINE s == SubSeq(f, 1, 6)
           h == HeadOf(f, present)
<1>0. IsSeq(f) /\ Len(f) = 11 + Len(packet) /\ Len(packet) \in Nat
  BY Shape DEF Wraps
<1>1. IsPiece(s, f, 1, 6)
  <2>1. 1 \in Nat \ {0} /\ 6 \in Nat /\ 6 <= Len(f)
    BY <1>0
  <2> QED
    BY <1>0, <2>1, Piece
<1>2. h = [s EXCEPT ![6] = QosControl(present)]
  BY DEF HeadOf, QOS_HEADER_LEN
<1> HIDE DEF s
<1>3. IsSeq(s) /\ Len(s) = 6 /\ s[1] = f[1] /\ s[2] = f[2] /\ s[3] = f[3]
  BY <1>1 DEF IsPiece
<1>4. DOMAIN s = 1..6 /\ s = [i \in 1..6 |-> s[i]]
  BY <1>3, Shape
<1>5. /\ h[6] = QosControl(present) /\ h[1] = s[1] /\ h[2] = s[2] /\ h[3] = s[3]
      /\ DOMAIN h = 1..6 /\ h = [i \in 1..6 |-> h[i]]
  <2> DEFINE x == QosControl(present)
  <2>1. h = [s EXCEPT ![6] = x]
    BY <1>2
  <2> HIDE DEF h, x
  <2>2. h[6] = x /\ h[1] = s[1] /\ h[2] = s[2] /\ h[3] = s[3] /\ DOMAIN h = 1..6
    BY <1>4, <2>1
  <2>3. h = [i \in 1..6 |-> h[i]]
    BY <1>4, <2>1
  <2> QED
    BY <2>2, <2>3 DEF x
<1> HIDE DEF h
<1>6. IsSeq(h) /\ Len(h) = 6
  BY <1>5, Listed
<1>7. h[1] = f[1] /\ h[2] = f[2] /\ h[3] = f[3]
  BY <1>3, <1>5
<1>8. Headed(h, to, from, present)
  BY <1>5, <1>6, <1>7 DEF Headed, Wraps
<1> QED
  BY <1>6, <1>8 DEF h

(* The chain of the first n frames is the start of the whole.              *)
LEMMA PrefixChains ==
  ASSUME NEW frames, IsSeq(frames), NEW present, NEW chain, IsChain(chain, frames, present),
         NEW n \in 1..Len(frames), NEW other, IsChain(other, SubSeq(frames, 1, n), present)
  PROVE  other[n] = chain[n] /\ Len(SubSeq(frames, 1, n)) = n /\ SubSeq(frames, 1, n)[1] = frames[1]
<1> DEFINE s == SubSeq(frames, 1, n)
           Bad == {m \in 1..n : other[m] # chain[m]}
<1>0. Len(frames) \in Nat /\ n \in Nat /\ n >= 1
  BY Shape
<1>1. IsPiece(s, frames, 1, n)
  <2>1. 1 \in Nat \ {0} /\ n \in Nat /\ n <= Len(frames)
    BY <1>0
  <2> QED
    BY <2>1, Piece
<1>2. IsChain(other, s, present)
  OBVIOUS
<1> HIDE DEF s
<1>3. Len(s) = n /\ \A i \in 1..n : s[i] = frames[i]
  BY <1>0, <1>1 DEF IsPiece
<1>4. \A m \in 1..n : m \notin Bad <=> other[m] = chain[m]
  OBVIOUS
<1>5. Bad \in SUBSET Nat /\ \A m \in Bad : m \in 1..n
  BY <1>0
<1> HIDE DEF Bad
<1>6. ASSUME NEW m \in 1..n
      PROVE  /\ other[m] = IF m = 1 THEN Subframe(frames[1], present)
                           ELSE UpToBoundary(other[m - 1]) \o Subframe(frames[m], present)
             /\ chain[m] = IF m = 1 THEN Subframe(frames[1], present)
                           ELSE UpToBoundary(chain[m - 1]) \o Subframe(frames[m], present)
  <2>1. m \in 1..Len(frames) /\ m \in 1..Len(s) /\ s[m] = frames[m] /\ s[1] = frames[1]
    BY <1>0, <1>3
  <2>2. other[m] = IF m = 1 THEN Subframe(s[1], present)
                   ELSE UpToBoundary(other[m - 1]) \o Subframe(s[m], present)
    BY <1>2, <2>1, Zenon DEF IsChain
  <2>3. chain[m] = IF m = 1 THEN Subframe(frames[1], present)
                   ELSE UpToBoundary(chain[m - 1]) \o Subframe(frames[m], present)
    BY <2>1, Zenon DEF IsChain
  <2> QED
    BY <2>1, <2>2, <2>3
<1>7. CASE Bad # {}
  <2>1. PICK m \in Bad : \A k \in Bad : m <= k
    BY <1>5, <1>7, Least
  <2>2. CASE m = 1
    BY <1>4, <1>5, <1>6, <2>1, <2>2
  <2>3. CASE m # 1
    <3>1. m \in 1..n /\ m - 1 \in 1..n /\ m - 1 \notin Bad
      BY <1>0, <1>5, <2>1, <2>3
    <3>2. other[m - 1] = chain[m - 1]
      BY <1>4, <3>1
    <3>3. other[m] = chain[m]
      BY <1>6, <2>3, <3>1, <3>2
    <3> QED
      BY <1>4, <2>1, <3>1, <3>3
  <2> QED
    BY <2>2, <2>3
<1>8. CASE Bad = {}
  <2>1. other[n] = chain[n]
    BY <1>0, <1>4, <1>8
  <2> QED
    BY <1>0, <1>3, <2>1 DEF s
<1> QED
  BY <1>7, <1>8

(* An aggregate of frames of ours, its bit set or not, cut anywhere, gives *)
(* the packets whose subframes are all there, each once, whole and in      *)
(* order, and nothing of the rest (data.rs:275-331).                       *)
THEOREM AggregateUnwraps ==
  ASSUME None \notin Nat,
         NEW frames, IsSeq(frames), NEW to, NEW from, NEW A, NEW P, Packed(frames, to, from, A, P),
         NEW present \in BOOLEAN, NEW c \in 0..Len(Aggregate(frames, present))
  PROVE  /\ IsSeq(Aggregate(frames, present)) /\ Len(Aggregate(frames, present)) \in Nat
         /\ \E K \in 0..Len(frames) :
              /\ \A i \in 1..Len(frames) :
                   Len(Aggregate(SubSeq(frames, 1, i), present)) <= c <=> i <= K
              /\ decapsulate_all(SubSeq(Aggregate(frames, present), 1, c))
                   = Packets(to, from, A, P, K)
<1> DEFINE k == Len(frames)
           g == Aggregate(frames, present)
           b == SubSeq(g, 1, c)
           h == HeadOf(frames[1], present)
           body == From(b, 6)
<1>01. k \in Nat \ {0} /\ k \in 1..k /\ 1 \in 1..k
  BY DEF Packed
<1>02. Subframed(frames, present)
  BY PackedSubframes
<1>1. PICK chain : IsChain(chain, frames, present) /\ g = h \o chain[k]
  BY <1>01, AggregateIs
<1>2. IsSeq(P[1]) /\ Wraps(frames[1], to, from, A[1], P[1])
  BY <1>01 DEF Packed
<1>3. IsSeq(h) /\ Len(h) = 6 /\ Headed(h, to, from, present)
  BY <1>2, HeadIs
<1>4. IsSeq(chain[k])
  BY <1>01, <1>02, <1>1, ChainLinks
<1> HIDE DEF h
<1>5. IsJoin(g, h, chain[k])
  BY <1>1, <1>3, <1>4, Joined
<1>6. Len(chain[k]) \in Nat
  BY <1>4, Shape
<1> HIDE DEF g
<1>7. IsSeq(g) /\ Len(g) = 6 + Len(chain[k])
  BY <1>3, <1>5 DEF IsJoin
<1>8. /\ g[1] = h[1] /\ g[2] = h[2] /\ g[3] = h[3] /\ g[6] = h[6]
      /\ \A i \in 1..Len(chain[k]) : g[6 + i] = chain[k][i]
  BY <1>3, <1>5 DEF IsJoin
<1>9. Headed(g, to, from, present)
  BY <1>3, <1>6, <1>7, <1>8 DEF Headed
<1>10. Headed(b, to, from, present) /\ IsPiece(b, g, 1, c) /\ Len(b) = c /\ c \in Nat /\ c <= Len(g)
  <2>1. c \in 0..Len(g) /\ c \in Nat /\ c <= Len(g)
    BY <1>6, <1>7 DEF g
  <2> QED
    BY <1>7, <1>9, <2>1, StartIsHeaded
<1> HIDE DEF b
<1>11. IsSeq(b)
  BY <1>10 DEF IsPiece
<1>12. IsRest(body, b, 6)
  BY <1>11, Rest
<1>13. decapsulate_all(b) =
           IF Len(b) < 6 THEN <<>>
           ELSE IF present \/ (Len(body) >= 2 /\ body[1] = Address(to) /\ body[2] = Address(from))
                THEN Subframes(body) ELSE OneEither(to, from, body)
  BY <1>10, DecapsulateByHeader
<1> HIDE DEF body
<1>14. ASSUME NEW i \in 1..k
       PROVE  Len(Aggregate(SubSeq(frames, 1, i), present)) = 6 + Len(chain[i])
  <2> DEFINE s == SubSeq(frames, 1, i)
  <2>1. IsPiece(s, frames, 1, i)
    <3>1. 1 \in Nat \ {0} /\ i \in Nat /\ i <= Len(frames)
      BY <1>01
    <3> QED
      BY <3>1, Piece
  <2>2. Len(s) = i /\ i \in Nat \ {0}
    BY <1>01, <2>1 DEF IsPiece
  <2>3. PICK other : /\ IsChain(other, s, present)
                     /\ Aggregate(s, present) = HeadOf(s[1], present) \o other[Len(s)]
    BY <2>2, AggregateIs
  <2>4. other[i] = chain[i] /\ s[1] = frames[1]
    BY <1>1, <2>3, PrefixChains
  <2>5. Aggregate(s, present) = h \o chain[i]
    BY <2>2, <2>3, <2>4 DEF h
  <2>6. IsSeq(chain[i])
    BY <1>02, <1>1, ChainLinks
  <2>7. IsJoin(h \o chain[i], h, chain[i])
    BY <1>3, <2>6, Joined
  <2> QED
    BY <1>3, <2>5, <2>7 DEF IsJoin
<1>15. ASSUME NEW i \in 1..k PROVE Len(chain[i]) \in Nat /\ Len(chain[i]) > 3
  <2> DEFINE s == Subframe(frames[i], present)
             e == Len(chain[i])
             m == Len(s)
             at == Start(chain, i)
  <2>1. at \in Nat /\ e = at + m /\ e \in Nat /\ m \in Nat
    BY <1>02, <1>1, LinkStands
  <2>2. m > 3
    BY <1>02 DEF Subframed
  <2> HIDE DEF e, m, at
  <2>3. e > 3
    BY <2>1, <2>2
  <2> QED
    BY <2>1, <2>3 DEF e
<1>16. \A K : Reaches(chain, k, c - 6, K) =>
         /\ K \in 0..k
         /\ \A i \in 1..k : Len(Aggregate(SubSeq(frames, 1, i), present)) <= c <=> i <= K
  <2> SUFFICES ASSUME NEW K, Reaches(chain, k, c - 6, K), NEW i \in 1..k
               PROVE  K \in 0..k /\ (Len(Aggregate(SubSeq(frames, 1, i), present)) <= c <=> i <= K)
    BY DEF Reaches
  <2> DEFINE x == Len(chain[i])
             a == Len(Aggregate(SubSeq(frames, 1, i), present))
  <2>1. a = 6 + x /\ x \in Nat
    BY <1>14, <1>15
  <2>2. K \in 0..k /\ (x <= c - 6 <=> i <= K)
    BY DEF Reaches
  <2> HIDE DEF x, a
  <2>3. x <= c - 6 <=> a <= c
    BY <1>10, <2>1
  <2> QED
    BY <2>2, <2>3 DEF a
<1>17. CASE c < 6 \/ (~present /\ c < 8)
  <2>1. decapsulate_all(b) = <<>>
    <3>1. CASE c < 6
      BY <1>10, <1>13, <3>1
    <3>2. CASE c >= 6 /\ ~present
      <4> DEFINE d == c - 6
                 r == From(body, 1)
      <4>1. d \in 0..1 /\ Len(body) = d /\ IsSeq(body)
        BY <1>10, <1>12, <1>17, <3>2 DEF IsRest
      <4>2. decapsulate_all(b) = OneEither(to, from, body)
        <5>1. ~(Len(b) < 6) /\ ~(Len(body) >= 2)
          BY <1>10, <3>2, <4>1
        <5> QED
          BY <1>13, <3>2, <5>1
      <4>3. Len(body) > 0 => body[1] = Address(to)
        <5> SUFFICES ASSUME Len(body) > 0 PROVE body[1] = Address(to)
          OBVIOUS
        <5>1. body[1] = b[6 + 1]
          BY <1>10, <1>12, <4>1 DEF IsRest
        <5>2. c = 7
          BY <1>10, <4>1
        <5>3. b[6 + 1] = g[6 + 1]
          BY <1>10, <5>2 DEF IsPiece
        <5>4. g[6 + 1] = chain[k][1]
          <6>1. 1 \in 1..Len(chain[k])
            BY <1>01, <1>6, <1>15
          <6> QED
            BY <1>8, <6>1
        <5>5. chain[k][1] = Address(to)
          <6>1. SubframeOf(Subframe(frames[1], present), to, from, A[1], P[1], present)
            BY <1>01, PackedSubframes
          <6>2. 1 \in 1..Len(Subframe(frames[1], present))
            <7>1. IsSeq(Subframe(frames[1], present)) /\ Len(Subframe(frames[1], present)) > 3
              BY <1>01, <1>02 DEF Subframed
            <7>2. Len(Subframe(frames[1], present)) \in Nat
              BY <7>1, Shape
            <7> QED
              BY <7>1, <7>2
          <6>3. chain[k][Start(chain, 1) + 1] = Subframe(frames[1], present)[1]
            BY <1>01, <1>02, <1>1, <6>2, SubframeStands
          <6>4. Start(chain, 1) + 1 = 1
            BY DEF Start
          <6> QED
            BY <6>1, <6>3, <6>4 DEF SubframeOf
        <5> QED
          BY <5>1, <5>3, <5>4, <5>5
      <4>4. One(to, from, body) = <<>>
        <5>1. Len(body) \in Nat /\ (Len(body) > 0 => body[1] # SNAP_AWDL)
          BY <4>1, <4>3, SymbolsDiffer
        <5> QED
          BY <5>1, OneOfOthers
      <4>5. IsRest(r, body, 1)
        BY <4>1, Rest
      <4> HIDE DEF r
      <4>6. Len(r) = 0
        BY <4>1, <4>5 DEF IsRest
      <4>7. One(to, from, r) = <<>>
        BY <4>6, OneOfOthers
      <4> QED
        BY <4>2, <4>4, <4>7 DEF OneEither, r
    <3> QED
      BY <1>10, <1>17, <3>1, <3>2
  <2>2. Reaches(chain, k, c - 6, 0)
    <3>1. \A i \in 1..k : ~(Len(chain[i]) <= c - 6) /\ ~(i <= 0)
      BY <1>10, <1>15, <1>17
    <3> QED
      BY <1>01, <3>1 DEF Reaches
  <2>3. Packets(to, from, A, P, 0) = <<>>
    BY DEF Packets
  <2>4. 0 \in 0..k
    BY <1>01
  <2>5. \A i \in 1..k : Len(Aggregate(SubSeq(frames, 1, i), present)) <= c <=> i <= 0
    BY <1>16, <2>2
  <2> QED
    BY <1>6, <1>7, <2>1, <2>3, <2>4, <2>5 DEF b, g
<1>18. CASE ~(c < 6 \/ (~present /\ c < 8))
  <2> DEFINE d == c - 6
  <2>1. d \in 0..Len(chain[k]) /\ d \in Nat /\ (present \/ d >= 2)
    BY <1>6, <1>7, <1>10, <1>18
  <2>2. Begins(body, chain[k], d)
    <3>1. IsSeq(body) /\ Len(body) = d
      BY <1>10, <1>12, <1>18 DEF IsRest
    <3>2. ASSUME NEW i \in 1..d PROVE body[i] = chain[k][i]
      <4>1. body[i] = b[6 + i]
        BY <1>10, <1>12, <1>18 DEF IsRest
      <4>2. b[6 + i] = g[6 + i]
        BY <1>10, <1>18 DEF IsPiece
      <4>3. i \in 1..Len(chain[k])
        BY <1>6, <2>1
      <4> QED
        BY <1>8, <4>1, <4>2, <4>3
    <3> QED
      BY <3>1, <3>2 DEF Begins
  <2>3. IsSeq(body) /\ Len(body) = d
    BY <2>2 DEF Begins
  <2>4. decapsulate_all(b) = Subframes(body)
    <3>1. CASE present
      BY <1>10, <1>13, <1>18, <3>1
    <3>2. CASE ~present
      <4>1. body[1] = chain[k][1] /\ body[2] = chain[k][2]
        BY <2>1, <2>2, <3>2 DEF Begins
      <4> DEFINE s == Subframe(frames[1], present)
      <4>2. SubframeOf(s, to, from, A[1], P[1], present)
        BY <1>01, PackedSubframes
      <4>3. IsSeq(s) /\ Len(s) > 3
        BY <1>01, <1>02 DEF Subframed
      <4>4. 1 \in 1..Len(s) /\ 2 \in 1..Len(s)
        BY <4>3, Shape
      <4>5. chain[k][Start(chain, 1) + 1] = s[1] /\ chain[k][Start(chain, 1) + 2] = s[2]
        BY <1>01, <1>02, <1>1, <4>4, SubframeStands
      <4>6. Start(chain, 1) + 1 = 1 /\ Start(chain, 1) + 2 = 2
        BY DEF Start
      <4> HIDE DEF s
      <4>7. body[1] = Address(to) /\ body[2] = Address(from)
        BY <4>1, <4>2, <4>5, <4>6 DEF SubframeOf
      <4>8. Len(body) >= 2 /\ ~(Len(b) < 6)
        BY <1>10, <1>18, <2>1, <2>3, <3>2
      <4> QED
        BY <1>13, <4>7, <4>8
    <3> QED
      BY <3>1, <3>2
  <2>5. Measured(chain[k])
    BY <1>01, <1>1, ChainMeasured
  <2>6. Measured(body)
    BY <1>6, <2>1, <2>2, <2>5 DEF Measured, Begins
  <2>7. PICK w : IsWalk(w, body) /\ Subframes(body) = w[0]
    BY <2>3, <2>6, SubframesWalk
  <2>8. PICK K : Reaches(chain, k, d, K)
    BY <1>01, <1>02, <1>1, <2>1, SomeReach
  <2>9. w[0] = Packets(to, from, A, P, K)
    <3> HIDE DEF d
    <3>1. d \in 0..Len(chain[Len(frames)])
      BY <2>1
    <3>2. Begins(body, chain[Len(frames)], d) /\ Reaches(chain, Len(frames), d, K)
      BY <2>2, <2>8
    <3>3. IsWalk(w, body) /\ IsChain(chain, frames, present) /\ Len(frames) \in 1..Len(frames)
      BY <1>01, <1>1, <2>7
    <3> QED
      BY <3>1, <3>2, <3>3, WalkYields
  <2>10. /\ K \in 0..k
         /\ \A i \in 1..k : Len(Aggregate(SubSeq(frames, 1, i), present)) <= c <=> i <= K
    BY <1>16, <2>8
  <2>11. decapsulate_all(b) = Packets(to, from, A, P, K)
    BY <2>4, <2>7, <2>9
  <2> QED
    BY <1>6, <1>7, <2>10, <2>11 DEF b, g
<1> QED
  BY <1>17, <1>18
=============================================================================
