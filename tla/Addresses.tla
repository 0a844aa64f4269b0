------------------------------ MODULE Addresses -----------------------------
(***************************************************************************)
(* Where a packet goes, computed from its destination alone: the address   *)
(* rules of crates/tlink/src/data.rs, octet by octet.  AWDL resolves no    *)
(* addresses, so a sender computes the MAC back out of the link-local      *)
(* address, which the receiver's interface (crates/tlink-hal/src/tun.rs)   *)
(* computed from its own MAC.                                              *)
(***************************************************************************)
EXTENDS Integers, Sequences

CONSTANT None

Octet == 0..255
MAC == [0..5 -> Octet]
IPv6 == [0..15 -> Octet]

ASSUME AddressesAssumption == None \notin MAC

(* o ^ 0x02: the modified EUI-64 rule flips the second bit of the first    *)
(* octet.                                                                  *)
Flipped(o) == IF (o \div 2) % 2 = 1 THEN o - 2 ELSE o + 2

(* The constant octets of a modified EUI-64 link-local address, by index.  *)
LinkLocalPrefix ==
  [i \in 0..7 |-> IF i = 0 THEN 254 ELSE IF i = 1 THEN 128 ELSE 0]

IsLinkLocal(addr) ==
  /\ \A i \in 0..7 : addr[i] = LinkLocalPrefix[i]
  /\ addr[11] = 255
  /\ addr[12] = 254

(* The octet of an address that carries an octet of a MAC, and back.       *)
Carrier == <<8, 9, 10, 13, 14, 15>>
CarrierOf(i) == Carrier[i + 1]
CarriedBy(i) == IF i < 11 THEN i - 8 ELSE i - 10

link_local_from_mac(mac) ==
  [i \in 0..15 |->
     IF i < 8 THEN LinkLocalPrefix[i]
     ELSE IF i = 11 THEN 255
     ELSE IF i = 12 THEN 254
     ELSE IF i = 8 THEN Flipped(mac[0])
     ELSE mac[CarriedBy(i)]]

mac_from_link_local(addr) ==
  IF IsLinkLocal(addr)
  THEN [i \in 0..5 |-> IF i = 0 THEN Flipped(addr[8]) ELSE addr[CarrierOf(i)]]
  ELSE None

IsMulticast(addr) == addr[0] = 255

multicast_mac(addr) ==
  IF IsMulticast(addr)
  THEN [i \in 0..5 |-> IF i < 2 THEN 51 ELSE addr[i + 10]]
  ELSE None

is_ipv6_multicast(mac) == mac[0] = 51 /\ mac[1] = 51

(* A packet is what the tap handed us after its Ethernet header: its       *)
(* length, its IP version and its destination.                             *)
dst_mac_for_ipv6(pkt) ==
  IF pkt.len < 40 \/ pkt.version # 6 THEN None
  ELSE IF multicast_mac(pkt.dst) # None THEN multicast_mac(pkt.dst)
  ELSE mac_from_link_local(pkt.dst)
=============================================================================
