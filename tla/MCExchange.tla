----------------------------- MODULE MCExchange ----------------------------
(* Two stations of ours and one of another make, which is also sent to,    *)
(* asked for an agreement, and sends what a receiver must tell apart: a    *)
(* packet in the long form, data of no use (another vendor's, or without   *)
(* QoS control), a BlockAck, and three beacons: its own claim, with a      *)
(* Legacy schedule beside the OpClass one or without it (then a session    *)
(* locked to 149 finds no window among the 40 MHz centres listed, and keeps*)
(* its own), and a relay of p's.  The configurations                       *)
(* are those of the shim (locked to one channel), of a session that hops,  *)
(* with a metric below the others' and with one above (which then keeps the*)
(* windows of a master it does not name), and of one that follows nobody.  *)
EXTENDS Exchange

CONSTANTS p, q, r

Macs == [n \in {p, q, r} |->
           [i \in 0..5 |-> IF i # 5 THEN 2 ELSE CASE n = p -> 10 [] n = q -> 11 [] n = r -> 12]]

(* ff02::fb, and an address made by hand.                                  *)
Mdns == [i \in 0..15 |-> IF i = 0 THEN 255 ELSE IF i = 1 THEN 2 ELSE IF i = 15 THEN 251 ELSE 0]
ByHand == [i \in 0..15 |-> IF i = 0 THEN 254 ELSE IF i = 1 THEN 128 ELSE 7]
OneGroup == {Mdns}
OneStranger == {ByHand}
Dials == [n \in {p, q} |-> IF n = q THEN <<>> ELSE
            <<{IpOf(q), Mdns}, {IpOf(q), ByHand}, {IpOf(q), IpOf(r)}, {IpOf(q)}>>]
Hearing == [n \in {p, q} |-> IF n = p THEN 1 ELSE 2]

To(n, fc, rest) == <<fc, Address(Mac(n)), Address(Mac(r)), Address(AWDL_BSSID), SequenceControl(0)>> \o rest
LongHeader ==
  <<DATA_HEADER_PREFIX, <<"awdl", 0>>, <<"tag", LONG_FORM, 1>>, Filler, <<"tag", 5, 1>>, Filler,
    <<"tag", LONG_FORM, 1>>, Filler, ETHERTYPE_IPV6>>

Started == [n \in {p, q, r} |-> IF n = q THEN 201608 ELSE 0]
Turns == {300000, 540000, 1188576}
Config(social, windows, single, metric, follow) ==
  [social_channel |-> social, assoc_channel |-> 0, windows |-> windows,
   single_channel |-> single, metric |-> metric, no_t24 |-> ~follow,
   stock_dp_shape |-> single, follow |-> follow, reactive |-> single]
Locked == Config(149, 16, TRUE, 510, TRUE)
Hopping == Config(149, 0, FALSE, 65, TRUE)
Alone6 == Config(44, 6, FALSE, 600, FALSE)
Strong == Config(149, 0, FALSE, 525, TRUE)
Configs == [n \in {p, q} |-> IF n = p THEN {Hopping, Strong, Alone6} ELSE {Locked}]

(* Packets without beacons, and beacons with one packet, fault or other.   *)
Talk == {[faults |-> 1, beacons |-> 0, events |-> 3],
         [faults |-> 1, beacons |-> 2, events |-> 1]}

Legacy149 ==
  [encoding |-> "Legacy", channels |-> [i \in Slot |-> IF i \in {2, 10} THEN 151 ELSE IF i = 8 THEN 6 ELSE 0],
   qualifiers |-> [i \in Slot |-> IF i \in {2, 10} THEN "Width40Lower" ELSE IF i = 8 THEN "Width20" ELSE "Absent"]]
Apple(master, metric, distance, opclass) ==
  LET said == [master |-> Mac(master), other |-> Mac(master), master_counter |-> 9,
               distance |-> distance, master_metric |-> metric, self_metric |-> 520, self_counter |-> 9]
      tlvs == <<<<4, [fixed |-> [tx_channel |-> 149, tx_counter |-> 0, master |-> Mac(master),
                                 presence_mode |-> 4, aw_counter |-> 33, aw_remaining |-> 7],
                      channel_sequence |-> Legacy149]>>>>
              \o (IF opclass THEN <<<<18, OpClassSequence(AppleShaped(149, 0))>>>> ELSE <<>>)
              \o <<<<24, said>>, <<12, describing(Mac(r), 149, 149)>>>>
  IN  [bytes |-> management_header(BROADCAST, Mac(r), 0) \o encode_body(Fixed(SUBTYPE_PSF, 5000, 4000), tlvs),
       needs |-> <<>>,
       claims |-> {[src |-> Mac(r), at |-> 0, own |-> FALSE, timed |-> FALSE, phy_tx_time |-> 5000,
                    tags |-> Meant(tlvs)]}]

Ordinary ==
  {[bytes |-> To(p, FC_QOS_DATA, <<QosControl(FALSE), SNAP_AWDL>> \o LongHeader \o Packet(r, 1, IpOf(p))),
    needs |-> <<16>>],
   [bytes |-> To(p, Fc(2, 0), <<SNAP_AWDL>> \o short_header(0, ETHERTYPE_IPV6) \o Packet(r, 1, IpOf(p))),
    needs |-> <<10>>],
   [bytes |-> To(p, FC_QOS_DATA, <<QosControl(FALSE), <<"snap", "other">>, Filler>>), needs |-> <<>>],
   [bytes |-> <<FC_BA, Address(Mac(p)), Address(Mac(r)), <<"control", DEFAULT_TID, 0>>, <<"bitmap", {0}>>>>,
    needs |-> <<>>]}
Apples == {Apple(r, 520, 0, TRUE), Apple(r, 520, 0, FALSE), Apple(p, 530, 1, TRUE)}
Frames == {[bytes |-> f.bytes, needs |-> f.needs, claims |-> {}] : f \in Ordinary} \cup Apples

(* All of them.  The comparison has TLC bring the sets within the frames   *)
(* into order once, before its workers share them.                         *)
FromThem == {f \in Frames : f \in Frames}
=============================================================================
