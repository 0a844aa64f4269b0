----------------------------- MODULE DataFrames ----------------------------
(***************************************************************************)
(* The 802.11 frames of the data path: how crates/tlink/src/data.rs wraps  *)
(* and unwraps a packet, what the radio may make of a frame in between,    *)
(* and the Block Ack frames of crates/tlink/src/blockack.rs.               *)
(*                                                                         *)
(* A frame is a sequence of symbols <<kind, value, ...>>: an address, a    *)
(* length, a SNAP signature is one symbol, and so is each pair of octets   *)
(* of a packet.  Lengths and offsets count symbols.  The alignment that    *)
(* the code works around survives: two octets are one symbol, a subframe   *)
(* header (14 octets) is odd, and a subframe starts on a four-octet        *)
(* boundary, an even number of symbols.                                    *)
(***************************************************************************)
EXTENDS Addresses

CONSTANT SeqMod    \* 802.11 sequence numbers (4096)

AWDL_BSSID == <<0, 37, 0, 255, 148, 115>>
DEFAULT_TID == 6
SNAP_AWDL == <<"snap", "apple">>
ETHERTYPE_IPV6 == <<"ethertype", "ipv6">>
DATA_HEADER_PREFIX == <<"prefix">>
LONG_FORM == 3

(* The first two octets: protocol version, type, subtype, Retry.           *)
Fc(type, subtype) == <<"fc", 0, type, subtype, FALSE>>
FC_QOS_DATA == Fc(2, 8)
FC_ACTION == Fc(0, 13)
FC_BA == Fc(1, 9)
Address(mac) == <<"address", mac>>
SequenceControl(n) == <<"sequence", n % SeqMod>>
QosControl(amsdu) == <<"qos", DEFAULT_TID, amsdu>>
Length(n) == <<"length", n>>
Filler == <<"filler", 0>>

(* Symbols of the QoS Data header; one fewer without QoS control.          *)
QOS_HEADER_LEN == 6

(* b.get(i..i + 1) and b.get(from..), for the symbol i counted from 0.     *)
Has(b, i) == i < Len(b)
From(b, i) == SubSeq(b, i + 1, Len(b))

-----------------------------------------------------------------------------
(* Sending.  Bytes 4 and 5 of the short form are its marker.               *)
short_header(sequence, ethertype) ==
  <<DATA_HEADER_PREFIX, <<"awdl", sequence>>, <<"tag", 0, 0>>, ethertype>>

FrameOf(src, dst, dot11_sequence, awdl_sequence, payload) ==
  <<FC_QOS_DATA, Address(dst), Address(src), Address(AWDL_BSSID),
    SequenceControl(dot11_sequence), QosControl(FALSE), SNAP_AWDL>>
    \o short_header(awdl_sequence, ETHERTYPE_IPV6) \o payload

(* dup[1] |= 0x08                                                          *)
Retried(frame) == [frame EXCEPT ![1][5] = TRUE]

-----------------------------------------------------------------------------
(* The radio.  It may put two octets between the header and the payload,   *)
(* and it may pack frames for one receiver into an A-MSDU: where it leaves *)
(* the A-MSDU Present bit clear, the two octets are in every subframe.     *)
Padded(frame) ==
  SubSeq(frame, 1, QOS_HEADER_LEN) \o <<Filler>> \o From(frame, QOS_HEADER_LEN)

Subframe(frame, present) ==
  LET inside == From(frame, QOS_HEADER_LEN)
      body == IF present THEN inside ELSE <<Filler>> \o inside
  IN  <<frame[2], frame[3], Length(Len(body))>> \o body

Boundary(n) == n + (n % 2)
UpToBoundary(b) == IF Len(b) % 2 = 0 THEN b ELSE Append(b, Filler)

Aggregate(frames, present) ==
  LET chain[n \in 1..Len(frames)] ==
        IF n = 1 THEN Subframe(frames[1], present)
        ELSE UpToBoundary(chain[n - 1]) \o Subframe(frames[n], present)
  IN  [SubSeq(frames[1], 1, QOS_HEADER_LEN) EXCEPT ![6] = QosControl(present)]
        \o chain[Len(frames)]

-----------------------------------------------------------------------------
(* Receiving.                                                              *)
IsFc(b) == Has(b, 0) /\ b[1][1] = "fc"

(* FrameControl::parse: the type, or None for nothing or another version.  *)
TypeOf(b) == IF IsFc(b) /\ b[1][2] = 0 THEN b[1][3] ELSE None
IsData(b) == TypeOf(b) = 2
HasQos(b) == b[1][4] >= 8

(* DataHeader::parse: where the packet starts in b, or None.  The long     *)
(* form puts a closed region of tags before the ethertype, and a region    *)
(* that runs off the end is refused.                                       *)
PayloadOffset(b) ==
  LET close[off \in 0..Len(b)] ==
        IF ~Has(b, off) THEN None
        ELSE IF b[off + 1][2] = LONG_FORM THEN off
        ELSE IF ~Has(b, off + 1 + b[off + 1][3]) THEN None
        ELSE close[off + 1 + b[off + 1][3]]
      opened == 3 + b[3][3]
      closing == IF opened > Len(b) THEN None ELSE close[opened]
      ethertype == IF b[3][2] # LONG_FORM THEN 3
                   ELSE IF closing = None THEN Len(b)
                   ELSE closing + 1 + b[closing + 1][3]
  IN  IF Has(b, 2) /\ Has(b, ethertype) THEN ethertype + 1 ELSE None

(* One packet: the signature is checked, never skipped.                    *)
One(dst, src, body) ==
  LET inner == From(body, 1) IN
  IF Has(body, 0) /\ body[1] = SNAP_AWDL /\ PayloadOffset(inner) # None
  THEN <<[dst |-> dst, src |-> src, sequence |-> inner[2][2],
          payload |-> From(inner, PayloadOffset(inner))]>>
  ELSE <<>>

OneAtTheStart(dst, src, body) == One(dst, src, body)

(* The signature at the start of the body, or two octets later.            *)
OneEither(dst, src, body) ==
  IF One(dst, src, body) # <<>> THEN One(dst, src, body)
  ELSE One(dst, src, From(body, 1))

(* The length of the subframe at `at`: anything but a length read there    *)
(* ends the walk, as 0 does.                                               *)
LengthAt(b, at) == IF b[at + 3][1] = "length" THEN b[at + 3][2] ELSE 0

(* The subframe chain: a length that is 0 or runs off the end stops it.    *)
Subframes(b) ==
  LET walk[at \in 0..(Len(b) + 1)] ==
        IF ~Has(b, at + 2) THEN <<>>
        ELSE LET len == LengthAt(b, at) IN
             IF len = 0 \/ at + 3 + len > Len(b) THEN <<>>
             ELSE OneEither(b[at + 1][2], b[at + 2][2], SubSeq(b, at + 4, at + 3 + len))
                    \o walk[Boundary(at + 3 + len)]
  IN  walk[0]

IsMarked(frame, body) == HasQos(frame) /\ frame[QOS_HEADER_LEN][3]

(* An aggregate is known by its bit or by its shape: the frame's own       *)
(* destination and source again, where the signature would be.             *)
IsAggregate(frame, body) ==
  \/ IsMarked(frame, body)
  \/ Has(body, 1) /\ body[1] = frame[2] /\ body[2] = frame[3]

decapsulate_all(frame) ==
  IF ~IsData(frame) THEN <<>>
  ELSE LET hdr == IF HasQos(frame) THEN QOS_HEADER_LEN ELSE QOS_HEADER_LEN - 1
           body == From(frame, hdr)
       IN  IF Len(frame) < hdr THEN <<>>
           ELSE IF IsAggregate(frame, body) THEN Subframes(body)
           ELSE OneEither(frame[2][2], frame[3][2], body)

-----------------------------------------------------------------------------
(* Block Ack.  The agreement's parameters are one symbol after the action. *)
CATEGORY_BLOCK_ACK == 3
ACTION_ADDBA_REQUEST == 0
ACTION_ADDBA_RESPONSE == 1
BA_WINDOW == 64

MgmtHeader(peer, us, seq) ==
  <<FC_ACTION, Address(peer), Address(us), Address(AWDL_BSSID), SequenceControl(seq)>>
MGMT_HEADER_LEN == 5

addba_request(peer, us, dot11_seq, dialog_token, tid, ssn, buffer_size) ==
  MgmtHeader(peer, us, dot11_seq)
    \o <<<<"action", CATEGORY_BLOCK_ACK, ACTION_ADDBA_REQUEST>>,
         <<"agreement", [dialog_token |-> dialog_token, tid |-> tid % 16,
                         buffer_size |-> buffer_size % 1024, immediate |-> TRUE]>>,
         <<"start", ssn % SeqMod>>>>

(* What an answer says; a BlockAck is its tid, its start and which of the  *)
(* sequence numbers from there it has.                                     *)
parse_addba_response(b, us) ==
  IF /\ Len(b) >= MGMT_HEADER_LEN + 3
     /\ b[1] = FC_ACTION
     /\ b[2] = Address(us)
     /\ b[MGMT_HEADER_LEN + 1] = <<"action", CATEGORY_BLOCK_ACK, ACTION_ADDBA_RESPONSE>>
  THEN b[MGMT_HEADER_LEN + 2][2]
  ELSE None

parse_block_ack(b, us) ==
  IF Len(b) >= 5 /\ b[1] = FC_BA /\ b[2] = Address(us)
  THEN [tid |-> b[4][2], ssn |-> b[4][3], bitmap |-> b[5][2]]
  ELSE None
=============================================================================
