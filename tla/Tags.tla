-------------------------------- MODULE Tags --------------------------------
(***************************************************************************)
(* The tags of an AWDL action frame: what each of them says, how it is     *)
(* written and how it is read back (crates/tlink/src: action.rs, tlv.rs,   *)
(* sync.rs, election.rs, state.rs, service.rs).                            *)
(*                                                                         *)
(* A tag is a header symbol <<"tlv", tag, length>> and that many symbols.  *)
(* A block of fixed fields is one symbol and carries its record; what has  *)
(* a length or an order of its own -- the slots of a sequence, the fields  *)
(* a bitmap announces, the labels of a name -- is one symbol each.         *)
(***************************************************************************)
EXTENDS DataFrames, Schedules

Tag(tag, value) == <<<<"tlv", tag, Len(value)>>>> \o value

(* Mutant: a tag that runs off the end is cut to fit.                      *)
TlvsTrimmed(b) ==
  LET walk[off \in 0..Len(b)] ==
        IF ~Has(b, off) THEN <<>>
        ELSE LET end == off + 1 + b[off + 1][3]
                 fits == IF end > Len(b) THEN Len(b) ELSE end
             IN  <<[tag |-> b[off + 1][2], value |-> SubSeq(b, off + 2, fits)]>> \o walk[fits]
  IN  walk[0]

(* Tlvs: a tag that runs off the end ends the walk.                        *)
EndAt(b, off) == off + 1 + b[off + 1][3]
IsWhole(b, off) ==
  Has(b, off) /\ b[off + 1][1] = "tlv" /\ EndAt(b, off) \in (off + 1)..Len(b)

Tlvs(b) ==
  LET walk[off \in 0..Len(b)] ==
        IF ~IsWhole(b, off) THEN <<>>
        ELSE <<[tag |-> b[off + 1][2], value |-> SubSeq(b, off + 2, EndAt(b, off))]>>
               \o walk[EndAt(b, off)]
  IN  walk[0]

(* A block of fixed fields.                                                *)
Block(record) == <<<<"block", record>>>>
ReadBlock(v) == IF Has(v, 0) THEN v[1][2] ELSE None

-----------------------------------------------------------------------------
(* ChannelSequence: [encoding, channels, qualifiers].  The count is stored *)
(* minus one, and Legacy puts the qualifier first.                         *)
OpClassSequence(channels) ==
  [encoding |-> "OpClass", channels |-> channels,
   qualifiers |-> [i \in DOMAIN channels |-> opclass_for(channels[i])]]

SequenceEncode(s) ==
  LET n == Cardinality(DOMAIN s.channels) IN
  <<<<"count", n - 1, s.encoding>>>>
    \o [i \in 1..n |-> IF s.encoding = "Legacy"
                       THEN <<"slot", s.qualifiers[i - 1], s.channels[i - 1]>>
                       ELSE <<"slot", s.channels[i - 1], s.qualifiers[i - 1]>>]

SequenceParse(v) ==
  IF ~Has(v, 0) \/ v[1][3] \notin {"ChannelNumber", "Legacy", "OpClass"} THEN None
  ELSE LET n == v[1][2] + 1
           at == IF v[1][3] = "Legacy" THEN [chan |-> 3, qual |-> 2] ELSE [chan |-> 2, qual |-> 3]
       IN  IF Len(v) < 1 + n THEN None
           ELSE [encoding |-> v[1][3],
                 channels |-> [i \in 0..(n - 1) |-> v[i + 2][at.chan]],
                 qualifiers |-> [i \in 0..(n - 1) |-> v[i + 2][at.qual]]]

(* SyncParams: its fixed fields, its sequence, and two octets behind it.   *)
SyncEncode(s) == Block(s.fixed) \o SequenceEncode(s.channel_sequence) \o <<<<"trailing", 0>>>>
SyncParse(v) ==
  IF ~Has(v, 0) THEN None
  ELSE [fixed |-> ReadBlock(v), channel_sequence |-> SequenceParse(From(v, 1))]

(* Tag 18 has three octets behind the sequence.                            *)
encode_tag18(s) == SequenceEncode(s) \o <<<<"trailing", 0, 0>>>>

-----------------------------------------------------------------------------
(* DataPathState: a bitmap, and the fields it announces in the order of    *)
(* the wire, which is not that of the bits.                                *)
FieldOrder ==
  <<"country", "social_channel", "infra_bssid", "infra_address", "awdl_address",
    "umi", "umi_options", "extended">>
Present(flags) ==
  LET at == {i \in DOMAIN FieldOrder : FieldOrder[i] \in flags} IN
  [j \in 1..Cardinality(at) |->
     FieldOrder[CHOOSE i \in at : Cardinality({k \in at : k <= i}) = j]]

DataPathEncode(d) ==
  <<<<"flags", DOMAIN d>>>> \o
    [i \in 1..Len(Present(DOMAIN d)) |-> <<"field", d[Present(DOMAIN d)[i]]>>]

DataPathParse(v) ==
  IF ~Has(v, 0) \/ ~Has(v, Cardinality(v[1][2])) THEN None
  ELSE [f \in v[1][2] |->
          LET i == CHOOSE j \in 1..Len(Present(v[1][2])) : Present(v[1][2])[j] = f
          IN  v[i + 1][2]]

(* What a device says of itself; infra is its access point's channel or 0. *)
describing(awdl_address, social_channel, infra) ==
  LET always == [country |-> "country", social_channel |-> social_channel,
                 awdl_address |-> awdl_address]
  IN  IF infra = 0 THEN always
      ELSE [f \in DOMAIN always \cup {"infra_bssid"} |->
              IF f = "infra_bssid" THEN <<"unknown", infra>> ELSE always[f]]

-----------------------------------------------------------------------------
(* Names, sequences of labels: a suffix the dictionary covers is one code, *)
(* and a name that ends in a label is closed by the empty code.            *)
Dictionary ==
  {<<"_airplay", "_tcp", "local">>, <<"_airplay", "_udp", "local">>, <<"_airplay">>,
   <<"_raop", "_tcp", "local">>, <<"_raop", "_udp", "local">>, <<"_raop">>,
   <<"_airdrop", "_tcp", "local">>, <<"_airdrop", "_udp", "local">>, <<"_airdrop">>,
   <<"_tcp", "local">>, <<"_udp", "local">>, <<"local">>,
   <<"ip6", "arpa">>, <<"ip4", "arpa">>}

encode_name(name) ==
  LET covered == {k \in 0..(Len(name) - 1) : From(name, k) \in Dictionary}
      k == IF covered = {} THEN Len(name) ELSE CHOOSE i \in covered : \A j \in covered : i <= j
  IN  [i \in 1..k |-> <<"label", name[i]>>] \o <<<<"code", From(name, k)>>>>

decode_name(v) ==
  LET names[n \in 0..Len(v)] ==
        IF n = 0 THEN <<>>
        ELSE names[n - 1] \o (IF v[n][1] = "code" THEN v[n][2] ELSE <<v[n][2]>>)
  IN  names[Len(v)]

(* A PTR record.  The name's length includes the type behind it.           *)
RecordEncode(r) ==
  LET name == encode_name(r.name)
      target == encode_name(r.target)
  IN  <<Length(Len(name) + 1)>> \o name \o <<<<"type", "PTR">>, Length(Len(target)), Filler>> \o target

RecordParse(v) ==
  LET n == v[1][2] - 1 IN
  IF ~Has(v, n + 3) \/ ~Has(v, n + 3 + v[n + 3][2]) THEN None
  ELSE [name |-> decode_name(SubSeq(v, 2, n + 1)),
        target |-> decode_name(SubSeq(v, n + 5, n + 4 + v[n + 3][2]))]

(* Ieee80211Container: elements, each with its length; nothing left over.  *)
ContainerEncode(elements) ==
  LET out[n \in 0..Len(elements)] ==
        IF n = 0 THEN <<>>
        ELSE out[n - 1] \o <<<<"element", elements[n].id, 1>>, <<"body", elements[n].body>>>>
  IN  out[Len(elements)]

ContainerParse(v) ==
  IF Len(v) % 2 = 1 THEN None
  ELSE [n \in 1..(Len(v) \div 2) |-> [id |-> v[2 * n - 1][2], body |-> v[2 * n][2]]]

(* Version: packed nibbles.                                                *)
VersionEncode(x) == <<<<"version", 16 * x.major + (x.minor % 16), x.device_class>>>>
VersionParse(v) ==
  IF ~Has(v, 0) THEN None
  ELSE [major |-> v[1][2] \div 16, minor |-> v[1][2] % 16, device_class |-> v[1][3]]

(* Arpa: flags, and the host's name.                                       *)
ArpaEncode(a) == <<<<"flags", a.flags>>>> \o encode_name(a.name)
ArpaParse(v) ==
  IF ~Has(v, 0) THEN None ELSE [flags |-> v[1][2], name |-> decode_name(From(v, 1))]

-----------------------------------------------------------------------------
(* The value of every tag a beacon carries, written and read.              *)
Encode(tag, s) ==
  CASE tag = 4 -> SyncEncode(s)
    [] tag = 18 -> encode_tag18(s)
    [] tag = 12 -> DataPathEncode(s)
    [] tag = 17 -> ContainerEncode(s)
    [] tag = 21 -> VersionEncode(s)
    [] tag = 16 -> ArpaEncode(s)
    [] tag = 2 -> RecordEncode(s)
    [] tag \in {5, 6, 7, 24} -> Block(s)

Parse(t) ==
  CASE t.tag = 4 -> SyncParse(t.value)
    [] t.tag = 18 -> SequenceParse(t.value)
    [] t.tag = 12 -> DataPathParse(t.value)
    [] t.tag = 17 -> ContainerParse(t.value)
    [] t.tag = 21 -> VersionParse(t.value)
    [] t.tag = 16 -> ArpaParse(t.value)
    [] t.tag = 2 -> RecordParse(t.value)
    [] t.tag \in {5, 6, 7, 24} -> ReadBlock(t.value)

(* encode_body: the fixed header, then the tags in order.                  *)
encode_body(header, tlvs) ==
  LET body[n \in 0..Len(tlvs)] ==
        IF n = 0 THEN <<header>> ELSE body[n - 1] \o Tag(tlvs[n][1], Encode(tlvs[n][1], tlvs[n][2]))
  IN  body[Len(tlvs)]
=============================================================================
