------------------------------- MODULE Beacons ------------------------------
(***************************************************************************)
(* The beacon a session announces itself with (crates/tlink/src/beacon.rs, *)
(* set_follow of crates/tlink-session) and what a session takes from one   *)
(* it hears (parse_awdl).                                                  *)
(*                                                                         *)
(* A beacon is                                                             *)
(*   [addr, sent    the address, and the frames sent,                      *)
(*    config        [social_channel, assoc_channel, windows,               *)
(*                  single_channel, metric, no_t24, stock_dp_shape],       *)
(*    follow        None, or the claim it relays: [root, parent, distance, *)
(*                  master_metric, master_counter, aw_counter]].           *)
(* The experimental controls that put wrong values into fields nobody here *)
(* reads (garbage, legacy_timing) are left out; no_t24 leaves out a tag.   *)
(***************************************************************************)
EXTENDS Tags

CONSTANTS
  CounterMod,    \* aw_counter (65536)
  Latency        \* tx_latency_est

BROADCAST == [i \in 0..5 |-> 255]
SUBTYPE_PSF == 0
SUBTYPE_MIF == 3
SERVICE_PARAMS_AIRDROP == "the filter of a device that offers AirDrop"

(* FollowAdvert's counter, or our own clock's where there is none.         *)
AwCounter(b, now) ==
  IF b.follow # None /\ b.follow.aw_counter # None THEN b.follow.aw_counter
  ELSE aws_at(now) % CounterMod

sync(b, now) ==
  [fixed |->
     [tx_channel |-> b.config.social_channel,
      tx_counter |-> b.sent,
      master |-> IF b.follow # None THEN b.follow.master ELSE b.addr,
      presence_mode |-> PRESENCE_MODE,
      aw_counter |-> AwCounter(b, now),
      aw_remaining |-> aw_remaining_us(now) \div TU_US],
   channel_sequence |-> OpClassSequence(schedule(b.config))]

(* ElectionParams and ElectionParamsV2, claiming or following.  The        *)
(* distance of the first is one octet.                                     *)
election(b) ==
  IF b.follow = None
  THEN [master |-> b.addr, distance |-> 0,
        master_metric |-> b.config.metric, self_metric |-> b.config.metric]
  ELSE [master |-> b.follow.root,
        distance |-> IF b.follow.distance > 255 THEN 255 ELSE b.follow.distance,
        master_metric |-> b.follow.master_metric, self_metric |-> b.config.metric]

election_v2(b, now) ==
  IF b.follow = None
  THEN [master |-> b.addr, other |-> b.addr, master_counter |-> tenure(0, now),
        distance |-> 0, master_metric |-> b.config.metric,
        self_metric |-> b.config.metric, self_counter |-> tenure(0, now)]
  ELSE [master |-> b.follow.root, other |-> b.follow.parent,
        master_counter |-> b.follow.master_counter, distance |-> b.follow.distance,
        master_metric |-> b.follow.master_metric, self_metric |-> b.config.metric,
        self_counter |-> tenure(0, now)]

(* Data Path State: ours, or byte for byte what libmosey sends, with its   *)
(* one social channel bit and an extended block.                           *)
data_path(b) ==
  IF b.config.stock_dp_shape
  THEN [country |-> "country", social_channel |-> 1, awdl_address |-> b.addr, extended |-> 0]
  ELSE describing(b.addr, b.config.social_channel, b.config.assoc_channel)

(* The tags of every frame, in order, and those a MIF adds.                *)
state_tlvs(b, now) ==
  <<<<4, sync(b, now)>>, <<5, election(b)>>, <<18, OpClassSequence(schedule(b.config))>>>>
  \o (IF b.config.no_t24 THEN <<>> ELSE <<<<24, election_v2(b, now)>>>>)
  \o <<<<12, data_path(b)>>, <<7, "ht">>, <<6, SERVICE_PARAMS_AIRDROP>>,
       <<17, <<[id |-> "vht capabilities", body |-> "vht"]>>>>,
       <<21, [major |-> 3, minor |-> 4, device_class |-> 2]>>>>

mif_tlvs(b, now) ==
  state_tlvs(b, now)
  \o <<<<16, [flags |-> 3, name |-> <<"host", "local">>]>>,
       <<2, [name |-> <<"_airdrop", "_tcp", "local">>,
             target |-> <<"instance", "_airdrop", "_tcp", "local">>]>>>>

TlvsOf(b, subtype, now) ==
  IF subtype = SUBTYPE_MIF THEN mif_tlvs(b, now) ELSE state_tlvs(b, now)

management_header(dst, src, seq) == MgmtHeader(dst, src, seq)

(* Fixed::for_tx, and stamp_phy_tx_time over it.                           *)
Fixed(subtype, phy_tx_time, target_tx_time) ==
  <<"apple", subtype, phy_tx_time, target_tx_time>>

Frame(b, subtype, now) ==
  management_header(BROADCAST, b.addr, b.sent)
    \o encode_body(Fixed(subtype, now + Latency, now), TlvsOf(b, subtype, now))

-----------------------------------------------------------------------------
(* Reading an AWDL frame: Dot11::parse, ActionFrame::parse, and the last   *)
(* tag of each number.  None for any other frame.                          *)
IsAction(f) == TypeOf(f) = 0 /\ f[1][4] = 13
IsAwdl(f) == Has(f, MGMT_HEADER_LEN) /\ IsAction(f) /\ f[MGMT_HEADER_LEN + 1][1] = "apple"

Read802(f) ==
  IF ~IsAwdl(f) THEN None
  ELSE LET tlvs == Tlvs(From(f, MGMT_HEADER_LEN + 1))
           last(tag) == CHOOSE i \in DOMAIN tlvs :
                          /\ tlvs[i].tag = tag
                          /\ \A j \in DOMAIN tlvs : tlvs[j].tag = tag => j <= i
       IN  [src |-> f[3][2],
            phy_tx_time |-> f[MGMT_HEADER_LEN + 1][3],
            tags |-> [tag \in {tlvs[i].tag : i \in DOMAIN tlvs} |-> Parse(tlvs[last(tag)])]]

(* What the tracker is given (a frame of Cluster), arriving at a given     *)
(* instant; a frame without tag 4 is none.  Schedules are the numbers      *)
(* listed, a Legacy one's centres of 40 MHz channels included.             *)
Tagged(said, tag) == IF tag \in DOMAIN said.tags THEN said.tags[tag] ELSE None
ListedChannels(sequence) == IF sequence = None THEN None ELSE sequence.channels

parse_awdl(f, arrived_us) ==
  LET said == Read802(f) IN
  IF said = None \/ Tagged(said, 4) = None THEN None
  ELSE LET sync_params == said.tags[4] IN
       [src |-> said.src,
        elect |-> Tagged(said, 24),
        chanseq |-> ListedChannels(Tagged(said, 18)),
        sync |-> [arrived_us |-> arrived_us,
                  counter |-> sync_params.fixed.aw_counter,
                  remaining_tu |-> sync_params.fixed.aw_remaining,
                  presence_mode |-> sync_params.fixed.presence_mode,
                  phy_tx_time |-> said.phy_tx_time,
                  channels |-> ListedChannels(sync_params.channel_sequence)]]
=============================================================================
