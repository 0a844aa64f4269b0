------------------------------ MODULE Exchange -----------------------------
(***************************************************************************)
(* The data path between stations: a kernel's packet is read from its tap, *)
(* encapsulated and queued (enqueue_from_tun), handed to the radio once or *)
(* with repeats, put on the air in whatever shape the radio likes, heard   *)
(* by everyone or by nobody, unwrapped (deliver_data_frame) and written to *)
(* another kernel's tap.  When a session transmits is the subject of       *)
(* Transmit; what becomes of the packets is the subject here, and of the   *)
(* Block Ack probe, which asks a station of another make for an agreement, *)
(* and of the beacons, by which the stations learn of one another.         *)
(*                                                                         *)
(* The radio, the air and the other make are not in the repository: they   *)
(* do here what the comments of data.rs report as measured.  A reception   *)
(* may be missed, or cut short anywhere.  A packet is the symbols          *)
(* <<"packet", sender, number, destination, i>>, the first standing for    *)
(* its IPv6 header.  Time is microseconds and passes between beacons only: *)
(* a frame is heard at the instant it is sent.  Every station has a clock  *)
(* of its own, EpochOf behind that time; radios report no TSF.             *)
(***************************************************************************)
EXTENDS Beacons

CONSTANTS
  Ours,           \* stations that run this program
  Theirs,         \* stations of another make
  MacOf,          \* the MAC of each station
  Groups,         \* multicast destinations the kernels send to
  Strangers,      \* destinations that carry no MAC
  Foreign,        \* frames of the other make: [bytes, needs, claims]
  Profiles,       \* the configurations each session may have
  EpochOf,        \* when each station's clock began
  Instants,       \* when a station may turn to its beacon
  PsfPerMif,      \* psf_per_mif (2)
  BeaconMinGap,   \* beacon_min_gap_us (60000)
  AwdlMod,        \* AWDL sequence numbers (65536)
  QueueMax,       \* OUTBOUND_MAX (512)
  Repeat,         \* data_repeat: the most copies of a frame
  DialogMod,      \* ADDBA dialog tokens (256)
  RadioMax,       \* bound on the frames in the radio's hands
  Earlier,        \* packets each kernel had handed over before, all gone by now
  Dialled,        \* where each packet of each kernel may go: a sequence of sets
  MaxHeard,       \* bound on the receptions of each station
  Budgets         \* bounds on a behaviour: [faults |-> cut receptions, refused
                  \* writes and refused sends, beacons |-> our beacons, events |->
                  \* packets, faults, foreign frames and requests together]

Stations == Ours \cup Theirs
Mac(n) == MacOf[n]
IpOf(n) == link_local_from_mac(Mac(n))
Destinations == {IpOf(n) : n \in Stations} \cup Groups \cup Strangers

ASSUME ExchangeAssumption ==
  /\ MacOf \in [Stations -> MAC]
  /\ \A m, n \in Stations : MacOf[m] = MacOf[n] => m = n
  /\ \A n \in Stations : ~is_ipv6_multicast(MacOf[n])
  /\ Groups \cup Strangers \subseteq IPv6 /\ \A g \in Groups : IsMulticast(g)
  /\ \A s \in Strangers : ~IsMulticast(s) /\ ~IsLinkLocal(s)
  /\ None \notin Nat
  /\ AwdlMod \in Nat \ {0} /\ SeqMod \in Nat \ {0} /\ AwdlMod % SeqMod = 0
  /\ Earlier \in Nat /\ QueueMax \in Nat /\ RadioMax \in Nat /\ Repeat \in Nat \ {0}
  /\ DialogMod \in Nat \ {0} /\ Latency \in Nat
  /\ Dialled \in [Ours -> Seq(SUBSET Destinations)] /\ MaxHeard \in [Ours -> Nat]
  /\ Budgets \subseteq [faults : Nat, beacons : Nat, events : Nat]
  /\ \A b \in Budgets : QueueMax + RadioMax + b.faults <= SeqMod
  /\ CounterMod \in Nat \ {0} /\ CounterMod % (16 * PRESENCE_MODE) = 0
  /\ EpochOf \in [Stations -> Nat] /\ Instants \subseteq Nat
  /\ BeaconMinGap >= 12000    \* the reactive path's own throttle

(* What a receiver needs for each packet of a frame: of c symbols it       *)
(* unwraps those that need no more.                                        *)
IsList(s) == Len(s) \in Nat /\ s = [i \in 1..Len(s) |-> s[i]]
Needing(needs, c) == {i \in DOMAIN needs : needs[i] <= c}

UnwrapsByNeed(bytes, needs) ==
  /\ \A i \in DOMAIN needs : needs[i] \in 1..Len(bytes)
  /\ \A c \in 0..Len(bytes) :
       LET packets == decapsulate_all(SubSeq(bytes, 1, c)) IN
       IsList(packets) /\ Len(packets) = Cardinality(Needing(needs, c))

(* What the tags of a frame say, no tag twice.                             *)
ReadsAs(bytes, claim) ==
  LET tlvs == Tlvs(From(bytes, MGMT_HEADER_LEN + 1)) IN
  /\ Read802(bytes) =
       [src |-> claim.src, phy_tx_time |-> claim.phy_tx_time, tags |-> claim.tags]
  /\ \A i, j \in DOMAIN tlvs : tlvs[i].tag = tlvs[j].tag => i = j

(* The other make does not speak for us, and a frame of its own claims     *)
(* what it says, if it says anything.                                      *)
ASSUME ForeignAssumption ==
  \A frame \in Foreign :
    /\ IsList(frame.bytes) /\ IsList(frame.needs)
    /\ UnwrapsByNeed(frame.bytes, frame.needs)
    /\ frame.claims = {} => ~IsAwdl(frame.bytes)
    /\ \A claim \in frame.claims :
         /\ ReadsAs(frame.bytes, claim) /\ ~claim.own /\ \A n \in Ours : claim.src # Mac(n)
         /\ 24 \in DOMAIN claim.tags => claim.tags[24].distance \in Nat
    /\ \A c \in 0..Len(frame.bytes), n \in Ours :
         LET packets == decapsulate_all(SubSeq(frame.bytes, 1, c)) IN
         \A i \in DOMAIN packets :
           /\ packets[i].src # Mac(n)
           /\ packets[i].payload # <<>> => packets[i].payload[1][2] # n

VARIABLES
  handed,    \* history: per kernel, the destinations of the packets queued
  queue,     \* VecDeque of encapsulated frames
  seqs,      \* d11_data_seq and awdl_data_seq
  radio,     \* frames the radio has taken
  air,       \* the frame being sent: [bytes, needs, to, claims]
  now,       \* the time
  beacons,   \* each session's Beacon, and when it last sent one
  cluster,   \* each session's Cluster
  heeded,    \* history: the claim each took its master's time from
  tap,       \* Ethernet frames written to each kernel
  stages,    \* RxStages
  probe,     \* the Block Ack probe
  carried,   \* history: packets that reached each receiver
  budget     \* history: what is left of the behaviour's bounds

sending == <<handed, queue, seqs>>
receiving == <<tap, stages, carried>>
announcing == <<now, beacons, cluster, heeded>>
vars == <<sending, radio, air, receiving, announcing, probe, budget>>

Tracker == INSTANCE Cluster WITH
  Node <- MAC, Slots <- 16, AwUs <- AW_US, TuUs <- TU_US, Keep <- 64, Recent <- 8,
  Confirm <- 3, Trusted <- 4, HostMod <- 1024 * CYCLE_US, MaxPlausible <- 32,
  MaxAdopters <- 256, DistanceMax <- 1000

NoStages ==
  [seen |-> 0, no_radiotap |-> 0, not_data |-> 0, data_undecodable |-> 0,
   from_self |-> 0, not_ours |-> 0, written |-> 0, write_err |-> 0]

Silence == [bytes |-> <<>>, needs |-> <<>>, to |-> {}, claims |-> {}]

Init ==
  /\ handed = [n \in Ours |-> <<>>]
  /\ queue = [n \in Ours |-> <<>>]
  /\ seqs = [n \in Ours |-> [d11 |-> Earlier % SeqMod, awdl |-> Earlier % AwdlMod]]
  /\ radio = [n \in Ours |-> <<>>]
  /\ air = Silence
  /\ now \in {EpochOf[n] : n \in Ours} /\ \A n \in Ours : EpochOf[n] <= now
  /\ beacons = [n \in Ours |-> [config |-> None, sent |-> 0, last |-> 0]]
  /\ cluster = [n \in Ours |-> Tracker!NewCluster]
  /\ heeded = [n \in Ours |-> {}]
  /\ tap = [n \in Ours |-> <<>>]
  /\ stages = [n \in Ours |-> NoStages]
  /\ probe = [n \in Ours |-> [dialog |-> 0, seq |-> 0, resp |-> 0, ack |-> 0]]
  /\ carried = [n \in Ours |-> 0]
  /\ budget \in Budgets

Fault(yes) ==
  /\ yes => budget.faults > 0 /\ budget.events > 0
  /\ budget' = IF yes THEN [budget EXCEPT !.faults = @ - 1, !.events = @ - 1] ELSE budget

Event ==
  /\ budget.events > 0
  /\ budget' = [budget EXCEPT !.events = @ - 1]

-----------------------------------------------------------------------------
(* Sending.                                                                *)

(* Two sizes, so that a subframe may or may not need filling up.           *)
Packet(n, number, dst) ==
  [i \in 1..(2 + (number % 2)) |-> <<"packet", n, number, dst, i>>]

NarrowSeqs(s) ==
  [d11 |-> (s.d11 + 1) % (SeqMod \div 2), awdl |-> (s.awdl + 1) % AwdlMod]
NextSeqs(s) == [d11 |-> (s.d11 + 1) % SeqMod, awdl |-> (s.awdl + 1) % AwdlMod]

(* Read without the check for room.                                        *)
ReadGreedily(n, dst) ==
  LET to == dst_mac_for_ipv6([len |-> 40, version |-> 6, dst |-> dst]) IN
  /\ Len(handed[n]) < Len(Dialled[n]) /\ dst \in Dialled[n][Len(handed[n]) + 1]
  /\ to # None
  /\ handed' = [handed EXCEPT ![n] = Append(@, dst)]
  /\ queue' = [queue EXCEPT ![n] = Append(@,
        FrameOf(Mac(n), to, seqs[n].d11, seqs[n].awdl,
                Packet(n, Len(handed[n]) + 1, dst)))]
  /\ seqs' = [seqs EXCEPT ![n] = NextSeqs(@)]
  /\ Event
  /\ UNCHANGED <<radio, air, receiving, announcing, probe>>

(* enqueue_from_tun: one packet of the loop.  What is not IPv6 and what    *)
(* has no route (a Stranger) is dropped before any number is spent on it,  *)
(* and changes nothing else.                                               *)
Read(n, dst) ==
  LET to == dst_mac_for_ipv6([len |-> 40, version |-> 6, dst |-> dst]) IN
  /\ Len(handed[n]) < Len(Dialled[n]) /\ dst \in Dialled[n][Len(handed[n]) + 1]
  /\ Len(queue[n]) < QueueMax
  /\ to # None
  /\ handed' = [handed EXCEPT ![n] = Append(@, dst)]
  /\ queue' = [queue EXCEPT ![n] = Append(@,
        FrameOf(Mac(n), to, seqs[n].d11, seqs[n].awdl,
                Packet(n, Len(handed[n]) + 1, dst)))]
  /\ seqs' = [seqs EXCEPT ![n] = NextSeqs(@)]
  /\ Event
  /\ UNCHANGED <<radio, air, receiving, announcing, probe>>

(* One frame of a drain, with as many repeats as its path and the          *)
(* allowance ask for; the radio may refuse the first.                      *)
Copies(frame, first, others) ==
  (IF first THEN <<frame>> ELSE <<>>) \o [i \in 1..others |-> Retried(frame)]

Drain(n, first, others) ==
  /\ queue[n] # <<>>
  /\ Len(radio[n]) + 1 + others <= RadioMax
  /\ queue' = [queue EXCEPT ![n] = Tail(@)]
  /\ radio' = [radio EXCEPT ![n] = @ \o Copies(Head(queue[n]), first, others)]
  /\ Fault(~first)
  /\ UNCHANGED <<handed, seqs, air, receiving, announcing, probe>>

(* The probe, on hearing a master: a token that skips 0, a number of its   *)
(* own, and the next data frame's number for a start.                      *)
NextDialog(n) ==
  IF (probe[n].dialog + 1) % DialogMod = 0 THEN 1 ELSE (probe[n].dialog + 1) % DialogMod

Probe(n, master) ==
  /\ Event
  /\ Len(radio[n]) < RadioMax
  /\ radio' = [radio EXCEPT ![n] = Append(@,
        addba_request(Mac(master), Mac(n), probe[n].seq, NextDialog(n), DEFAULT_TID,
                      seqs[n].d11, BA_WINDOW))]
  /\ probe' = [probe EXCEPT ![n].dialog = NextDialog(n), ![n].seq = (@ + 1) % SeqMod]
  /\ UNCHANGED <<sending, air, receiving, announcing>>

-----------------------------------------------------------------------------
(* The air.  A frame plain or with two octets of filler, or several for    *)
(* one receiver as an aggregate, marked or not.                            *)
Shapes == {"plain", "padded", "marked", "unmarked"}
Alone == {"plain", "padded"}

Shaped(frames, shape) ==
  CASE shape = "plain" -> frames[1]
    [] shape = "padded" -> Padded(frames[1])
    [] OTHER -> Aggregate(frames, shape = "marked")

(* How much of it a receiver needs for each packet: the headers of a lone  *)
(* frame, the whole of a subframe.                                         *)
NeedsOf(frames, shape) ==
  CASE shape = "plain" -> <<QOS_HEADER_LEN + 5>>
    [] shape = "padded" -> <<QOS_HEADER_LEN + 6>>
    [] OTHER -> [i \in 1..Len(frames) |-> Len(Shaped(SubSeq(frames, 1, i), shape))]

OnAir(bytes, needs) == [bytes |-> bytes, needs |-> needs, to |-> Stations, claims |-> {}]

Emit(n, k, shape) ==
  LET frames == SubSeq(radio[n], 1, k) IN
  /\ k <= Len(radio[n])
  /\ \A i \in 1..k : IsData(frames[i]) /\ frames[i][2] = frames[1][2]
  /\ shape \in Alone => k = 1
  /\ air' = OnAir(Shaped(frames, shape), NeedsOf(frames, shape))
  /\ radio' = [radio EXCEPT ![n] = SubSeq(@, k + 1, Len(@))]
  /\ UNCHANGED <<sending, receiving, announcing, probe, budget>>

EmitRequest(n) ==
  /\ radio[n] # <<>> /\ ~IsData(Head(radio[n]))
  /\ air' = OnAir(Head(radio[n]), <<>>)
  /\ radio' = [radio EXCEPT ![n] = Tail(@)]
  /\ UNCHANGED <<sending, receiving, announcing, probe, budget>>

EmitForeign(frame) ==
  /\ Event
  /\ air' = [OnAir(frame.bytes, frame.needs) EXCEPT !.claims = frame.claims]
  /\ UNCHANGED <<sending, radio, receiving, announcing, probe>>

(* A station of another make answers a request it hears.                   *)
Answered(request, from) ==
  <<FC_ACTION, request[3], Address(Mac(from)), Address(AWDL_BSSID), SequenceControl(0),
    <<"action", CATEGORY_BLOCK_ACK, ACTION_ADDBA_RESPONSE>>, request[7], request[8]>>

Answer(from) ==
  /\ from \in air.to
  /\ Len(air.bytes) = MGMT_HEADER_LEN + 3
  /\ air.bytes[2] = Address(Mac(from))
  /\ air.bytes[6] = <<"action", CATEGORY_BLOCK_ACK, ACTION_ADDBA_REQUEST>>
  /\ air' = OnAir(Answered(air.bytes, from), <<>>)
  /\ UNCHANGED <<sending, radio, receiving, announcing, probe, budget>>

-----------------------------------------------------------------------------
(* Announcing.  The path to the beacon is that of Transmit, with times.    *)
TX_LIVENESS_US == 1000000
Host(n, t) == t - EpochOf[n]
OrElse(x, default) == IF x = None THEN default ELSE x

(* set_follow: whoever beats us is named, with what we know of it.         *)
Leads(c, self, metric) ==
  c.master # None /\ c.master # self /\ c.master_metric # None /\ c.master_metric > metric

(* Mutant: the counter as it was heard.                                    *)
CounterAsHeard(c, h) ==
  IF c.last_master_aw = None THEN None ELSE c.last_master_aw.counter
ProjectedAw(c, h) ==
  IF c.last_master_aw = None THEN None ELSE Tracker!ProjectedCounter(c, h, CounterMod)

set_follow(c, self, metric, h) ==
  IF ~Leads(c, self, metric) THEN None
  ELSE [master |-> c.master, root |-> OrElse(c.root, c.master),
        parent |-> OrElse(c.relay_parent, c.master),
        distance |-> OrElse(c.follow_distance, 1), master_metric |-> c.master_metric,
        master_counter |-> OrElse(c.master_counter, 0), aw_counter |-> ProjectedAw(c, h)]

(* The windows of the master a session waits for: those on its channel if  *)
(* it cannot leave it.                                                     *)
Adopted(n) == Tracker!IsUsable(cluster[n].clock)
AimedAt(n, config) ==
  {s \in cluster[n].schedule.slots :
     /\ config.follow /\ Adopted(n)
     /\ config.single_channel =>
          cluster[n].schedule.channels[s] = config.social_channel}

InAimedWindow(n, config, h) ==
  AimedAt(n, config) # {} /\ Tracker!SlotAt(cluster[n].clock, h) \in AimedAt(n, config)

InOwnWindow(n, config, h) ==
  /\ AimedAt(n, config) = {}
  /\ us_until_next_advertised_window(schedule(config), h) = 0

Since(n, h) == h - beacons[n].last
Spaced(n, config, h) ==
  /\ config.follow /\ beacons[n].last > 0 =>
       Since(n, h) >= IF config.single_channel THEN BeaconMinGap ELSE SLOT_US \div 2
  /\ config.follow /\ Adopted(n) =>
       Tracker!InMasterWindow(cluster[n], h) \/ Since(n, h) >= TX_LIVENESS_US

(* heard_master: the master's frame is the one just heard.                 *)
Reacts(n, config, h) ==
  /\ config.reactive /\ Adopted(n)
  /\ cluster[n].last_master_aw # None /\ cluster[n].last_master_aw.at = h
  /\ Since(n, h) >= BeaconMinGap

(* Some tag of a beacon, as it was meant.                                  *)
Meant(tlvs) ==
  [tag \in {tlvs[i][1] : i \in DOMAIN tlvs} |->
     (CHOOSE x \in {tlvs[i] : i \in DOMAIN tlvs} : x[1] = tag)[2]]

Announce(n, config, t, own) ==
  LET h == Host(n, t)
      beacon == [addr |-> Mac(n), sent |-> beacons[n].sent, config |-> config,
                 follow |-> set_follow(cluster[n], Mac(n), config.metric, h)]
      subtype == IF beacons[n].sent % (PsfPerMif + 1) = 0 THEN SUBTYPE_MIF ELSE SUBTYPE_PSF
  IN
  /\ budget.beacons > 0 /\ budget' = [budget EXCEPT !.beacons = @ - 1]
  /\ t >= now /\ radio[n] = <<>>
  /\ beacons[n].config \in {None, config} /\ config \in Profiles[n]
  /\ \/ own /\ InOwnWindow(n, config, h) /\ Spaced(n, config, h)
     \/ ~own /\ InAimedWindow(n, config, h) /\ Spaced(n, config, h)
     \/ ~own /\ Reacts(n, config, h)
  /\ now' = t
  /\ air' = [OnAir(Frame(beacon, subtype, h), <<>>) EXCEPT !.claims =
      {[src |-> Mac(n), at |-> t, own |-> own, timed |-> beacon.follow # None
          /\ beacon.follow.aw_counter # None, phy_tx_time |-> h + Latency,
        tags |-> Meant(TlvsOf(beacon, subtype, h))]}]
  /\ beacons' = [beacons EXCEPT ![n] = [config |-> config, sent |-> @.sent + 1, last |-> h]]
  /\ UNCHANGED <<sending, radio, receiving, cluster, heeded, probe>>

-----------------------------------------------------------------------------
(* Receiving.  The radio puts a radiotap header in front of what it heard. *)
Radiotap == <<"radiotap", 0>>
Captured(cut) == SubSeq(<<Radiotap>> \o air.bytes, 1, cut)

(* Radiotap::parse, and payload: the 802.11 frame behind it.               *)
HasRadiotap(bytes) == Has(bytes, 0) /\ bytes[1][1] = "radiotap" /\ bytes[1][2] = 0
Bare(bytes) == From(bytes, 1)

Unwrapped(bytes) == IF HasRadiotap(bytes) THEN decapsulate_all(Bare(bytes)) ELSE <<>>

(* What becomes of the packets of a frame.                                 *)
FromSelf(m, packets) == {i \in DOMAIN packets : packets[i].src = Mac(m)}
Nobodys(m, packets) == {}
NotOurs(m, packets) ==
  {i \in DOMAIN packets \ FromSelf(m, packets) :
     packets[i].dst # Mac(m) /\ ~is_ipv6_multicast(packets[i].dst)}
ForUs(m, packets) == DOMAIN packets \ (FromSelf(m, packets) \cup NotOurs(m, packets))

(* The Ethernet header the kernel gets: our MAC, or the group's.           *)
DestinationOf(packet) == packet.payload[1][4]
ToTap(m, packet) ==
  [dst |-> IF packet.payload # <<>> /\ IsMulticast(DestinationOf(packet))
           THEN multicast_mac(DestinationOf(packet)) ELSE Mac(m),
   src |-> packet.src,
   payload |-> packet.payload]

InReverse(S) == [j \in 1..Cardinality(S) |->
                   CHOOSE i \in S : Cardinality({k \in S : k >= i}) = j]
InOrder(S) == [j \in 1..Cardinality(S) |->
                 CHOOSE i \in S : Cardinality({k \in S : k <= i}) = j]

(* deliver_data_frame: refused are the packets the kernel does not take.   *)
Deliver(m, bytes, refused) ==
  LET packets == Unwrapped(bytes)
      taken == InOrder(ForUs(m, packets) \ refused)
      none == packets = <<>>
      Tally(yes) == IF yes THEN 1 ELSE 0
  IN
  /\ refused \subseteq ForUs(m, packets)
  /\ tap' = [tap EXCEPT ![m] = @ \o [j \in DOMAIN taken |-> ToTap(m, packets[taken[j]])]]
  /\ stages' = [stages EXCEPT ![m] =
       [seen |-> @.seen + 1,
        no_radiotap |-> @.no_radiotap + Tally(~HasRadiotap(bytes)),
        not_data |-> @.not_data + Tally(none /\ HasRadiotap(bytes) /\ ~IsData(Bare(bytes))),
        data_undecodable |->
          @.data_undecodable + Tally(none /\ HasRadiotap(bytes) /\ IsData(Bare(bytes))),
        from_self |-> @.from_self + Cardinality(FromSelf(m, packets)),
        not_ours |-> @.not_ours + Cardinality(NotOurs(m, packets)),
        written |-> @.written + Len(taken),
        write_err |-> @.write_err + Cardinality(refused)]]

(* The probe looks for its answers in the bytes as they were captured.     *)
Count(n, answer) == IF answer = None THEN n ELSE n + 1
LookInTheFrame(m, bytes) ==
  LET b == IF HasRadiotap(bytes) THEN Bare(bytes) ELSE <<>> IN
  probe' = [probe EXCEPT ![m].resp = Count(@, parse_addba_response(b, Mac(m))),
                         ![m].ack = Count(@, parse_block_ack(b, Mac(m)))]
LookForAnswers(m, bytes) ==
  probe' = [probe EXCEPT ![m].resp = Count(@, parse_addba_response(bytes, Mac(m))),
                         ![m].ack = Count(@, parse_block_ack(bytes, Mac(m)))]

(* A session learns from an AWDL frame that is not its own.                *)
Learn(m, bytes) ==
  LET f == IF HasRadiotap(bytes) THEN Bare(bytes) ELSE <<>>
      heard == parse_awdl(f, Host(m, now))
      c == IF heard = None THEN cluster[m] ELSE Tracker!HearFrame(cluster[m], Mac(m), heard)
  IN  /\ cluster' = [cluster EXCEPT ![m] = c]
      /\ heeded' = [heeded EXCEPT ![m] =
            IF c.last_master_aw = cluster[m].last_master_aw THEN @ ELSE air.claims]

(* Where a reception may be cut: nowhere, or just before or after what a   *)
(* packet needs, the end of a tag a session reads, the radiotap header or  *)
(* the last symbol.                                                        *)
Whole == Len(air.bytes) + 1
TagsEnd == {i \in DOMAIN air.bytes : air.bytes[i][1] = "tlv" /\ air.bytes[i][2] \in {5, 12, 24}}
AroundNeeds == UNION {{n, n + 1} : n \in {air.needs[i] : i \in DOMAIN air.needs}}
Cuts == {0, 1, Whole - 1, Whole} \cup AroundNeeds \cup TagsEnd

Hear(m, cut, refused) ==
  /\ m \in air.to /\ stages[m].seen < MaxHeard[m]
  /\ Fault(cut # Whole \/ refused # {})
  /\ air' = [air EXCEPT !.to = @ \ {m}]
  /\ Deliver(m, Captured(cut), refused)
  /\ LookForAnswers(m, Captured(cut))
  /\ Learn(m, Captured(cut))
  /\ carried' = [carried EXCEPT ![m] =
        @ + Cardinality({i \in DOMAIN air.needs : air.needs[i] < cut})]
  /\ UNCHANGED <<sending, radio, now, beacons>>

Next ==
  \/ \E n \in Ours, dst \in Destinations : Read(n, dst)
  \/ \E n \in Ours, first \in BOOLEAN, others \in 0..(Repeat - 1) : Drain(n, first, others)
  \/ \E n \in Ours, master \in Theirs : Probe(n, master)
  \/ \E n \in Ours, k \in 1..RadioMax, shape \in Shapes : Emit(n, k, shape)
  \/ \E n \in Ours : EmitRequest(n)
  \/ \E frame \in Foreign : EmitForeign(frame)
  \/ \E from \in Theirs : Answer(from)
  \/ \E n \in Ours, config \in UNION {Profiles[m] : m \in Ours}, t \in Instants \cup {now}, own \in BOOLEAN :
       Announce(n, config, t, own)
  \/ \E m \in Ours, cut \in Cuts, refused \in SUBSET (1..RadioMax) :
       Hear(m, cut, refused)

Spec == Init /\ [][Next]_vars

-----------------------------------------------------------------------------
(* Every variable keeps its shape, and the queue its bound.                *)
TypeOK ==
  /\ handed \in [Ours -> Seq(Destinations)]
  /\ \A n \in Ours : Len(queue[n]) <= QueueMax /\ Len(radio[n]) <= RadioMax
  /\ seqs \in [Ours -> [d11 : 0..(SeqMod - 1), awdl : 0..(AwdlMod - 1)]]
  /\ air.to \subseteq Stations
  /\ \A n \in Ours : now >= EpochOf[n] /\ Host(n, now) >= beacons[n].last
  /\ stages \in [Ours -> [DOMAIN NoStages -> Nat]]
  /\ probe \in [Ours -> [{"dialog", "seq", "resp", "ack"} -> Nat]]
  /\ carried \in [Ours -> Nat]
  /\ budget \in [faults : Nat, beacons : Nat, events : Nat]

(* A packet that reached a receiver is counted at exactly one stage and    *)
(* nothing else is, whatever shape the radio gave its frame and wherever   *)
(* the reception was cut: lone or in an aggregate, marked or recognised by *)
(* its shape, padded or not (data.rs:257-363, RxStages at session:1231).   *)
PacketsAreAccounted ==
  \A m \in Ours :
    stages[m].from_self + stages[m].not_ours + stages[m].written + stages[m].write_err
      = carried[m]

(* What a kernel is given is a packet another kernel handed over, or its   *)
(* beginning, addressed to this station or to a group, under an Ethernet   *)
(* header that agrees with it; never our own echo (session:1486-1519).     *)
IsStartOf(s, t) == Len(s) <= Len(t) /\ s = SubSeq(t, 1, Len(s))
Names(e, n) == e.payload # <<>> /\ e.payload[1][2] = n
Number(e) == e.payload[1][3]

NothingMisdelivered ==
  \A m \in Ours : \A i \in DOMAIN tap[m] :
    LET e == tap[m][i] IN
    /\ e.src # Mac(m)
    /\ e.payload = <<>> => e.dst = Mac(m)
    /\ \A n \in Ours : e.src = Mac(n) /\ e.payload # <<>> =>
         /\ Names(e, n) /\ Number(e) \in DOMAIN handed[n]
         /\ LET dst == handed[n][Number(e)] IN
            /\ IsStartOf(e.payload, Packet(n, Number(e), dst))
            /\ \/ dst = IpOf(m) /\ e.dst = Mac(m)
               \/ dst \in Groups /\ e.dst = multicast_mac(dst)

(* Packets of one sender reach a kernel in the order its kernel handed     *)
(* them over, repeats next to each other: queue, radio and aggregate keep  *)
(* the order (session:1414, data.rs:255 "each packet in order").           *)
OrderKept ==
  \A m, n \in Ours : \A j \in DOMAIN tap[m] : \A i \in 1..j :
    Names(tap[m][i], n) /\ Names(tap[m][j], n) => Number(tap[m][i]) <= Number(tap[m][j])

(* The numbers of a waiting frame name its packet: two frames share an     *)
(* 802.11 number only if one repeats the other, so a peer that drops       *)
(* repeats drops no packet, across the wrap; and the AWDL number counts    *)
(* every packet of the sender, whoever it is for (session:1407-1409).      *)
Waiting(n) == {queue[n][i] : i \in DOMAIN queue[n]}
                \cup {f \in {radio[n][i] : i \in DOMAIN radio[n]} : IsData(f)}

SequencesNamePackets ==
  \A n \in Ours : \A f, g \in Waiting(n) :
    /\ f[5] = g[5] <=> f[12] = g[12]
    /\ f[9][2] = (Earlier + f[12][3] - 1) % AwdlMod
    /\ f[5] = SequenceControl(f[9][2])

(* The probe never counts an answer, although stations answer: it compares *)
(* the radiotap header of a capture with an 802.11 one (session:532-542,   *)
(* blockack.rs:116 "`b` starts at the 802.11 header").                     *)
ProbeHearsNothing == \A n \in Ours : probe[n].resp = 0 /\ probe[n].ack = 0

(* Wherever a beacon is cut, what a receiver reads of it is what its       *)
(* sender meant, tag by tag -- schedule, counter, election, names -- and a *)
(* tag is read whole or not at all; and of the whole beacon, all of it     *)
(* (tlv.rs:106 Overrun, sync.rs:361-438, action.rs:144-193).               *)
LearnedIsAdvertised ==
  air.to = Stations => \A cut \in 0..Whole :
    LET bytes == Captured(cut)
        said == IF HasRadiotap(bytes) THEN Read802(Bare(bytes)) ELSE None
    IN  /\ air.claims = {} => said = None
        /\ \A claim \in air.claims :
             /\ cut = Whole =>
                  said = [src |-> claim.src, phy_tx_time |-> claim.phy_tx_time, tags |-> claim.tags]
             /\ said # None =>
                  /\ said.src = claim.src /\ said.phy_tx_time = claim.phy_tx_time
                  /\ \A tag \in DOMAIN said.tags :
                       tag \in DOMAIN claim.tags /\ said.tags[tag] = claim.tags[tag]

(* A station that claims the job and keeps its own time beacons in a slot  *)
(* of the schedule it announces, as a receiver reads the slot from the     *)
(* beacon's counter: "what makes the schedule we announce and the schedule *)
(* we keep the same thing" (beacon.rs:791), across the counter's wrap.     *)
Claims(claim) == claim.tags[4].fixed.master = claim.src

AnnouncedInItsWindow ==
  \A claim \in air.claims : claim.own /\ Claims(claim) =>
    LET sync_params == claim.tags[4] IN
    SlotNamed(sync_params.fixed.aw_counter)
      \in advertised_slots(sync_params.channel_sequence.channels)

(* A follower's three tags name one master, better than itself; and once   *)
(* it has heard that master claim the job, the counter it relays is the    *)
(* master's counter of this moment, or one window behind, across the wrap  *)
(* and however long ago that was (follow.rs:659-669 "so the whole cluster  *)
(* shares one window timeline").  A master that itself followed when it    *)
(* was heard relayed another's time.                                       *)
FollowerKeepsTheTimeline ==
  \A claim \in air.claims, n \in Ours : claim.src = Mac(n) /\ ~Claims(claim) =>
    /\ claim.tags[5].master = claim.tags[4].fixed.master
    /\ claim.tags[5].master_metric > claim.tags[5].self_metric
    /\ 24 \in DOMAIN claim.tags =>
         /\ claim.tags[24].master = claim.tags[4].fixed.master
         /\ claim.tags[24].distance \in 1..33
    /\ claim.timed => \E heard \in heeded[n] :
         /\ heard.src = claim.tags[4].fixed.master
         /\ \A m \in Ours : heard.src = Mac(m) /\ Claims(heard) =>
              LET true == aws_at(Host(m, claim.at)) IN
              claim.tags[4].fixed.aw_counter \in {true % CounterMod, (true - 1) % CounterMod}
=============================================================================
