# tarish-link in TLA+

tarish-link speaks Apple Wireless Direct Link (AWDL) from user space. A node puts a Wi-Fi chip into a
mode in which it can inject frames, elects a *master* together with the nodes around it, estimates
when that master's *awake windows* fall on its own clock, and transmits beacons and data only while
they are open. One file, `crates/tlink-session/src/lib.rs`, is the loop that does all of this;
`crates/tlink/src/follow.rs` is what it knows of the cluster; `crates/tlink-shim` is the C interface
through which the daemon `tarishd` (not in this repository) starts and stops it.

Paths below are relative to `src/crates/`; *session* is `tlink-session/src/lib.rs`, *follow* is
`tlink/src/follow.rs`, *shim* is `tlink-shim/src/lib.rs`.

## 1. Inventory

| Component | State | Operations | Talks to | What makes it correct |
|---|---|---|---|---|
| Cluster clock (follow `ClusterClock`) | three bounded histories: anchors, held outliers, alignment samples; the presence mode | `observe`, `reset`, phase and spread, `slot_at`, waiting for a slot's centre | fed by Cluster, read by the loop | the phase is the master's again after enough good frames; a glitch does not move it; "which slot" and "how long" agree |
| Cluster tracking (follow `Cluster`) | master, its metric and schedule, root, parent, distance, counters, adopters, a clock | `observe_at`, `set_master_channels`, projections | every received frame; read by Election, Transmit | one timeline at a time; never our own follower; leaves a master only for a better one |
| Election and advertising (session 469-476, 1181-1209; `election.rs`) | metric floor, what is advertised | `set_follow`, beacons | what one node advertises, others track | the cluster converges on the best claim; relayed news stays true; parents form a tree |
| Transmit scheduling (session 463-1160) | outbound queue, sequence number, clocks of the last beacon, reactive burst and reception, repeat budget | listen, immediate acknowledgement, reactive injection, wait, beacon, drains | clock and schedule of the cluster, the tap, the radio | frames leave once, in order and in the end; beacons neither flood nor stop; setup frames keep their redundancy |
| Session lifecycle (shim, `tlink-hal/src/wonder.rs`, session 284-293, 709-719) | handle, stop flag, thread, the chip's interfaces, `BLIND_SECS` | `mosey_start_5`, `mosey_stop`, `mosey_health`, bring-up, tear-down | daemon thread and session thread share the flag and `BLIND_SECS` | runs only on a configured radio; stop returns and frees the chip's one P2P slot; blindness ends |
| Data path (session 1336-1519, `data.rs`) | the tap, two sequence numbers, reception counters | `enqueue_from_tun`, encapsulation, `deliver_data_frame` | Transmit, the kernels, the air | a packet reaches the kernel it is for, once per copy heard whole, and nobody else's; what is lost is counted |
| Beacon building (`beacon.rs`, `sync.rs`, `state.rs`, session 1163-1220) | the session's `Beacon` and when it was last sent | schedule, advertised slots, wait for the next one, window counter, tenure, every tag of PSF and MIF | Transmit, Election, Cluster tracking at the receiver | what is said is what is read; what is announced is when we listen; a follower keeps its master's timeline |
| Block Ack probe (`blockack.rs`, session 520-560, 864-890) | dialog token, sequence number, two counts | ADDBA request, the parsers of its answer and of a BlockAck | Transmit | an answered probe is counted |
| Wire formats (`action.rs`, `tlv.rs`, `dot11.rs`, `radiotap.rs`, `service.rs`) | none | parse, build | all | a frame cut or damaged never parses as another |
| Radio abstraction (`tlink-hal`) | sockets | netlink requests, raw frames, the TUN device | kernel | an answer is read by the request it answers |
| Command line, injector, coverage report, scripts | none of the protocol | | the session | |

The hard behaviour: frames that are late, lost, cut, repeated, wrong or old news; two clusters on the
air at once; nodes that know a master only through others; windows that shut in the middle of a
burst; schedules computed in one place and kept in another; two threads over one radio whose driver
may refuse any command, or answer it twice, or not at all. `PROJECT.json` lists each hazard at its line with the property that covers it.

## 2. Modules

| Module | Models | Composed of |
|---|---|---|
| `ClusterClock` | `ClusterClock` and `Sighting`: operators over a clock record, no variables | |
| `ClockTracking` | one node's clock fed by a master that may be stamped, heard late, garbled, and restart its schedule | `ClusterClock` |
| `Cluster` | `Cluster`: operators over a tracker record, and the receive step of the loop that feeds it (`HearFrame`) | `ClusterClock` |
| `ClusterTracker` | one node and all the frames the air may carry | `Cluster`, refines `Allegiance` |
| `Allegiance` | what tracking promises, without frames or clocks | |
| `Mesh` | many nodes that track each other and relay what they learned | `Cluster` |
| `Transmit` | the loop: when it transmits and what becomes of a frame in its queue | |
| `Lifecycle` | daemon thread, session thread, netlink socket, radio, tap | |
| `Addresses` | MAC and IPv6 addresses and the rules between them: operators | |
| `DataFrames` | the data frame and the Block Ack frames, written and parsed: operators over sequences of symbols | `Addresses` |
| `Schedules` | schedules and the window arithmetic of a beacon: operators | |
| `Tags` | the tags of a beacon, written and parsed | `DataFrames`, `Schedules` |
| `Beacons` | the session's `Beacon`: its tags and both kinds of frame | `Tags` |
| `Exchange` | two or more stations: kernels, queues, radios, the air, beacons, the probe | `Beacons`, and `Cluster` at each station (`Tracker`) |
| `ClusterTrackerProofs`, `MeshProofs`, `TransmitProofs`, `ClockTrackingProofs`, `DataFramesProofs`, `SchedulesProofs`, `LifecycleProofs`, `ExchangeProofs` | theorems | their modules |
| `MC*` | instances for TLC | |

How state and actions correspond to the code:

* **ClusterClock** keeps the code's field names. A sample carries, besides its phase in microseconds,
  the node it was measured from (`of`): this is history for `OneTimeline` and decides nothing. The
  u16 counter and the u32 TSF wrap (`CounterMod`, `PhyMod`), remainders are Euclidean as in the code.
  `Newest` is the `push_back` with `pop_front` of a bounded `VecDeque`.
* **ClockTracking**: `HearExact`, `HearLate`, `HearOdd` are one `observe` each with a frame as the air
  produces it; `Reanchor` is a master that restarts its schedule or changes its presence mode.
* **Cluster**: `HearFrame` is the receive step of session 555-610 and `observe_at` whole, `set_master_channels` included.
  Tables are sets, `Option` is `None`.
* **Mesh**: `Hear(n, m)` is m beaconing what it knows *now* and n's `observe_at`; a beacon not heard
  changes nothing, so loss is an action not taken. `Step` lifts the metric floor (session 469-476), `Stop` and
  `Start` end and begin a session, which knows nothing (`Cluster::for_us`).
* **Transmit**: `pc` is the block of the loop. `React`, `SendBeacon`, `StartAckRound` run a block up to
  its drain; `SendFrame` and `HoldFrame` are the iterations of the drain loops; `Drained` ends them.
  Sleeping (`Elapse`) and transmitting (`TakesTime`) move the clock, so a window may shut between any
  two frames. A queued frame is its sequence number. Ages (`now - last_x`) stop at the largest bound
  anything compares them with. What the cluster looks like changes only while the loop listens.
* **Lifecycle**: `BringUp` is the order of requests of `Wonder::bring_up`, one step each. A request may be refused, its answer
  may not be received, and NEW or a vendor command may answer twice; `read_ack` takes the oldest unread answer (`replies`), a query
  looks for what it asked for. UP and `mac_of` use sockets of their own. `TearDown` is the four steps of
  `mosey_stop`; the session's thread is `SetUp`, `TapStep` (the commands of `Tun::open` and `configure`), `LoopHead`, `Publish`, and
  may die (`SessionDies`) at any time. `BLIND_SECS` outlives sessions, as in the code.
* **Exchange**: an octet that decides nothing is part of a symbol, so a frame is a short sequence; what is parsed is
  what was written, cut at any symbol, with filler where the radio puts it. `Read` is an iteration of `enqueue_from_tun`,
  `Drain` a frame of a drain with its repeats, `Emit` what the radio makes of what it holds (one frame, or an
  aggregate, marked or not, padded or not), `Hear` the receive step of a station on whatever part of it arrived:
  `deliver_data_frame`, the probe's parsers and `observe_at` in the code's order. `Announce` is both ways a beacon is
  sent (a window of its own or its master's, or in reaction), `Probe` and `EmitRequest` the request, `Answer` the peer's
  answer to it. A frame carries with it what its sender
  meant (`claims`, a set that is empty for a frame that is no beacon), and each session remembers what the frame it last took its master's time
  from meant (`heeded`): both are history and decide nothing. `EmitForeign` frames come from stations of another make: data in the long form, data of no use, a BlockAck, beacons.

## 3. Runs

| Run | States | Question and answer |
|---|---|---|
| clock | 744,952 | Does the estimate find and keep the master's phase? Yes, after a bounded number of exact frames in a row, whatever came before, unless the gap it takes the median of straddles the end of the ring: finding 14. |
| clock_odd_counter | violation | Does one wrong counter under a true TSF move the phase? Yes, the outlier test does not see it: finding 1. |
| clock_usable | violation | Is an estimate that is acted on a good one? No: finding 2. |
| tracker | 7,667 | One node against every frame of three peers: one timeline, a bounded table, implements `Allegiance`. |
| mesh | 110,355 | Four nodes, the best one heard by one of the others only, floors and a restart: news stays true and all come to name the best. |
| mesh_departure | violation | Does the cluster forget a master that left? No: finding 3. |
| mesh_parents | violation | Do advertised parents form a tree? No: finding 4. |
| lifecycle | 59,561 | Three failures anywhere: configured radio but for what was refused in an unread answer, tap with our address only, slot freed, stop returns, blindness ends. |
| transmit | 335,752 | Channel-locked (the shim's), unlocked and self-timed loops, against windows that open, shut and vanish: order, spacing, and that neither beacons nor frames stop. |
| transmit_tun | violation | Are the kernel's packets read in the end? Not always: finding 5. |
| transmit_allowance | violation | Is setup repeated unless bulk used the allowance? No: finding 6. |
| exchange | 193,661 | Two stations of ours and one of another make: are packets delivered to whom they are for and all accounted, do beacons mean what they are read as, are windows kept? Yes, with the restrictions findings 7 to 11 explain. |

### Bounds, and why they are enough

* **clock**: four slots of one or two windows of four microseconds, a time unit of two. What matters is that a slot has several
  windows, that the counter and the TSF wrap within reach of a late frame (8 windows, cycles of 4 or 8), that the tolerance is half a
  slot and that glitches fall on both sides of it, and that of the two instants of the horizon one is cut by the time unit and one is
  not. One of the three origins puts the gap between the master's two clocks at the end of the ring. The bars (`Confirm`, `Trusted`, `Recent`) have their own
  parameters; `Keep` is 6 instead of 64 and larger than what is asked of it. `Horizon` ends a behaviour
  (so deadlock is not checked there); two glitches and one re-anchor cover every order of outlier,
  confirmation and recovery that `Confirm = 3` distinguishes. The runs start after the first cycle of
  our clock (see 6). The two violations use smaller instances of the same module.
* **tracker**: three peers, one of whom never claims anything, and ourselves as a named master; metrics 0, equal,
  better and worse; near, far and implausible distances; frames with and without Sync Params, TSF and
  schedule, agreeing and disagreeing in phase. Two adopters against three peers, so the cap is met.
* **mesh**: a "kite" of four gives relays of relays, two ways to hear of one master, and a node that cannot hear
  the best. `MaxStops = 1`: one session ends, at any moment, and may start again.
* **lifecycle**: `MaxFaults = 3`: a second answer, the refusal it hides, and one more failure in what follows; blindness counted
  to just above the limit of two seconds (60 in the code's `tarishd` comment).
* **transmit**: two slots of three ticks. A slot outlasts the beacon gap and a cycle outlasts the liveness escape,
  as at presence mode 4, which the code advertises (slots of 65.5 ms against a gap of 60 ms, a cycle of 1.049 s against
  an escape of 1 s); there are two slots instead of sixteen. A queue of two with a batch of two meets the
  limit and the backpressure; sequence numbers wrap at three; a pass spends at most one tick
  transmitting (`MaxLag`), which is enough to shut a window inside a burst. In transmit the allowance is
  refreshed at each burst; transmit_allowance uses a window that does not.

* **exchange**: the schedule arithmetic has the code's own numbers (16 slots, presence mode 4, microseconds); `CounterMod` is 64, one
  cycle of windows, as 65536 is a number of cycles. Sequence numbers wrap at 4 and 8 (12 and 16 bits), and `Earlier = 6` packets have gone
  before, so both wrap within four packets. `QueueMax` is 1 and `RadioMax` 2, so that a packet may wait while later ones are numbered and
  two may share an aggregate; `Repeat` is 2. The first station hears once, the second twice. A behaviour has either packets, a fault and
  foreign frames, or beacons with one event among them (`Budgets`): each of the properties is about one of the two, and what a
  packet does to a beacon, and a beacon to a packet, is met in the second kind. The stations turn to their beacons at three
  instants: inside a window, between windows, and after the cycle has wrapped; their clocks begin at different times (`EpochOf`). The
  first station has a hopping schedule with a metric below the others' or above (`Strong`, which then keeps the windows of a master it
  does not name), or follows nobody; the second has the shim's configuration.

In `Exchange`, time passes between beacons only and a frame is heard at the instant it is sent; a beacon goes on the air when the radio holds nothing; a
beacon the radio refuses is a lost one; the tap is always there; the floor of the metric is in Mesh; the reactive path's own throttle of
12 ms is implied by the beacon gap (an assumption says so); radios report no TSF.

### Fairness, and why the code justifies it

* Mesh: every pair of running nodes in range hears each other infinitely often (beacons are sent for ever, and the
  medium is lossy but not deaf), and a floor is a timer. Nothing makes a session stop or start.
* Transmit: weak fairness of the loop as a whole. Nothing is assumed of the kernel, the peers or the air;
  `Steady` (the cluster keeps one look from some time on) is a hypothesis of the liveness properties, and
  `FramesGoOut` assumes that a followed cluster has a window.
* Lifecycle: a thread inside a call is scheduled, netlink answers (perhaps with a refusal), a second passes, and
  `tarishd` polls the health of the session it holds. Nothing makes a blind session see.

## 4. Findings

1. *Code bug* (follow 248): where frames carry a TSF, the outlier test compares TSF phases alone. A frame with an odd counter and a
   true TSF is accepted, and the wrong gap between the two becomes an alignment sample (230): while samples are few, their
   median, and with it the phase, moves by more than half a slot, against follow 153-155 and 240-245. In the trace one exact frame is
   followed by an odd one; both leave the same anchor, and the larger of the two gaps is the median.
2. *Divergence* (follow 405): `is_usable` accepts one observation of any spread; the tests at `tlink/tests/follow.rs` 73, 79
   and 249 assert that it does not.
3. *Divergence* (follow 572): a master that leaves is followed and relayed for ever by those who heard of it, against
   `election.rs` 3-6.
4. *Divergence* (follow 598): two followers of one master name each other as parent; `would_cycle` (`election.rs`
   385-387) has no caller but tests.
5. *Code bug* (session 956-960): the tap is read after data was received, on hearing a followed master, and in the gap between windows.
   A channel-locked session without a usable clock has no gap: a lone one, and a master whose followers name it. Its
   application's packets stay in the kernel until a peer sends first, against session 360 and 957.
6. *Code bug* (session 1080, 272): bursts of no frames spend the repeat allowance, so that a control frame goes out
   without the redundancy session 230-231 says setup keeps.
7. *Code bug* (session 532, 539): the Block Ack parsers are given bytes with the radiotap header in front and find no frame control they know, so
   the probe counts no answer whoever answers (`ProbeHearsNothing`), against `blockack.rs` 116 and session 871-872.
8. *Divergence* (session 916): a session with a usable clock waits for the windows of whoever it adopted, also when its own beacon claims the
   cluster: it then beacons in slots it does not announce, against `beacon.rs` 791-792. `AnnouncedInItsWindow` is stated of a session that keeps its
   own time.
9. *Divergence* (follow 666): a follower that knows its master by relay only sends its own window counter under its master's name, against
   `beacon.rs` 555. `FollowerKeepsTheTimeline` is stated of a follower that has heard its master claim the job, and allows the one window
   by which rounding makes the projection lag.
10. *Divergence* (session 1409): one `awdl_data_seq` counts the packets of all destinations, against "Per-peer" in `data.rs` 40-41.
11. *Divergence* (session 1486): each copy of a repeated frame is written to the kernel; session 860-861 and 1120 say the peer de-duplicates. `OrderKept`
    therefore allows equals.
12. *Code bug* (`wonder.rs` 242): `read_ack` takes the oldest answer for its own. After a second answer, or a missed one, each refusal is read by the next
    command, or by nobody: the radio is brought up without a command the driver refused, against `wonder.rs` 184-187.
    `RunsOnAConfiguredRadio` states what is left.
13. *Divergence* (session 715): `BLIND_SECS` keeps its last figure when a session ends, against session 285-286 and shim 393-394.

14. *Code bug* (follow 188): `align_delta` is the middle of values sorted on a line, and they live on a ring. A gap near a whole cycle, cut to time
    units, gives exact samples at both ends; one odd counter whose sample lies between is then the median whatever the number of exact
    ones, and the phase is the glitch's. Between two nodes of this program the gap is the send latency less the rounding (session 1049,
    `beacon.rs` 538), so it does straddle. Follow 313-315 explains why such a median must be circular, for a function nobody calls.
    `RecoversOnceSettled` excepts such gaps (`GapIsOffTheSeam`); without that TLC violates it in six steps.

Findings 7 to 14 are met in passing runs: the property says what the code does, and the mutant or the restriction shows the difference.

## 5. Proofs

TLAPS checks these for every value of the constants that the named assumptions allow
(`ClockAssumption`, `TrackingAssumption`, `MeshAssumption`, `TransmitAssumption`, `ExchangeAssumption`, `ForeignAssumption`, and those of the
modules they extend).

* **ClusterTrackerProofs.** The inductive invariant is `Sound`. `OneTimeline` alone is not inductive: that a
  switch of master empties every history rests on the type of the histories, and that the window counter is known exactly when
  there is an anchor (`UsableHasCounter`) rests on `reset` and `observe` being called together, so
  `Sound` carries the cluster's type, the sources of all samples, and the link between root and master, and
  is preserved handler by handler: `observe`, the adoption table, taking a master, relaying. From it
  follow seven theorems, among them that tracking implements `Allegiance` (initial states map to
  initial states, every step to `Stay`, `Join` or a stutter).
* **MeshProofs.** The inductive invariant is `News`: at every node, what is held of the master was announced by that
  master, and its distance is at least the number of hops. `FollowingGoesUp` is not inductive: a node follows by what it was
  *told* of a metric, perhaps by a relay of a relay. `News` says that whatever was told is one of two
  numbers its master announced, the target or the floored one; a floor is below every target, so a node that
  follows has been told the target, and following goes up. Topology is any relation
  and distance in which hearing someone adds at most one hop.
* **TransmitProofs.** `Outbound` (queue is the run of sequence numbers between the last sent and the
  next given, modulo the wrap) is inductive by arithmetic of remainders, proved from the uniqueness of quotient and
  remainder; it gives `EachFrameOnceInOrder`. `Schedule` adds the types of clocks and bursts and `Spaced`: outside a
  scheduled burst no beacon is younger than `last_tx_us` as far as a gap can tell. It is needed because the two
  beacon paths take `last_tx_us` at different moments, one before its burst and one after, so that during a
  scheduled burst the clock the gap is measured by is wrong, and the proof shows that nothing beacons by it then.

* **LifecycleProofs.** The inductive invariant `Inv` has a part for each thing that could go wrong: `Threads` (what the two threads may
  be doing together, which is why nothing is torn down under a session), `Socket`, `Radio`, `Slot`, `Tap` and `Health`. `Radio` is the
  argument: up to NEW each answer is read by the request it answers; from there at most two answers that are not a vendor command's are ahead in
  the socket, and they are consumed before the configuration is half done, so what is unread at the end answers vendor commands, and a
  refusal among them is the only way a command can be missing (`RunsOnAConfiguredRadio`). `Slot` says which failures
  leave the P2P slot held; `Health` that a running session has published its own figure since it zeroed the former one's.
* **DataFramesProofs.** Over all octets: an address made from a MAC gives the MAC back and the reverse, so a packet for a station's link-local
  address goes to that station's MAC and to no other, and every multicast destination is heard by all. The octet that flips a bit
  is why it is a proof and not a definition. Over all frames: what `decapsulate_all` makes of the first c symbols of a frame this program
  wrote, alone (`LoneUnwraps`), behind filler (`PaddedUnwraps`) or in an aggregate of any number, marked or not (`AggregateUnwraps`):
  exactly the packets whose subframes are all there, in order. The functions that build an aggregate and walk it are recursive over its
  length, so the proof never unfolds them: it shows that a chain of subframes and a walk over one exist and are unique, each by the
  least number at which it would go wrong, and that every step of the walk lands where a link of the chain begins.
* **SchedulesProofs.** For every instant: the window counter a beacon carries names the slot it is sent in, and the wait for the next
  advertised slot ends at the start of one, or at once inside one. The proof is the uniqueness of quotient and remainder, across the
  wrap of the cycle.
* **ClockTrackingProofs.** The inductive invariant `Inv` is the world's type and `Estimate`: every history holds phases of the cycle of the
  mode in force, and `Streak`, that what is held as an outlier is the end of a run of agreeing frames, its newest the last offer and its
  length at most that of the run. Without `Streak` nothing says that `Confirm` outliers are consecutive, and `JumpNeedsConfirmation` would
  not follow. That the median of the alignment samples is one of them rests on the least-number principle. Under that invariant,
  `WaitAgreesWithSlotAt` and `CentreForgivesHalfASlot` are statements about remainders, proved for every length of slot and every instant;
  `CounterPhaseIsAligned` holds for a master that reports what is left of its window, once a cycle has passed, when the
  counter's range is a number of cycles (`WholeCycles`): 65536 is, for every presence mode that is a power of two.
  `RecoversOnceSettled` needs a second invariant, `Settling`: since the last disturbance the anchor has become one that an exact frame offers, or
  the outliers held are at least as many as the exact frames and the newest is one of theirs; and of the alignment samples the newest, one
  for each of those frames, lie within a time unit below the true gap. The property alone says nothing until enough frames have come.
  More than half of the samples there puts the median there (`MedianOfMost`, by counting), so the phase is less than a time unit early, and
  `CentreForgives` does the rest. It assumes `FramesAreTrue`: what `CounterPhaseIsAligned` needs, that the stamp wraps at whole cycles too,
  that our clock does not wrap, and that no stamp is exactly zero, which the code reads as none (section 6).
  The constants of the `clock` run satisfy it. The cycle at which our clock begins, and gaps on the seam, stay excepted.

* **ExchangeProofs.** The inductive invariant of the data path is `Inv`, and it follows a packet. `Senders`: the queue of a kernel holds the
  last packets handed over, each in a frame around it under the numbers `Earlier + k - 1`, and the radio holds earlier ones in order, among
  requests. `RadioIsRecent`: none is older than the frames behind it and the sends refused so far allow; without it nothing bounds how far apart
  the numbers of two waiting frames are, and `SequencesNamePackets` would not follow across the wrap. `AirIs`: of every start of the frame being
  sent a receiver unwraps as many packets as `needs` says, and each that names a sender of ours was handed over by it, not after anything its
  radio still has. `Taps`, `Order`: what a tap was given is right, and comes before what the air and the radio hold. `OrderKept` alone is not
  inductive: it says nothing of frames on their way. What a receiver unwraps comes from DataFramesProofs, and one lemma per action moves
  the packets along. `Sound` adds what only one action touches: numbers, clocks, probe and tallies; `PacketsAreAccounted` follows because the
  four ways a packet can go split the packets of a capture (`PartsCount`), which are as many as were reached (`HeardIs`). Eight theorems
  follow, among them `AnnouncedInItsWindow`, by SchedulesProofs. They assume `ExchangeAssumption` (addresses are distinct, queue, radio and
  refused sends fit in the range of the 802.11 number, the counter wraps after whole cycles) and `ForeignAssumption`: a frame of another make
  unwraps to as many packets as its `needs` say, and does not speak for a station of ours. `MCExchange` satisfies both, and TLC evaluates them.

  `LearnedIsAdvertised` rests on a second invariant, `Told`: what is on the air reads as it was meant, and says nothing if nothing was meant.
  The walk over the tags of a frame is a recursive function of the offset; where it would go wrong there is a greatest offset at which it does,
  and there is none. So of a body written tag by tag it returns those tags (`BodyTlvs`), and of a cut body the tags that are whole
  (`CutTlvs`). Below it is one round trip for each kind of tag (sequences with their legacy and OpClass encodings, the fields of a bitmap in their order, names whose ending the dictionary covers or not),
  and above it `FrameReads`: a beacon in any cluster, at any instant, reads as meant, no tag twice.

  `FollowerKeepsTheTimeline` rests on `Heeding`, a third invariant. It says of every session that its tracker is sane (root and distance are those of its master, the time it keeps is of its master), and that
  the counter and arrival it projects from are those of a frame in `heeded`, which one of our stations sent when it said so and under its own
  count if it claimed the job. Hearing keeps it because what is heard is what was meant (`Told`); a switch of master keeps it because the switch forgets
  the time. `ProjectionIsTrue` does the rest: windows counted since then, plus a counter that may have wrapped, are this moment's window or the one
  before. Stated of a master that follows nobody *now*, the property would hold in the instance of the run and be false: a master may
  have followed when it was heard and have taken the job back since, and its follower relays, until it hears it again, the other's time under its name.

  They also use `ForeignAssumption`: a frame of another make says what it claims to, and claims in nobody else's name.

Only model-checked: liveness (`Converges`, `BeaconsNeverStop`, `FramesGoOut`, `StopReturns`, `BlindnessEnds`), which under fairness
and with ENABLED is beyond the prover. Every invariant and every action property of a passing run has its theorem. No module here declares a RECURSIVE operator.

## 6. What is not modelled, and what was met on the way

Left out of the modelled components: statistics, logging, rates and the choice of channel; channel hopping
(`follow_channels`), which no program of the repository enables; the experimental switches that put wrong values in fields nobody here
reads (`garbage`, `legacy_timing`). Not modelled at all: the layout of octets and bit fields (pure functions, tested by replaying captures), tags
that only the command line prints, `coverage.rs` (a table), the generic nl80211 backend and raw sockets (one request and one answer around the
kernel), the command line, scripts. What comes from outside `src`'s
programs (the kernel, the radio, `tarishd`, the air) is external: it does what the code and its comments expect.

Observations that no run states, for a reader of the code:

* follow 189: 64 alignment samples are not dropped when a new anchor is adopted by confirmation, so the median keeps the old timeline's
  correction for a while; `RecoversOnceSettled` counts that in `Settle`.
* follow 125: before the first cycle of our clock has passed, the subtraction saturates at 0 and the phase is off
  (follow 119-120 says it is aligned). A session is up for longer than a cycle before it matters.
* follow 136: a stamp of exactly 0 (one microsecond in 71 minutes) is read as no stamp, so a counter's phase is offered and then shifted by the
  gap of the stamps all the same; once there is an anchor, at most half a slot of that is believed, until the next stamped frame.
* follow 102: a presence mode that does not divide 65536 makes the slot jump when the u16 counter wraps; every node observed uses 4.
* follow 607-616 and 681-690 keep the schedule as it is listed in `channels`, and so does the model; `sync.rs` 513-519 says to use
  `control_channels` (which only tests call) for anything that acts on it, since a Legacy list has the centres of 40 MHz channels. The
  OpClass schedule of tag 18 replaces it when the master sends one (follow 671-678). When it does not, a session locked to 149 finds no
  window among slots listed as 151, and transmits in its own windows; a hopping one retunes to what is listed (the wait for a driver
  that refuses is below). The exchange run meets such a master.
* session 1192: nodes of equal best metric both claim the cluster for ever; `beats` (`election.rs` 327, 339) breaks ties and is never called.
* `beacon.rs` 574-576: tenure advances while following, unlike `election.rs` 198-200.
* follow 666: a station keeps projecting the counter it last heard of its master. If the master followed another then and has claimed the
  job since, what is relayed under its name is the other's time until it is heard again.
* session 183-190: the liveness escape of 1 s is shorter than a master's cycle of 1.049 s at presence mode 4, and the comment
  that a cycle is about 262 ms is for mode 1; the wait for a window (956-968) comes before the escape.
* session 60-61: the beacon gap also holds back the scheduled drain (986-993).
* session 1101-1105: if the followed master's schedule is empty, or a self-timed session is out of phase
  with the master it hears, frames are held for ever; beacons are not.
* session 935: a hop the driver refuses still waits for, and transmits in, a window on a channel the radio is not on.
* session 230-231: the allowance is per burst, not per frame.
* session 877: the starting sequence number of an ADDBA request is the next one to be assigned, while frames with older ones wait in the queue.
* `data.rs` 308-345: a damaged subframe inside an aggregate whose others parse is dropped without being counted; "every stage" of
  `RxStages` counts whole frames.
* `radiotap.rs` 46: the session never looks at the bad-FCS flag, and a trailing FCS is not stripped.
* shim 163-186: a start that misses the answer to UP returns NULL with the radio up; `SlotIsReleased` excepts it.

## 7. Plan

Done: sections 2 to 5. What is left, in this order:

1. The clock with a presence mode that does not divide the counter's range, and its first cycle.
2. Channel hopping, should a program enable it: the refused hop, and the window waited for on another channel.
3. A refinement of Transmit to a first-in, first-out link, with Exchange's queue as its user.
4. A daemon that holds two handles, should `tarishd`'s side become part of the repository.
