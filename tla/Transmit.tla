------------------------------ MODULE Transmit ------------------------------
(***************************************************************************)
(* When a session transmits: the loop of crates/tlink-session/src/lib.rs   *)
(* from the receive phase to the sleep at its end.  One thread listens,    *)
(* answers data at once, beacons on hearing the master, waits for a window *)
(* and beacons in it, and each of the last three drains the outbound queue.*)
(*                                                                         *)
(* Time is counted in ticks.  The loop sees the air only while it listens, *)
(* the kernel's packets only while it reads the tun, and the clock always: *)
(* a transmission may take a tick, so a window may shut during a burst.    *)
(* What the cluster looks like (is the clock usable, which slots does the  *)
(* master keep, on which channels) is the environment's, and may change    *)
(* when a frame is heard.                                                  *)
(*                                                                         *)
(* A queued frame is its 802.11 sequence number.  A transmission that the  *)
(* radio refuses loses its frame and changes nothing else, so it is the    *)
(* same step.  Statistics, the rate of a frame and the Block Ack probe are *)
(* left out.                                                               *)
(***************************************************************************)
EXTENDS Integers, Sequences

CONSTANTS
  Modes,          \* the configurations: [follow, lock, reactive : BOOLEAN]
  Slots,          \* slots in a cycle (16)
  SlotTicks,      \* ticks in a slot
  OwnSlots,       \* slots of our own schedule when the radio may hop
  Home,           \* Config::channel
  Away,           \* any other channel
  Views,          \* what a cluster may look like: [usable, channels]
  Phases,         \* how far a master's cycle may be ahead of ours
  BeaconGap,      \* beacon_min_gap_us (60 ms), in ticks
  SlotGap,        \* SLOT_US / 2
  Liveness,       \* TX_LIVENESS_US (1 s)
  PeerAwake,      \* PEER_AWAKE_US (12 ms)
  Throttle,       \* between reactive transmissions (12 ms)
  Second,         \* the window of the repeat budget
  Nap,            \* the sleeps between looks at the clock (2 and 3 ms)
  LockNap,        \* the sleep after a beacon when channel-locked (8 ms)
  PsfNap,         \* the sleep after a beacon otherwise (112 ms)
  QueueMax,       \* OUTBOUND_MAX (512)
  Batch,          \* packets read from the tun at a time (24)
  PerWindow,      \* drain_per_window (24)
  DataRepeat,     \* data_repeat
  AckRepeat,      \* ACK_REPEAT (3)
  SmallBurst,     \* SMALL_BURST_MAX (6)
  Allowance,      \* REPEAT_BUDGET_PER_SEC (12)
  AckLoops,       \* rounds of the immediate-ACK drain (64)
  SeqMod,         \* wrap-around of the sequence number (4096)
  TunMax,         \* bound on packets waiting in the kernel
  MaxLag          \* bound on the ticks a pass spends transmitting

Slot == 0..(Slots - 1)
Cycle == Slots * SlotTicks
Asleep == 0

(* Nothing heard yet.                                                      *)
Unheard == [usable |-> FALSE, channels |-> [s \in Slot |-> Asleep]]

ASSUME TransmitAssumption ==
  /\ Modes \subseteq [follow : BOOLEAN, lock : BOOLEAN, reactive : BOOLEAN]
  /\ {Slots, SlotTicks, Nap, LockNap, PsfNap, QueueMax, Batch, PerWindow, DataRepeat,
      AckRepeat, AckLoops} \subseteq Nat \ {0}
  /\ {BeaconGap, SlotGap, Liveness, PeerAwake, Throttle, Second, SmallBurst, Allowance,
      TunMax, MaxLag} \subseteq Nat
  /\ OwnSlots \subseteq Slot /\ OwnSlots # {}
  /\ Asleep \notin {Home, Away}
  /\ Views \subseteq [usable : BOOLEAN, channels : [Slot -> {Home, Away, Asleep}]]
  /\ Unheard \in Views
  /\ Phases \subseteq 0..(Cycle - 1)
  /\ SeqMod \in Nat /\ QueueMax < SeqMod

VARIABLES
  cfg,       \* the session's configuration
  pc,        \* "listen", "ack", "react", "wait" or "drain"
  view,      \* the cluster as the clock and the schedule show it
  pos,       \* ticks into the master's cycle, by our clock
  own,       \* ticks into our own
  queue,     \* outbound
  next_seq,  \* d11_data_seq
  tun,       \* packets the kernel holds for us
  heard,     \* heard_master
  age,       \* ticks since last_tx_us, last_reactive_us, last_rx_us and the budget's
             \* window_us; history: since the last beacon
  beaconed,  \* last_tx_us > 0
  spent,     \* the repeats the budget has granted in its window
  drain,     \* the burst being drained
  rounds,    \* rounds of the immediate-ACK drain in this pass
  lag,       \* history: ticks this pass has spent transmitting
  tried,     \* history: the sequence number last transmitted
  useful     \* history: grants in the budget's window that had a frame to repeat

clocks == <<pos, own, age>>
out == <<queue, next_seq, tun>>
air == <<cfg, view>>
budget == <<spent, useful>>
vars == <<air, pc, clocks, out, heard, beaconed, budget, drain, rounds, lag, tried>>

NoBurst == [path |-> "none", left |-> 0, again |-> FALSE, denied |-> FALSE]

-----------------------------------------------------------------------------
(* Time.  Ages stop counting at what the code and the properties compare   *)
(* them with.                                                              *)

Larger(a, b) == IF a >= b THEN a ELSE b
LongestGap == Larger(BeaconGap, SlotGap)
UpTo(n, bound) == IF n > bound THEN bound ELSE n

Older(a, n) ==
  [tx |-> UpTo(a.tx + n, Larger(Liveness, LongestGap)),
   reactive |-> UpTo(a.reactive + n, Throttle),
   rx |-> UpTo(a.rx + n, PeerAwake), budget |-> UpTo(a.budget + n, Second),
   beacon |-> UpTo(a.beacon + n, LongestGap)]

Turn(p, n) == (p + n) % Cycle

Elapse(n) ==
  /\ pos' = Turn(pos, n)
  /\ own' = Turn(own, n)
  /\ age' = Older(age, n)

(* A transmission: at once, or a tick of the pass's lag.                   *)
TakesTime(a) ==
  \E n \in 0..1 :
    /\ lag + n <= MaxLag
    /\ lag' = lag + n
    /\ pos' = Turn(pos, n)
    /\ own' = Turn(own, n)
    /\ age' = Older(a, n)

-----------------------------------------------------------------------------
(* The schedule.                                                           *)

Awake == {s \in Slot : view.channels[s] # Asleep}
MasterSlot == pos \div SlotTicks
InWindow == MasterSlot \in Awake

Follows == cfg.follow /\ view.usable

(* A channel-locked beacon advertises every slot; any other its OwnSlots.  *)
OwnOpen == cfg.lock \/ own \div SlotTicks \in OwnSlots

(* The windows a pass waits for: next_master_window_on or                *)
(* us_until_master_window; our own when there is none.                     *)
Aimed ==
  IF ~Follows THEN {}
  ELSE IF cfg.lock THEN {s \in Awake : view.channels[s] = Home} ELSE Awake

Open == IF Aimed = {} THEN OwnOpen ELSE MasterSlot \in Aimed

-----------------------------------------------------------------------------
(* enqueue_from_tun: read until the kernel has no more, the batch is full  *)
(* or the queue is; a packet without a route takes no sequence number.     *)
(* Mutant: room for one more than there is.                                *)
RoomAndOne == QueueMax + 1 - Len(queue)

Room == QueueMax - Len(queue)

EnqueueFromTun ==
  \E read \in 0..tun, kept \in 0..tun :
    /\ kept <= read /\ read <= Batch /\ kept <= Room
    /\ read \in {tun, Batch} \/ kept = Room
    /\ queue' = queue \o [i \in 1..kept |-> (next_seq + i - 1) % SeqMod]
    /\ next_seq' = (next_seq + kept) % SeqMod
    /\ tun' = tun - read

(* RepeatBudget::take, for a burst of so many frames.                      *)
Take(frames) ==
  LET fresh   == age.budget >= Second
      already == IF fresh THEN 0 ELSE spent
      served  == IF fresh THEN 0 ELSE useful
      grant   == already < Allowance
  IN  [grant |-> grant,
       spent |-> IF grant THEN already + 1 ELSE already,
       useful |-> IF grant /\ frames > 0 THEN served + 1 ELSE served,
       since |-> IF fresh THEN 0 ELSE age.budget]

(* A burst of so many frames asks for the budget when it is small.         *)
AskBudget(frames) ==
  IF frames <= SmallBurst THEN Take(frames)
  ELSE [grant |-> FALSE, spent |-> spent, useful |-> useful, since |-> age.budget]

Spend(ask) == spent' = ask.spent /\ useful' = ask.useful

Burst(path, left, again, denied) ==
  [path |-> path, left |-> left, again |-> again, denied |-> denied]

(* A small burst with frames in it that goes out without redundancy.       *)
Denied(ask, frames) == frames \in 1..SmallBurst /\ ~ask.grant

(* Mutant: without the max(1).                                             *)
PerVisitWithoutOne(reps) == PerWindow \div reps

PerVisit(reps) == Larger(PerWindow \div reps, 1)

-----------------------------------------------------------------------------
Init ==
  /\ cfg \in Modes
  /\ pc = "listen"
  /\ view = Unheard
  /\ own = 0
  /\ pos \in Phases
  /\ queue = <<>>
  /\ next_seq = 0
  /\ tun = 0
  /\ heard = FALSE
  /\ age = [tx |-> 0, reactive |-> 0, rx |-> 0, budget |-> 0, beacon |-> LongestGap]
  /\ beaconed = FALSE
  /\ spent = 0
  /\ drain = NoBurst
  /\ rounds = 0
  /\ lag = 0
  /\ tried = SeqMod - 1
  /\ useful = 0

(* The kernel hands us a packet.                                           *)
Offer ==
  /\ tun < TunMax
  /\ tun' = tun + 1
  /\ UNCHANGED <<air, pc, clocks, queue, next_seq, heard, beaconed, budget, drain,
                 rounds, lag, tried>>

(* LISTEN: what is waiting in the socket, which may hold a frame of the    *)
(* master's, data for us, and news of the cluster.                         *)
NoNews == UNCHANGED <<air, pos>>

News ==
  /\ view' \in Views \ {view}
  /\ pos' \in {Turn(own, p) : p \in Phases}
  /\ UNCHANGED cfg

Listen ==
  /\ pc = "listen"
  /\ NoNews \/ News
  /\ \E master, data \in BOOLEAN :
       /\ heard' = master
       /\ age' = IF data THEN [age EXCEPT !.rx = 0] ELSE age
       /\ pc' = IF data THEN "ack" ELSE "react"
  /\ UNCHANGED <<own, out, beaconed, budget, drain, rounds, lag, tried>>

(* IMMEDIATE ACK: a round reads the tun and drains the whole queue, and    *)
(* another follows while there was something to read.                      *)
StartAckRound ==
  /\ pc = "ack"
  /\ EnqueueFromTun
  /\ LET frames == Len(queue')
         ask    == AskBudget(frames)
     IN  /\ Spend(ask)
         /\ age' = [age EXCEPT !.budget = ask.since]
         /\ drain' = Burst("ack", frames, frames > Len(queue) /\ rounds + 1 < AckLoops,
                           Denied(ask, frames))
  /\ rounds' = rounds + 1
  /\ pc' = "drain"
  /\ UNCHANGED <<air, pos, own, heard, beaconed, lag, tried>>

(* REACTIVE INJECTION, on hearing the master.  last_tx_us and              *)
(* last_reactive_us take the time the block was entered.                   *)
Reacts == cfg.reactive /\ heard /\ view.usable /\ age.reactive >= Throttle

ReactiveBeacons == age.tx >= BeaconGap

React ==
  /\ pc = "react"
  /\ Reacts
  /\ EnqueueFromTun
  /\ TakesTime([age EXCEPT !.reactive = 0,
                           !.tx = IF ReactiveBeacons THEN 0 ELSE @,
                           !.beacon = IF ReactiveBeacons THEN 0 ELSE @])
  /\ beaconed' = (beaconed \/ ReactiveBeacons)
  /\ drain' = Burst("reactive", PerVisit(DataRepeat), FALSE, FALSE)
  /\ pc' = "drain"
  /\ heard' = FALSE
  /\ UNCHANGED <<air, budget, rounds, tried>>

DoNotReact ==
  /\ pc = "react"
  /\ ~Reacts
  /\ pc' = "wait"
  /\ heard' = FALSE
  /\ UNCHANGED <<air, clocks, out, beaconed, budget, drain, rounds, lag, tried>>

Sleep(n) ==
  /\ Elapse(n)
  /\ pc' = "listen"
  /\ lag' = 0

(* Between windows the kernel's packets are collected.                     *)
WaitForWindow ==
  /\ pc = "wait"
  /\ ~Open
  /\ EnqueueFromTun
  /\ Sleep(Nap)
  /\ UNCHANGED <<air, heard, beaconed, budget, drain, rounds, tried>>

(* Mutant: the gap as it was, none when channel-locked.                    *)
GapOfOld == IF cfg.lock THEN 0 ELSE SlotGap

Gap == IF cfg.lock THEN BeaconGap ELSE SlotGap
TooSoon == cfg.follow /\ beaconed /\ age.tx < Gap

HoldForGap ==
  /\ pc = "wait"
  /\ Open
  /\ TooSoon
  /\ Sleep(Nap)
  /\ UNCHANGED <<air, out, heard, beaconed, budget, drain, rounds, tried>>

(* DO NOT TRANSMIT INTO AN EMPTY ROOM, unless silent for too long.         *)
Starved == age.tx >= Liveness
(* Mutant: the gate without its liveness escape.                           *)
EmptyRoomForEver == Follows /\ ~InWindow

EmptyRoom == Follows /\ ~InWindow /\ ~Starved

HoldForCluster ==
  /\ pc = "wait"
  /\ Open
  /\ ~TooSoon
  /\ EmptyRoom
  /\ Sleep(Nap)
  /\ UNCHANGED <<air, out, heard, beaconed, budget, drain, rounds, tried>>

SendBeacon ==
  /\ pc = "wait"
  /\ Open
  /\ ~TooSoon
  /\ ~EmptyRoom
  /\ LET frames == Len(queue)
         ask    == AskBudget(frames)
         reps   == IF ask.grant THEN AckRepeat ELSE DataRepeat
     IN  /\ Spend(ask)
         /\ TakesTime([age EXCEPT !.budget = ask.since, !.beacon = 0])
         /\ drain' = Burst("scheduled", PerVisit(reps), FALSE, Denied(ask, frames))
  /\ pc' = "drain"
  /\ UNCHANGED <<air, out, heard, beaconed, rounds, tried>>

-----------------------------------------------------------------------------
(* A burst: while frames are left to send, the one at the head.  Every     *)
(* frame is tested against the window as it leaves; only the immediate     *)
(* answers may leave outside one, while the peer is proven awake.          *)
Bursting == pc = "drain" /\ drain.left > 0 /\ queue # <<>>

MayLeave ==
  \/ ~view.usable
  \/ InWindow
  \/ drain.path = "ack" /\ age.rx < PeerAwake

SendFrame ==
  /\ Bursting
  /\ MayLeave
  /\ tried' = Head(queue)
  /\ queue' = Tail(queue)
  /\ drain' = [drain EXCEPT !.left = @ - 1]
  /\ TakesTime(age)
  /\ UNCHANGED <<air, pc, next_seq, tun, heard, beaconed, budget, rounds>>

(* The window shut: pop_front, push_front, break.                          *)
(* Mutant: push_back instead of push_front.                                *)
PutAtEnd(frame, rest) == Append(rest, frame)

PutBack(frame, rest) == <<frame>> \o rest

HoldFrame ==
  /\ Bursting
  /\ ~MayLeave
  /\ queue' = PutBack(Head(queue), Tail(queue))
  /\ drain' = [drain EXCEPT !.left = 0]
  /\ UNCHANGED <<air, pc, clocks, next_seq, tun, heard, beaconed, budget, rounds,
                 lag, tried>>

Drained(path) ==
  /\ pc = "drain"
  /\ drain.path = path
  /\ drain.left = 0 \/ queue = <<>>
  /\ drain' = NoBurst
  /\ UNCHANGED <<air, out, heard, budget, tried>>

EndAckRound ==
  /\ Drained("ack")
  /\ pc' = IF drain.again THEN "ack" ELSE "react"
  /\ rounds' = IF drain.again THEN rounds ELSE 0
  /\ UNCHANGED <<clocks, beaconed, lag>>

EndReactive ==
  /\ Drained("reactive")
  /\ pc' = "wait"
  /\ UNCHANGED <<clocks, beaconed, rounds, lag>>

(* last_tx_us is taken here, after the burst; then the loop sleeps.        *)
EndVisit ==
  /\ Drained("scheduled")
  /\ beaconed' = TRUE
  /\ LET nap == IF cfg.lock THEN LockNap ELSE PsfNap
     IN  /\ pos' = Turn(pos, nap)
         /\ own' = Turn(own, nap)
         /\ age' = Older([age EXCEPT !.tx = 0], nap)
  /\ pc' = "listen"
  /\ lag' = 0
  /\ UNCHANGED rounds

Step ==
  \/ Listen
  \/ StartAckRound \/ EndAckRound
  \/ React \/ DoNotReact \/ EndReactive
  \/ WaitForWindow \/ HoldForGap \/ HoldForCluster
  \/ SendBeacon \/ EndVisit
  \/ SendFrame \/ HoldFrame

Next == Step \/ Offer

Spec == Init /\ [][Next]_vars

(* The session's thread keeps running.  Nothing is assumed of the kernel,  *)
(* of the peers or of the air.                                             *)
FairSpec == Spec /\ WF_vars(Step)

-----------------------------------------------------------------------------
Ages ==
  [tx : 0..Larger(Liveness, LongestGap), reactive : 0..Throttle, rx : 0..PeerAwake,
   budget : 0..Second, beacon : 0..LongestGap]

Bursts ==
  [path : {"none", "ack", "reactive", "scheduled"}, left : Nat, again : BOOLEAN,
   denied : BOOLEAN]

(* The type invariant; the queue never outgrows its limit, however many    *)
(* frames are put back.  (session 172-176 and 1385)                        *)
TypeOK ==
  /\ cfg \in Modes /\ view \in Views
  /\ pc \in {"listen", "ack", "react", "wait", "drain"}
  /\ pos \in 0..(Cycle - 1) /\ own \in 0..(Cycle - 1)
  /\ queue \in Seq(0..(SeqMod - 1)) /\ Len(queue) <= QueueMax
  /\ next_seq \in 0..(SeqMod - 1) /\ tried \in 0..(SeqMod - 1)
  /\ tun \in 0..TunMax
  /\ heard \in BOOLEAN /\ beaconed \in BOOLEAN
  /\ age \in Ages
  /\ spent \in 0..Allowance /\ useful \in 0..spent
  /\ drain \in Bursts
  /\ rounds \in 0..AckLoops
  /\ lag \in 0..MaxLag

(* Every frame goes out once and in the order it was read: the queue is    *)
(* the run of sequence numbers between the last one sent and the next one  *)
(* given, whatever windows shut in the middle of whatever bursts.          *)
(* (session 692-696, 860-864, 1101-1105)                                   *)
EachFrameOnceInOrder ==
  /\ \A i \in DOMAIN queue : queue[i] = (tried + i) % SeqMod
  /\ next_seq = (tried + Len(queue) + 1) % SeqMod

(* Beacons of a channel-locked follower keep their distance, whichever of  *)
(* the two paths sends them.  (session 56-64 and 976-993)                  *)
BeaconLeaves == SendBeacon \/ (React /\ ReactiveBeacons)
BeaconsAreSpaced ==
  [][cfg.lock /\ cfg.follow /\ BeaconLeaves => age.beacon >= BeaconGap]_vars

(* A cluster that keeps one look from some time on.                        *)
Steady == <>[][UNCHANGED view]_vars

(* Beacons never stop, whatever the cluster looks like and though nothing  *)
(* is ever heard again: "a deadlock that cannot happen".                   *)
(* (session 1012-1041)                                                     *)
BeaconsNeverStop == Steady => []<><<BeaconLeaves>>_vars

(* A frame in the queue is sent in the end, provided the cluster we follow *)
(* has a window at all.  (session 1101-1104)                               *)
HasWindows == ~view.usable \/ Awake # {}
AtHead(s) == queue # <<>> /\ Head(queue) = s
FramesGoOut ==
  Steady /\ <>[](cfg.follow /\ HasWindows) =>
    \A s \in 0..(SeqMod - 1) : AtHead(s) ~> ~AtHead(s)

(* Bulk pays for its repeats, setup does not: a small burst goes out       *)
(* without redundancy only when the allowance went to others with frames   *)
(* in them.  (session 230-231, 258)  See findings: a burst of no frames    *)
(* spends it as well.                                                      *)
SetupIsRepeated == drain.denied => useful >= Allowance

(* Packets the kernel holds for us are read in the end: "Outbound IP is    *)
(* queued and drained in-window" (session 355-357).  See findings: only    *)
(* the gap between windows reads them, and there may be none.              *)
PacketsAreRead == tun > 0 ~> tun < TunMax
=============================================================================
