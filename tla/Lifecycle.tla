------------------------------ MODULE Lifecycle -----------------------------
(***************************************************************************)
(* A session's life: the libmosey calls of crates/tlink-shim, the radio    *)
(* bring-up of crates/tlink-hal/src/wonder.rs they run, and the thread     *)
(* that sets up the tap (crates/tlink-hal/src/tun.rs), runs the session    *)
(* loop of crates/tlink-session and publishes how long it has been blind.  *)
(*                                                                         *)
(* Two threads run at once: the daemon's, inside mosey_start_5, mosey_stop *)
(* or mosey_health, and the session's.  They share the stop flag and the   *)
(* process-wide BLIND_SECS.  Every netlink request may be refused, its     *)
(* answer may not be received, and NEW or a vendor command may answer twice*)
(* (a reply of its own, then the acknowledgement); the session may return  *)
(* an error or panic, and may find itself alone, synced or blind at any    *)
(* time.                                                                   *)
(*                                                                         *)
(* The kernel driver and tarishd are not part of the repository: they do   *)
(* here what the code and its comments expect of them.  The daemon holds   *)
(* at most one handle.                                                     *)
(***************************************************************************)
EXTENDS Integers, Sequences

CONSTANTS
  BlindLimit,   \* seconds of blindness at which tarishd restarts (60)
  BlindMax,     \* bound on the seconds counted
  MaxFaults     \* bound on failures and second answers in a behaviour

ASSUME LifecycleAssumption ==
  /\ BlindLimit \in Nat \ {0}
  /\ BlindMax \in Nat /\ BlindLimit <= BlindMax
  /\ MaxFaults \in Nat

VARIABLES
  daemon,     \* where the daemon's thread is: see Steps
  handle,     \* does the daemon hold a handle?
  restart,    \* is this stop the first half of a restart?
  iface,      \* wonder0: "absent", "down" or "up"
  cached,     \* the commands the driver has cached for this wonder0
  slotHeld,   \* is wondertap0 up, and with it the chip's P2P slot held?
  replies,    \* answers unread on the radio's netlink socket: [to, ok]
  late,       \* history: answers not received, and second answers, of this radio
  mac,        \* is wonder0's MAC known?
  address,    \* the interface whose MAC is announced: "wondertap0", "wonder0", or
              \* "none" if neither was read
  tap,        \* tlink0: [at |-> the steps done, quiet |-> will the kernel give it no
              \* address of its own?, addresses |-> those it has]
  stop,       \* the stop flag of the handle
  thread,     \* the session's thread: "none", "spawned", "top", "body", "ended"
  outlook,    \* what the session finds: "alone", "synced", "blind"
  blindFor,   \* seconds since blind_since, or -1
  blindSecs,  \* BLIND_SECS
  seen,       \* history: the outlook last published, or "nothing" yet
  slotFault,  \* history: is wondertap0 up for a refused stop or an unheard start?
  faults      \* history: failures so far

shim == <<handle, restart, stop, address>>
netlink == <<replies, late, mac>>
radio == <<iface, cached, slotHeld, slotFault, netlink>>
health == <<outlook, blindFor, blindSecs, seen>>
session == <<thread, tap, health>>
vars == <<daemon, shim, radio, session, faults>>

-----------------------------------------------------------------------------
(* Wonder::bring_up, in the order that is load-bearing: the driver caches  *)
(* the configuration, and the last command applies it.  Three of the       *)
(* requests ask for something.                                             *)
Configure == <<"SET_REG", "SET_FREQUENCY", "SET_FILTER", "SET_FIXED_TX_RATE", "0x08">>
Commands == {Configure[i] : i \in DOMAIN Configure}
BringUp == <<"FAMILY", "WIPHY", "DEL", "NEW", "MAC">> \o Configure \o <<"UP">>
Queries == {"FAMILY", "WIPHY", "MAC"}
TearDown == <<"flag", "join", "tap", "wonder">>

(* The daemon's thread: idle, at a bring-up command, about to spawn, or at *)
(* a step of mosey_stop.                                                   *)
Steps ==
  [call : {"idle", "spawn"}] \cup [call : {"start"}, at : DOMAIN BringUp]
    \cup [call : {"stop"}, at : DOMAIN TearDown]
Idle == [call |-> "idle"]
StartAt(i) == [call |-> "start", at |-> i]
StopAt(i) == [call |-> "stop", at |-> i]

(* Mutant: the tap comes up before the kernel is told to be quiet.         *)
TapUpFirst == <<"TUNSETIFF", "UP", "ADDR_GEN_MODE", "HWADDR", "MTU", "ADDR">>

(* Tun::open and Tun::configure, "the order is the whole content".         *)
TapSteps == <<"TUNSETIFF", "ADDR_GEN_MODE", "HWADDR", "MTU", "UP", "ADDR">>
NoTap == [at |-> 0, quiet |-> FALSE, addresses |-> {}]

Init ==
  /\ daemon = Idle
  /\ handle = FALSE /\ restart = FALSE
  /\ iface \in {"absent", "down"}
  /\ cached = {}
  /\ slotHeld = FALSE
  /\ replies = <<>> /\ late = 0 /\ mac = FALSE
  /\ address = "none" /\ tap = NoTap
  /\ stop = FALSE
  /\ thread = "none"
  /\ outlook = "alone"
  /\ blindFor = -1
  /\ blindSecs = 0
  /\ seen = "nothing"
  /\ slotFault = FALSE
  /\ faults = 0

Fails(n) == faults + n <= MaxFaults /\ faults' = faults + n
Count(yes) == IF yes THEN 1 ELSE 0

-----------------------------------------------------------------------------
(* mosey_start_5.                                                          *)

Start ==
  /\ daemon = Idle /\ ~handle
  /\ daemon' = StartAt(1)
  /\ restart' = FALSE
  /\ mac' = FALSE
  /\ UNCHANGED <<handle, stop, address, iface, cached, slotHeld, slotFault, replies, late,
                 session, faults>>

(* What the driver does with a request it accepts.  Bringing wonder0 up    *)
(* starts the radio, which registers wondertap0.                           *)
Command(command) ==
  \/ command = "DEL" /\ iface' = "absent" /\ cached' = {} /\ UNCHANGED slotHeld
  \/ command = "NEW" /\ iface' = "down" /\ cached' = {} /\ UNCHANGED slotHeld
  \/ command = "UP" /\ iface' = "up" /\ slotHeld' = TRUE /\ UNCHANGED cached
  \/ /\ command \in Commands
     /\ cached' = cached \cup {command} /\ UNCHANGED <<iface, slotHeld>>
  \/ command \in Queries /\ UNCHANGED <<iface, cached, slotHeld>>

(* The answers to a request.                                               *)
Answers(command, accepted, twice) ==
  [i \in 1..(1 + Count(twice)) |-> [to |-> command, ok |-> accepted]]

(* Mutant: a refusal is taken for a success.                               *)
SatisfiesAny(command, answer) == command \in Queries => answer.to = command

(* read_ack takes whatever is not an error for a success, of whatever      *)
(* request; a query looks for what it asked for.                           *)
Satisfies(command, answer) ==
  answer.ok /\ (command \in Queries => answer.to = command)

(* One request: sent, accepted or not, and one answer read -- the oldest,  *)
(* unless reading is interrupted.  Only the MAC can be done without; any   *)
(* other failure ends the call, with NULL, and closes the socket.  Nothing *)
(* is asked of an absent wonder0, and UP has a socket of its own.          *)
Skipped(command) == iface = "absent" /\ command \in {"WIPHY", "DEL"}

Request(i, accepted, twice, heard) ==
  LET command == BringUp[i]
      before == IF command = "UP" THEN <<>> ELSE replies
      pending == before \o Answers(command, accepted, twice)
      got == heard /\ Satisfies(command, Head(pending))
  IN
  /\ ~Skipped(command)
  /\ twice => accepted /\ command \in Commands \cup {"NEW"}
  /\ Fails(Count(~accepted) + Count(twice) + Count(~heard))
  /\ IF accepted THEN Command(command) ELSE UNCHANGED <<iface, cached, slotHeld>>
  /\ mac' = IF command = "MAC" THEN got ELSE mac
  /\ IF got \/ command = "MAC"
     THEN /\ daemon' = IF i = Len(BringUp) THEN [call |-> "spawn"] ELSE StartAt(i + 1)
          /\ IF command = "UP" THEN UNCHANGED <<replies, late>>
             ELSE /\ replies' = IF heard THEN Tail(pending) ELSE pending
                  /\ late' = late + Count(twice) + Count(~heard)
     ELSE daemon' = Idle /\ replies' = <<>> /\ late' = 0
  /\ slotFault' = (slotFault \/ (command = "UP" /\ accepted /\ ~heard))

Skip(i) ==
  /\ Skipped(BringUp[i])
  /\ daemon' = StartAt(i + 1)
  /\ UNCHANGED <<radio, faults>>

BringUpStep(i) ==
  /\ daemon = StartAt(i)
  /\ Skip(i) \/ Request(i, TRUE, FALSE, TRUE)
  /\ UNCHANGED <<shim, session>>

BringUpFault(i, accepted, twice, heard) ==
  /\ daemon = StartAt(i)
  /\ <<accepted, twice, heard>> # <<TRUE, FALSE, TRUE>>
  /\ Request(i, accepted, twice, heard)
  /\ UNCHANGED <<shim, session>>

(* mac_of("wondertap0"), on a socket of its own; wonder0's MAC otherwise.   *)
MacOf ==
  \/ address' = "wondertap0" /\ UNCHANGED faults
  \/ address' = (IF mac THEN "wonder0" ELSE "none") /\ Fails(1)

(* The radio is up: the address is chosen and the session's thread started.*)
Spawn ==
  /\ daemon = [call |-> "spawn"]
  /\ daemon' = Idle
  /\ handle' = TRUE
  /\ stop' = FALSE
  /\ thread' = "spawned"
  /\ MacOf
  /\ UNCHANGED <<restart, radio, tap, health>>

-----------------------------------------------------------------------------
(* mosey_stop.                                                             *)

Stop ==
  /\ daemon = Idle /\ handle
  /\ daemon' = StopAt(1)
  /\ restart' = FALSE
  /\ UNCHANGED <<handle, stop, address, radio, session, faults>>

RaiseFlag ==
  /\ daemon = StopAt(1)
  /\ stop' = TRUE
  /\ daemon' = StopAt(2)
  /\ UNCHANGED <<handle, restart, address, radio, session, faults>>

Join ==
  /\ daemon = StopAt(2)
  /\ thread = "ended"
  /\ thread' = "none"
  /\ daemon' = StopAt(3)
  /\ UNCHANGED <<shim, radio, tap, health, faults>>

(* Mutant: only wonder0 is taken down.                                     *)
DownNoTap ==
  /\ daemon = StopAt(3)
  /\ daemon' = StopAt(4)
  /\ UNCHANGED <<shim, radio, session, faults>>

(* set_iface_down("wondertap0"), best effort.                              *)
DownTap ==
  /\ daemon = StopAt(3)
  /\ daemon' = StopAt(4)
  /\ \/ slotHeld' = FALSE /\ slotFault' = FALSE /\ UNCHANGED faults
     \/ Fails(1) /\ slotFault' = TRUE /\ UNCHANGED slotHeld
  /\ UNCHANGED <<shim, iface, cached, netlink, session>>

(* set_iface_down("wonder0"), best effort; nothing to do when it is gone.  *)
DownWonder ==
  /\ daemon = StopAt(4)
  /\ handle' = FALSE
  /\ daemon' = IF restart THEN StartAt(1) ELSE Idle
  /\ restart' = FALSE
  /\ \/ iface' = (IF iface = "absent" THEN "absent" ELSE "down") /\ UNCHANGED faults
     \/ Fails(1) /\ UNCHANGED iface
  /\ mac' = FALSE
  /\ UNCHANGED <<stop, address, cached, slotHeld, slotFault, replies, late, session>>

(* mosey_health: the daemon reads BLIND_SECS and restarts past the limit.  *)
PollHealth ==
  /\ daemon = Idle /\ handle
  /\ blindSecs >= BlindLimit
  /\ daemon' = StopAt(1)
  /\ restart' = TRUE
  /\ UNCHANGED <<handle, stop, address, radio, session, faults>>

-----------------------------------------------------------------------------
(* tlink_session::run.                                                     *)

(* A thread that ends drops the tap and the radio with its socket.         *)
Ends ==
  /\ thread' = "ended"
  /\ tap' = NoTap /\ replies' = <<>> /\ late' = 0 /\ mac' = FALSE

(* Up to the tap: without an address there is no session, and one that has *)
(* an address owns BLIND_SECS.                                             *)
SetUp ==
  /\ thread = "spawned"
  /\ \/ /\ address # "none"
        /\ thread' = "tap"
        /\ blindFor' = -1 /\ blindSecs' = 0 /\ seen' = "nothing" /\ outlook' = "alone"
        /\ UNCHANGED <<tap, netlink>>
     \/ address = "none" /\ Ends /\ UNCHANGED health
  /\ UNCHANGED <<daemon, shim, iface, cached, slotHeld, slotFault, faults>>

(* One step of the tap.  The kernel adds an address of its own as the tap  *)
(* comes up, unless it was told not to; a refusal of that is missed if its *)
(* answer is.                                                              *)
TapAfter(step, accepted) ==
  [at |-> tap.at + 1,
   quiet |-> tap.quiet \/ (step = "ADDR_GEN_MODE" /\ accepted),
   addresses |-> tap.addresses \cup
     (CASE step = "UP" /\ ~tap.quiet -> {"kernel's"}
        [] step = "ADDR" -> {"ours"}
        [] OTHER -> {})]

TapStep(accepted, heard) ==
  LET step == TapSteps[tap.at + 1] IN
  /\ thread = "tap"
  /\ heard \/ step = "ADDR_GEN_MODE"
  /\ Fails(Count(~accepted) + Count(~heard))
  /\ IF accepted \/ ~heard
     THEN /\ tap' = TapAfter(step, accepted)
          /\ thread' = IF tap.at + 1 = Len(TapSteps) THEN "top" ELSE "tap"
          /\ UNCHANGED netlink
     ELSE Ends
  /\ UNCHANGED <<daemon, shim, iface, cached, slotHeld, slotFault, health>>

(* Mutant: the loop that never looks.                                      *)
LoopHeadDeaf ==
  /\ thread = "top"
  /\ thread' = "body"
  /\ UNCHANGED <<daemon, shim, radio, tap, health, faults>>

(* The loop's head: the stop flag is read here and nowhere else.           *)
LoopHead ==
  /\ thread = "top"
  /\ IF stop THEN Ends ELSE thread' = "body" /\ UNCHANGED <<tap, netlink>>
  /\ UNCHANGED <<daemon, shim, iface, cached, slotHeld, slotFault, health, faults>>

(* Mutant: the figure is read before the clock is started.                 *)
PublishBeforeStart ==
  /\ thread = "body"
  /\ thread' = "top"
  /\ seen' = outlook
  /\ IF outlook = "blind"
     THEN /\ blindFor' = (IF blindFor = -1 THEN 0 ELSE blindFor)
          /\ blindSecs' = blindFor
     ELSE blindFor' = -1 /\ blindSecs' = 0
  /\ UNCHANGED <<daemon, shim, radio, tap, outlook, faults>>

(* Mutant: blindness is timed from the latest pass, not the first.         *)
PublishRestarted ==
  /\ thread = "body"
  /\ thread' = "top"
  /\ seen' = outlook
  /\ blindFor' = (IF outlook = "blind" THEN 0 ELSE -1)
  /\ blindSecs' = 0
  /\ UNCHANGED <<daemon, shim, radio, tap, outlook, faults>>

(* Mutant: a session that sees again keeps the figure it published.        *)
PublishSticky ==
  /\ thread = "body"
  /\ thread' = "top"
  /\ seen' = outlook
  /\ IF outlook = "blind"
     THEN /\ blindFor' = (IF blindFor = -1 THEN 0 ELSE blindFor)
          /\ blindSecs' = blindFor'
     ELSE blindFor' = -1 /\ UNCHANGED blindSecs
  /\ UNCHANGED <<daemon, shim, radio, tap, outlook, faults>>

(* The loop's body: frames are heard, and how long the session has been    *)
(* blind is published.                                                     *)
Publish ==
  /\ thread = "body"
  /\ thread' = "top"
  /\ seen' = outlook
  /\ IF outlook = "blind"
     THEN /\ blindFor' = (IF blindFor = -1 THEN 0 ELSE blindFor)
          /\ blindSecs' = blindFor'
     ELSE blindFor' = -1 /\ blindSecs' = 0
  /\ UNCHANGED <<daemon, shim, radio, tap, outlook, faults>>

(* An error returned from the loop, or a panic that catch_unwind stops.    *)
SessionDies ==
  /\ thread = "body"
  /\ Fails(1)
  /\ Ends
  /\ UNCHANGED <<daemon, shim, iface, cached, slotHeld, slotFault, health>>

(* A second passes; the air around the session changes.                    *)
Second ==
  /\ thread \in {"top", "body"}
  /\ blindFor \in 0..(BlindMax - 1)
  /\ blindFor' = blindFor + 1
  /\ UNCHANGED <<daemon, shim, radio, thread, tap, outlook, blindSecs, seen, faults>>

(* A node that has adopted a master has one for good, so it is alone only  *)
(* until then.                                                             *)
OutlookChanges ==
  /\ thread \in {"top", "body"}
  /\ outlook' \in {"synced", "blind"} \ {outlook}
  /\ UNCHANGED <<daemon, shim, radio, thread, tap, blindFor, blindSecs, seen, faults>>

Starting == Start \/ Spawn \/ \E i \in DOMAIN BringUp : BringUpStep(i)
Stopping == RaiseFlag \/ Join \/ DownTap \/ DownWonder
Running == SetUp \/ TapStep(TRUE, TRUE) \/ LoopHead \/ Publish
Refused ==
  \/ \E i \in DOMAIN BringUp, accepted, twice, heard \in BOOLEAN :
       BringUpFault(i, accepted, twice, heard)
  \/ \E heard \in BOOLEAN : TapStep(FALSE, heard)
  \/ TapStep(TRUE, FALSE)

Next ==
  \/ Starting \/ Refused \/ Stop \/ Stopping \/ PollHealth
  \/ Running \/ SessionDies \/ Second \/ OutlookChanges

Spec == Init /\ [][Next]_vars

(* A thread inside a call is scheduled; netlink answers; a second passes;  *)
(* and tarishd polls the health of the session it holds.  Nothing makes    *)
(* the air change, a session die, or the daemon start or stop one.         *)
Fairness ==
  /\ WF_vars(Stopping)
  /\ WF_vars(Spawn \/ \E i \in DOMAIN BringUp : BringUpStep(i))
  /\ WF_vars(Running)
  /\ WF_vars(Second)
  /\ WF_vars(PollHealth)

FairSpec == Spec /\ Fairness

-----------------------------------------------------------------------------
Live == thread \in {"spawned", "tap", "top", "body"}
Missed == {replies[i].to : i \in {j \in DOMAIN replies : ~replies[j].ok}}

(* The type invariant.                                                     *)
TypeOK ==
  /\ daemon \in Steps
  /\ handle \in BOOLEAN /\ restart \in BOOLEAN /\ stop \in BOOLEAN
  /\ iface \in {"absent", "down", "up"}
  /\ cached \subseteq Commands
  /\ slotHeld \in BOOLEAN /\ slotFault \in BOOLEAN
  /\ replies \in Seq([to : Queries \cup Commands \cup {"DEL", "NEW"}, ok : BOOLEAN])
  /\ mac \in BOOLEAN /\ address \in {"none", "wonder0", "wondertap0"}
  /\ tap \in [at : 0..Len(TapSteps), quiet : BOOLEAN, addresses : SUBSET {"ours", "kernel's"}]
  /\ thread \in {"none", "spawned", "tap", "top", "body", "ended"}
  /\ outlook \in {"alone", "synced", "blind"}
  /\ seen \in {"nothing", "alone", "synced", "blind"}
  /\ blindFor \in -1..BlindMax /\ blindSecs \in 0..BlindMax
  /\ faults \in 0..MaxFaults

(* A session runs only on a radio that is up and was configured before it  *)
(* was: through refusals, retries, stops and restarts, what the driver has *)
(* not taken is exactly what it refused in an answer nobody read, and an   *)
(* answer is unread only where another was missed or came twice.           *)
(* (wonder.rs 594-595 and 184-187, shim 336-357)                           *)
RunsOnAConfiguredRadio ==
  Live => iface = "up" /\ Commands \ cached = Missed /\ Len(replies) = late

(* While its loop runs, the tap has the address peers compute for it, and  *)
(* no other the kernel could answer from, unless the refusal to be quiet   *)
(* was missed.  (tun.rs 274-288 and 428, "the order is the whole content") *)
TapCarriesOurAddress ==
  thread \in {"top", "body"} =>
    /\ "ours" \in tap.addresses
    /\ tap.quiet => tap.addresses = {"ours"}

(* When the daemon holds no handle the chip's P2P slot is free, unless the *)
(* driver refused to free it or the answer to the UP of a start was missed:*)
(* that start returned NULL, and left the radio up with no handle to stop  *)
(* it by.  (shim 163-186 and 346-357)                                      *)
SlotIsReleased == daemon = Idle /\ ~handle /\ ~slotFault => ~slotHeld

(* What mosey_health reports of a running session is that session's own:   *)
(* never a former session's, never of blindness that is over.              *)
(* (session 284-287, 356-357 and 709-719)                                  *)
HealthIsTheSessions ==
  thread = "top" =>
    IF seen = "blind" THEN blindSecs \in 0..blindFor ELSE blindSecs = 0

(* mosey_stop returns: its join never waits for ever.                      *)
(* (shim 336-345, session 463)                                             *)
StopReturns == daemon.call = "stop" ~> daemon.call # "stop"

(* No session is left blind: it sees again or is replaced.                 *)
(* (session 289-293, shim 395-397)                                         *)
BlindnessEnds == []<>~(thread \in {"top", "body"} /\ outlook = "blind")
=============================================================================
