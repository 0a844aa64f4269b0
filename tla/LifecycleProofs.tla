-------------------------- MODULE LifecycleProofs --------------------------
(***************************************************************************)
(* What a session's life keeps to, for every number of failures, every     *)
(* limit of blindness and every interleaving of the daemon and the session.*)
(*                                                                         *)
(* The radio part is by where the bring-up is.  Up to NEW every answer is  *)
(* read by its own request, so wonder0 is fresh when the configuration     *)
(* begins.  Then answers may be read late, but at most two that are not a  *)
(* vendor command's are ahead of the first vendor command's, and two are   *)
(* consumed before the configuration is half done: what is unread at the   *)
(* end answers vendor commands.                                            *)
(***************************************************************************)
EXTENDS Lifecycle, SequenceTheorems, TLAPS

Requests == Queries \cup Commands \cup {"DEL", "NEW"}
Reply == [to : Requests, ok : BOOLEAN]

(* The vendor commands sent before the i-th step of the bring-up.          *)
Sent(i) == {BringUp[j] : j \in 6..(i - 1)}

(* The vendor commands whose unread answer is a refusal.                   *)
Unheard == {c \in Commands : \E j \in DOMAIN replies : replies[j] = [to |-> c, ok |-> FALSE]}

Bringing == daemon.call \in {"start", "spawn"}

(* What is to be read when the i-th request has been answered.             *)
Pending(i, a, t) == replies \o Answers(BringUp[i], a, t)

(* Which thread may be where.                                              *)
Threads ==
  /\ Bringing => ~handle
  /\ daemon.call = "stop" => handle
  /\ ~handle => thread = "none"
  /\ daemon.call = "stop" /\ daemon.at \in 3..4 => thread = "none"

(* The netlink socket of the radio: closed, or late by what it is late.    *)
Socket ==
  /\ late \in Nat /\ Len(replies) = late
  /\ ~Bringing /\ ~Live => replies = <<>>

(* What the driver has, by the step of the bring-up.                       *)
Progress(i) ==
  /\ i <= 4 => replies = <<>>
  /\ i = 5 => Len(replies) <= 1 /\ \A j \in DOMAIN replies : replies[j].to \notin Commands
  /\ i >= 5 => iface = "down" /\ cached \subseteq Sent(i)
  /\ i >= 6 => /\ \A j \in DOMAIN replies : replies[j].to \notin Commands => j <= 8 - i
               /\ Sent(i) \ cached = Unheard

Radio ==
  /\ daemon.call = "start" => Progress(daemon.at)
  /\ daemon.call = "spawn" \/ Live => iface = "up" /\ Commands \ cached = Missed

Slot == slotHeld => slotFault \/ daemon.call = "spawn" \/ (handle /\ daemon # StopAt(4))

Tap ==
  /\ thread \notin {"tap", "top", "body"} => tap = NoTap
  /\ thread = "tap" => tap.at < 6
  /\ thread \in {"top", "body"} => tap.at = 6
  /\ tap.at < 5 => tap.addresses = {}
  /\ tap.at = 6 => "ours" \in tap.addresses
  /\ tap.quiet => tap.addresses \subseteq {"ours"}

Health ==
  thread \in {"tap", "top", "body"} =>
    IF seen = "blind" THEN blindSecs \in 0..blindFor ELSE blindSecs = 0

Inv == TypeOK /\ Threads /\ Socket /\ Radio /\ Slot /\ Tap /\ Health

-----------------------------------------------------------------------------
(* The eleven steps of the bring-up and the six of the tap.                *)
LEMMA BringUpIs ==
  /\ DOMAIN BringUp = 1..11 /\ Len(BringUp) = 11
  /\ BringUp[1] = "FAMILY" /\ BringUp[2] = "WIPHY" /\ BringUp[3] = "DEL"
  /\ BringUp[4] = "NEW" /\ BringUp[5] = "MAC" /\ BringUp[6] = "SET_REG"
  /\ BringUp[7] = "SET_FREQUENCY" /\ BringUp[8] = "SET_FILTER"
  /\ BringUp[9] = "SET_FIXED_TX_RATE" /\ BringUp[10] = "0x08" /\ BringUp[11] = "UP"
  BY DEF BringUp, Configure

LEMMA CommandsAre ==
  Commands = {"SET_REG", "SET_FREQUENCY", "SET_FILTER", "SET_FIXED_TX_RATE", "0x08"}
<1>1. DOMAIN Configure = 1..5
  BY DEF Configure
<1>2. /\ Configure[1] = "SET_REG" /\ Configure[2] = "SET_FREQUENCY"
      /\ Configure[3] = "SET_FILTER" /\ Configure[4] = "SET_FIXED_TX_RATE"
      /\ Configure[5] = "0x08"
  BY DEF Configure
<1>3. QED
  BY <1>1, <1>2 DEF Commands

LEMMA TapStepsAre ==
  /\ Len(TapSteps) = 6 /\ DOMAIN TapSteps = 1..6
  /\ TapSteps[1] = "TUNSETIFF" /\ TapSteps[2] = "ADDR_GEN_MODE" /\ TapSteps[3] = "HWADDR"
  /\ TapSteps[4] = "MTU" /\ TapSteps[5] = "UP" /\ TapSteps[6] = "ADDR"
  BY DEF TapSteps

LEMMA TearDownIs == DOMAIN TearDown = 1..4
  BY DEF TearDown

(* What is sent by when.                                                   *)
LEMMA SentIs ==
  /\ Sent(6) = {} /\ Sent(11) = Commands
  /\ \A i \in 6..10 :
       /\ BringUp[i] \in Commands /\ BringUp[i] \notin Sent(i)
       /\ Sent(i + 1) = Sent(i) \cup {BringUp[i]}
<1>1. Sent(6) = {}
  BY DEF Sent
<1>2. ASSUME NEW i \in 6..10 PROVE Sent(i + 1) = Sent(i) \cup {BringUp[i]}
  BY <1>2 DEF Sent
<1>3. ASSUME NEW i \in 6..10 PROVE BringUp[i] \in Commands /\ BringUp[i] \notin Sent(i)
  <2>1. i \in {6, 7, 8, 9, 10}
    BY <1>3
  <2>2. BringUp[i] \in Commands
    BY <2>1, BringUpIs, CommandsAre
  <2>3. \A j \in 6..(i - 1) : BringUp[j] # BringUp[i]
    BY <2>1, BringUpIs
  <2>4. QED
    BY <2>2, <2>3 DEF Sent
<1>4. Sent(11) = Commands
  <2>1. 6..10 = {6, 7, 8, 9, 10}
    OBVIOUS
  <2>2. QED
    BY <2>1, BringUpIs, CommandsAre DEF Sent
<1>5. QED
  BY <1>1, <1>2, <1>3, <1>4

(* The answers to a request.                                               *)
LEMMA AnswersAre ==
  ASSUME NEW c \in Requests, NEW a \in BOOLEAN, NEW t \in BOOLEAN
  PROVE  /\ Answers(c, a, t) \in Seq(Reply)
         /\ Len(Answers(c, a, t)) = 1 + Count(t) /\ Count(t) \in 0..1
         /\ \A j \in 1..(1 + Count(t)) : Answers(c, a, t)[j] = [to |-> c, ok |-> a]
<1>1. Count(t) \in 0..1
  BY DEF Count
<1>2. [to |-> c, ok |-> a] \in Reply
  BY DEF Reply
<1>3. QED
  BY <1>1, <1>2 DEF Answers

(* Answers are read in the order they came.                                *)
LEMMA OldestFirst ==
  ASSUME NEW s \in Seq(Reply), NEW a \in Seq(Reply), Len(a) >= 1
  PROVE  /\ s \o a \in Seq(Reply) /\ Len(s \o a) = Len(s) + Len(a)
         /\ \A j \in 1..(Len(s) + Len(a)) :
              (s \o a)[j] = IF j <= Len(s) THEN s[j] ELSE a[j - Len(s)]
         /\ Head(s \o a) = (s \o a)[1] /\ Tail(s \o a) \in Seq(Reply)
         /\ Len(Tail(s \o a)) = Len(s) + Len(a) - 1
         /\ \A j \in 1..(Len(s) + Len(a) - 1) : Tail(s \o a)[j] = (s \o a)[j + 1]
<1>1. s \o a \in Seq(Reply) /\ Len(s \o a) = Len(s) + Len(a)
  BY ConcatProperties
<1>2. \A j \in 1..(Len(s) + Len(a)) :
        (s \o a)[j] = IF j <= Len(s) THEN s[j] ELSE a[j - Len(s)]
  BY ConcatProperties
<1>3. s \o a # << >>
  BY <1>1, EmptySeq
<1>4. QED
  BY <1>1, <1>2, <1>3, HeadTailProperties

(* Where the daemon's thread can be.                                       *)
LEMMA StepsAre ==
  /\ Idle \in Steps /\ [call |-> "spawn"] \in Steps
  /\ \A i \in 1..11 : StartAt(i) \in Steps
  /\ \A i \in 1..4 : StopAt(i) \in Steps
  /\ \A d \in Steps :
       /\ d.call \in {"idle", "spawn", "start", "stop"}
       /\ d.call = "start" => d.at \in 1..11 /\ d = StartAt(d.at)
       /\ d.call = "stop" => d.at \in 1..4 /\ d = StopAt(d.at)
       /\ d.call = "idle" => d = Idle
       /\ d.call = "spawn" => d = [call |-> "spawn"]
<1>1. Idle \in Steps /\ [call |-> "spawn"] \in Steps
  BY DEF Steps, Idle
<1>2. \A i \in 1..11 : StartAt(i) \in Steps
  BY BringUpIs DEF Steps, StartAt
<1>3. \A i \in 1..4 : StopAt(i) \in Steps
  BY TearDownIs DEF Steps, StopAt
<1>4. ASSUME NEW d \in [call : {"idle", "spawn"}]
      PROVE  d.call \in {"idle", "spawn"} /\ d = [call |-> d.call]
  BY <1>4
<1>5. ASSUME NEW d \in [call : {"start"}, at : DOMAIN BringUp]
      PROVE  d.call = "start" /\ d.at \in 1..11 /\ d = StartAt(d.at)
  BY <1>5, BringUpIs DEF StartAt
<1>6. ASSUME NEW d \in [call : {"stop"}, at : DOMAIN TearDown]
      PROVE  d.call = "stop" /\ d.at \in 1..4 /\ d = StopAt(d.at)
  BY <1>6, TearDownIs DEF StopAt
<1>7. QED
  BY <1>1, <1>2, <1>3, <1>4, <1>5, <1>6 DEF Steps, Idle

LEMMA CallsAre ==
  /\ Idle.call = "idle"
  /\ \A i : StartAt(i).call = "start" /\ StartAt(i).at = i
  /\ \A i : StopAt(i).call = "stop" /\ StopAt(i).at = i
  BY DEF Idle, StartAt, StopAt

-----------------------------------------------------------------------------
LEMMA Initially == Init => Inv
<1>1. SUFFICES ASSUME Init PROVE Inv
  OBVIOUS
<1>2. NoTap \in [at : 0..Len(TapSteps), quiet : BOOLEAN, addresses : SUBSET {"ours", "kernel's"}]
  BY TapStepsAre DEF NoTap
<1>3. daemon \in Steps
  BY <1>1, StepsAre DEF Init
<1>4. blindFor \in -1..BlindMax /\ blindSecs \in 0..BlindMax /\ faults \in 0..MaxFaults
  BY <1>1, LifecycleAssumption DEF Init
<1>5. replies \in Seq([to : Queries \cup Commands \cup {"DEL", "NEW"}, ok : BOOLEAN])
  BY <1>1 DEF Init
<1>6. TypeOK
  BY <1>1, <1>2, <1>3, <1>4, <1>5 DEF Init, TypeOK
<1>7. QED
  BY <1>1, <1>6, CallsAre DEF Init, Inv, Threads, Socket, Radio, Slot, Tap, Health, Live, NoTap,
    StopAt, Bringing

-----------------------------------------------------------------------------
(* A request that is not the last: what it finds to read and leaves unread.*)
Reads(i, a, t, h) ==
  /\ t => a /\ BringUp[i] \in Commands \cup {"NEW"}
  /\ Pending(i, a, t) \in Seq(Reply) /\ Tail(Pending(i, a, t)) \in Seq(Reply)
  /\ Len(Pending(i, a, t)) = late + 1 + Count(t) /\ Count(t) \in 0..1
  /\ Len(Tail(Pending(i, a, t))) = late + Count(t)
  /\ \A j \in 1..(late + 1 + Count(t)) :
       Pending(i, a, t)[j] = IF j <= late THEN replies[j] ELSE [to |-> BringUp[i], ok |-> a]
  /\ \A j \in 1..(late + Count(t)) :
       Tail(Pending(i, a, t))[j] = Pending(i, a, t)[j + 1]

(* It fails, and closes the socket, or is got over.                        *)
Failed(i) == daemon' = Idle /\ replies' = <<>> /\ late' = 0 /\ i # 5
GotOver(i, a, t, h) ==
  /\ daemon' = StartAt(i + 1)
  /\ replies' = IF h THEN Tail(Pending(i, a, t)) ELSE Pending(i, a, t)
  /\ late' = late + Count(t) + Count(~h)
  /\ i # 5 => h /\ Pending(i, a, t)[1].ok

LEMMA RequestReads ==
  ASSUME Inv, NEW i \in 1..10, daemon = StartAt(i),
         NEW a \in BOOLEAN, NEW t \in BOOLEAN, NEW h \in BOOLEAN,
         Request(i, a, t, h)
  PROVE  Reads(i, a, t, h) /\ (Failed(i) \/ GotOver(i, a, t, h))
<1> DEFINE c == BringUp[i]
           p == Pending(i, a, t)
<1>1. c \in Requests /\ c # "UP" /\ (c = "MAC" <=> i = 5)
  <2>1. i \in {1, 2, 3, 4, 5, 6, 7, 8, 9, 10}
    OBVIOUS
  <2>2. QED
    BY <2>1, BringUpIs, CommandsAre DEF Requests, Queries
<1>2. replies \in Seq(Reply) /\ Len(replies) = late /\ late \in Nat
  BY DEF Inv, TypeOK, Socket, Reply, Requests
<1>3. /\ Answers(c, a, t) \in Seq(Reply) /\ Len(Answers(c, a, t)) = 1 + Count(t)
      /\ Count(t) \in 0..1
      /\ \A j \in 1..(1 + Count(t)) : Answers(c, a, t)[j] = [to |-> c, ok |-> a]
  BY <1>1, AnswersAre
<1>4. /\ p \in Seq(Reply) /\ Tail(p) \in Seq(Reply)
      /\ Len(p) = late + 1 + Count(t)
      /\ Len(Tail(p)) = late + Count(t)
      /\ Head(p) = p[1]
      /\ \A j \in 1..(late + 1 + Count(t)) :
           p[j] = IF j <= late THEN replies[j] ELSE Answers(c, a, t)[j - late]
      /\ \A j \in 1..(late + Count(t)) : Tail(p)[j] = p[j + 1]
  BY <1>2, <1>3, OldestFirst DEF Pending
<1>5. ASSUME NEW j \in 1..(late + 1 + Count(t))
      PROVE  p[j] = IF j <= late THEN replies[j] ELSE [to |-> c, ok |-> a]
  <2>1. j > late => j - late \in 1..(1 + Count(t))
    BY <1>2, <1>3
  <2>2. j > late => Answers(c, a, t)[j - late] = [to |-> c, ok |-> a]
    BY <1>3, <2>1
  <2>3. p[j] = IF j <= late THEN replies[j] ELSE Answers(c, a, t)[j - late]
    BY <1>4
  <2>4. j <= late \/ j > late
    BY <1>2, <1>3
  <2>5. CASE j <= late
    BY <2>3, <2>5
  <2>6. CASE j > late
    <3>1. ~(j <= late)
      BY <1>2, <1>3, <2>6
    <3>2. QED
      BY <2>2, <2>3, <2>6, <3>1
  <2>7. QED
    BY <2>4, <2>5, <2>6
<1>6. t => a /\ c \in Commands \cup {"NEW"}
  BY DEF Request
<1>7. Reads(i, a, t, h)
  BY <1>3, <1>4, <1>5, <1>6 DEF Reads
<1>8. CASE (h /\ Satisfies(c, Head(p))) \/ c = "MAC"
  <2>1. /\ daemon' = StartAt(i + 1)
        /\ replies' = IF h THEN Tail(p) ELSE p
        /\ late' = late + Count(t) + Count(~h)
    BY <1>1, <1>8, BringUpIs DEF Request, Pending
  <2>2. i # 5 => h /\ p[1].ok
    BY <1>1, <1>4, <1>8 DEF Satisfies
  <2>3. QED
    BY <1>7, <2>1, <2>2 DEF GotOver
<1>9. CASE ~((h /\ Satisfies(c, Head(p))) \/ c = "MAC")
  <2>1. daemon' = Idle /\ replies' = <<>> /\ late' = 0 /\ i # 5
    BY <1>1, <1>9 DEF Request, Pending
  <2>2. QED
    BY <1>7, <2>1 DEF Failed
<1>10. QED
  BY <1>8, <1>9

(* What the driver makes of it.                                            *)
LEMMA RequestDoes ==
  ASSUME Inv, NEW i \in 1..10, daemon = StartAt(i),
         NEW a \in BOOLEAN, NEW t \in BOOLEAN, NEW h \in BOOLEAN,
         Request(i, a, t, h)
  PROVE  /\ slotHeld' = slotHeld /\ slotFault' = slotFault
         /\ iface' \in {"absent", "down", "up"} /\ cached' \subseteq Commands
         /\ i \in {1, 2, 5} => iface' = iface /\ cached' = cached
         /\ i = 4 /\ a => iface' = "down" /\ cached' = {}
         /\ i \in 6..10 =>
              iface' = iface /\ cached' = IF a THEN cached \cup {BringUp[i]} ELSE cached
<1>1. iface \in {"absent", "down", "up"} /\ cached \subseteq Commands /\ slotFault \in BOOLEAN
  BY DEF Inv, TypeOK
<1>2. i \in {1, 2, 3, 4, 5} \/ i \in 6..10
  OBVIOUS
<1>3. IF a THEN Command(BringUp[i]) ELSE UNCHANGED <<iface, cached, slotHeld>>
  BY DEF Request
<1>4. BringUp[i] # "UP"
  <2>1. i \in {1, 2, 3, 4, 5, 6, 7, 8, 9, 10}
    OBVIOUS
  <2>2. QED
    BY <2>1, BringUpIs
<1>5. slotFault' = slotFault
  BY <1>1, <1>4 DEF Request
<1>6. CASE i \in {1, 2, 5}
  <2>1. BringUp[i] \in Queries /\ BringUp[i] \notin Commands \cup {"DEL", "NEW", "UP"}
    BY <1>6, BringUpIs, CommandsAre DEF Queries
  <2>2. UNCHANGED <<iface, cached, slotHeld>>
    BY <1>3, <2>1 DEF Command
  <2>3. QED
    BY <1>1, <1>5, <1>6, <2>2
<1>8. CASE i = 3
  <2>1. BringUp[i] = "DEL"
    BY <1>8, BringUpIs
  <2>2. UNCHANGED slotHeld /\ ((iface' = "absent" /\ cached' = {}) \/ UNCHANGED <<iface, cached>>)
    BY <1>3, <2>1, CommandsAre DEF Command, Queries
  <2>3. QED
    BY <1>1, <1>5, <1>8, <2>2
<1>9. CASE i = 4
  <2>1. BringUp[i] = "NEW"
    BY <1>9, BringUpIs
  <2>2. /\ a => iface' = "down" /\ cached' = {} /\ slotHeld' = slotHeld
        /\ ~a => iface' = iface /\ cached' = cached /\ slotHeld' = slotHeld
    BY <1>3, <2>1, CommandsAre DEF Command, Queries
  <2>3. QED
    BY <1>1, <1>5, <1>9, <2>2
<1>7. CASE i \in 6..10
  <2>1. BringUp[i] \in Commands
    BY <1>7, SentIs
  <2>2. BringUp[i] \notin Queries \cup {"DEL", "NEW", "UP"}
    BY <2>1, CommandsAre DEF Queries
  <2>3. slotHeld' = slotHeld /\ iface' = iface
        /\ cached' = IF a THEN cached \cup {BringUp[i]} ELSE cached
    <3>1. CASE a
      BY <1>3, <2>1, <2>2, <3>1 DEF Command
    <3>2. CASE ~a
      BY <1>3, <3>2
    <3>3. QED
      BY <3>1, <3>2
  <2>4. QED
    BY <1>1, <1>5, <1>7, <2>1, <2>3
<1>10. QED
  BY <1>2, <1>6, <1>7, <1>8, <1>9

(* Up to NEW each answer is read by its own request.                       *)
LEMMA FreshInterface ==
  ASSUME Inv, NEW i \in 1..5, daemon = StartAt(i),
         NEW a \in BOOLEAN, NEW t \in BOOLEAN, NEW h \in BOOLEAN,
         Request(i, a, t, h), GotOver(i, a, t, h)
  PROVE  Progress(i + 1)'
<1> DEFINE p == Pending(i, a, t)
<1>1. Progress(i) /\ late \in Nat /\ Len(replies) = late
  BY CallsAre DEF Inv, Radio, Socket
<1>2. i <= 4 => late = 0
  BY <1>1, EmptySeq DEF Progress
<1>3. i \in 1..10
  OBVIOUS
<1>4. /\ t => BringUp[i] \in Commands \cup {"NEW"}
      /\ p \in Seq(Reply) /\ Tail(p) \in Seq(Reply)
      /\ Len(p) = late + 1 + Count(t) /\ Count(t) \in 0..1
      /\ Len(Tail(p)) = late + Count(t)
      /\ \A j \in 1..(late + 1 + Count(t)) :
           p[j] = IF j <= late THEN replies[j] ELSE [to |-> BringUp[i], ok |-> a]
      /\ \A j \in 1..(late + Count(t)) : Tail(p)[j] = p[j + 1]
      /\ replies' = IF h THEN Tail(p) ELSE p
      /\ i # 5 => h /\ p[1].ok
  <2>1. Reads(i, a, t, h)
    BY <1>3, RequestReads
  <2>2. QED
    BY <2>1 DEF Reads, GotOver
<1>5. CASE i \in {1, 2, 3}
  <2>1. BringUp[i] \notin Commands \cup {"NEW"}
    BY <1>5, BringUpIs, CommandsAre
  <2>2. Count(t) = 0
    BY <1>4, <2>1 DEF Count
  <2>3. replies' = <<>>
    BY <1>2, <1>4, <1>5, <2>2, EmptySeq
  <2>4. QED
    BY <1>5, <2>3 DEF Progress
<1>6. CASE i = 4
  <2> HIDE DEF p
  <2>a. late = 0 /\ Count(t) \in 0..1
    BY <1>2, <1>4, <1>6
  <2>b. \A j \in 1..(1 + Count(t)) : p[j] = [to |-> "NEW", ok |-> a]
    <3>1. ASSUME NEW j \in 1..(1 + Count(t)) PROVE p[j] = [to |-> "NEW", ok |-> a]
      <4>1. BringUp[i] = "NEW" /\ ~(j <= late) /\ j \in 1..(late + 1 + Count(t))
        BY <1>6, <2>a, BringUpIs
      <4>2. QED
        BY <1>4, <4>1
    <3>2. QED
      BY <3>1
  <2>1. h /\ a
    <3>1. 1 \in 1..(1 + Count(t))
      BY <2>a
    <3>2. h /\ p[1].ok
      BY <1>4, <1>6
    <3>3. p[1].ok = a
      BY <2>b, <3>1
    <3>4. QED
      BY <3>2, <3>3
  <2>2. iface' = "down" /\ cached' = {}
    BY <1>3, <1>6, <2>1, RequestDoes
  <2>3. replies' = Tail(p) /\ Len(replies') <= 1 /\ replies' \in Seq(Reply)
    BY <1>4, <2>1, <2>a
  <2>4. \A j \in 1..Len(replies') : replies'[j].to = "NEW"
    <3>1. ASSUME NEW j \in 1..Len(replies') PROVE replies'[j].to = "NEW"
      <4>1. j \in 1..(late + Count(t)) /\ j + 1 \in 1..(1 + Count(t))
        BY <1>4, <2>3, <2>a
      <4>2. replies'[j] = p[j + 1] /\ p[j + 1] = [to |-> "NEW", ok |-> a]
        BY <1>4, <2>3, <2>b, <4>1
      <4>3. QED
        BY <4>2
    <3>2. QED
      BY <3>1
  <2>5. DOMAIN replies' = 1..Len(replies')
    BY <2>3
  <2>6. QED
    BY <1>6, <2>2, <2>3, <2>4, <2>5, CommandsAre DEF Progress
<1>7. CASE i = 5
  <2>1. iface' = "down" /\ cached' = {}
    <3>1. Sent(5) = {}
      BY DEF Sent
    <3>2. QED
      BY <1>1, <1>7, <3>1, RequestDoes DEF Progress
  <2>2. BringUp[i] = "MAC" /\ "MAC" \notin Commands
    BY <1>7, BringUpIs, CommandsAre
  <2>3. Count(t) = 0
    BY <1>4, <2>2 DEF Count
  <2>4. replies \in Seq(Reply) /\ DOMAIN replies = 1..late
    BY <1>1 DEF Inv, TypeOK, Reply, Requests
  <2>5. late <= 1 /\ \A j \in 1..late : replies[j].to \notin Commands
    BY <1>1, <1>7, <2>4 DEF Progress
  <2>6. \A j \in 1..Len(p) : p[j].to \notin Commands
    BY <1>4, <2>2, <2>5
  <2>7. /\ replies' \in Seq(Reply) /\ Len(replies') <= 2
        /\ \A j \in 1..Len(replies') : replies'[j].to \notin Commands
    <3>1. CASE h
      BY <1>1, <1>4, <2>3, <2>5, <2>6, <3>1
    <3>2. CASE ~h
      BY <1>1, <1>4, <2>3, <2>5, <2>6, <3>2
    <3>3. QED
      BY <3>1, <3>2
  <2>8. DOMAIN replies' = 1..Len(replies')
    BY <2>7
  <2>9. Unheard' = {}
    BY <2>7, <2>8 DEF Unheard
  <2>10. Progress(6)'
    BY <2>1, <2>7, <2>8, <2>9, SentIs DEF Progress
  <2>11. QED
    BY <1>7, <2>10
<1>8. QED
  BY <1>5, <1>6, <1>7

(* A vendor command: what it is answered is read by the next ones.         *)
LEMMA Configuring ==
  ASSUME Inv, NEW i \in 6..10, daemon = StartAt(i),
         NEW a \in BOOLEAN, NEW t \in BOOLEAN, NEW h \in BOOLEAN,
         Request(i, a, t, h), GotOver(i, a, t, h)
  PROVE  Progress(i + 1)'
<1> DEFINE p == Pending(i, a, t)
           c == BringUp[i]
<1>1. Progress(i) /\ late \in Nat /\ Len(replies) = late
  BY CallsAre DEF Inv, Radio, Socket
<1>2. replies \in Seq(Reply) /\ DOMAIN replies = 1..late
  BY <1>1 DEF Inv, TypeOK, Reply, Requests
<1>3. /\ \A j \in 1..late : replies[j].to \notin Commands => j <= 8 - i
      /\ Sent(i) \ cached = Unheard /\ iface = "down" /\ cached \subseteq Sent(i)
  BY <1>1, <1>2 DEF Progress
<1>4. c \in Commands /\ c \notin Sent(i) /\ Sent(i + 1) = Sent(i) \cup {c}
  BY SentIs
<1>5. iface' = "down" /\ cached' = IF a THEN cached \cup {c} ELSE cached
  <2>1. i \in 1..10
    OBVIOUS
  <2>2. QED
    BY <1>3, <2>1, RequestDoes
<1>6. Reads(i, a, t, h)
  <2>1. i \in 1..10
    OBVIOUS
  <2>2. QED
    BY <2>1, RequestReads
<1>7. /\ t => a
      /\ p \in Seq(Reply) /\ Tail(p) \in Seq(Reply)
      /\ Len(Tail(p)) = late + Count(t) /\ Count(t) \in 0..1
      /\ \A j \in 1..(late + 1 + Count(t)) :
           p[j] = IF j <= late THEN replies[j] ELSE [to |-> c, ok |-> a]
      /\ \A j \in 1..(late + Count(t)) : Tail(p)[j] = p[j + 1]
  BY <1>6 DEF Reads
<1>8. replies' = Tail(p) /\ p[1].ok
  BY DEF GotOver
<1> HIDE DEF p, c
<1>9. ASSUME NEW j \in 1..(late + 1 + Count(t))
      PROVE  \/ j <= late /\ p[j] = replies[j]
             \/ j > late /\ p[j] = [to |-> c, ok |-> a]
  <2>1. CASE j <= late
    <3>1. p[j] = IF j <= late THEN replies[j] ELSE [to |-> c, ok |-> a]
      BY <1>7
    <3>2. QED
      BY <2>1, <3>1
  <2>2. CASE ~(j <= late)
    BY <1>1, <1>7, <2>2
  <2>3. QED
    BY <2>1, <2>2
<1>10. DOMAIN replies' = 1..(late + Count(t)) /\ replies' \in Seq(Reply)
  BY <1>7, <1>8
<1>11. \A j \in 1..(late + Count(t)) : replies'[j] = p[j + 1] /\ j + 1 \in 1..(late + 1 + Count(t))
  BY <1>1, <1>7, <1>8
<1>12. ASSUME NEW j \in DOMAIN replies', replies'[j].to \notin Commands PROVE j <= 8 - (i + 1)
  <2>1. j \in 1..(late + Count(t))
    BY <1>10
  <2>2. replies'[j] = p[j + 1] /\ j + 1 \in 1..(late + 1 + Count(t))
    BY <1>11, <2>1
  <2>3. p[j + 1] # [to |-> c, ok |-> a]
    BY <1>4, <1>12, <2>2
  <2>4. p[j + 1] = replies[j + 1] /\ j + 1 <= late
    BY <1>9, <2>2, <2>3
  <2>5. j + 1 <= 8 - i
    BY <1>1, <1>3, <1>12, <2>1, <2>2, <2>4
  <2>6. QED
    BY <2>1, <2>5, <1>7, <1>1
<1>13. Unheard' = Unheard \cup (IF a THEN {} ELSE {c})
  <2>1. ASSUME NEW x \in Unheard' PROVE x \in Unheard \cup (IF a THEN {} ELSE {c})
    <3>1. PICK j \in 1..(late + Count(t)) : replies'[j] = [to |-> x, ok |-> FALSE]
      BY <1>10 DEF Unheard
    <3>2. x \in Commands
      BY DEF Unheard
    <3>3. p[j + 1] = [to |-> x, ok |-> FALSE] /\ j + 1 \in 1..(late + 1 + Count(t))
      BY <1>11, <3>1
    <3>4. CASE p[j + 1] = replies[j + 1] /\ j + 1 <= late
      <4>1. j + 1 \in DOMAIN replies
        BY <1>1, <1>2, <3>3, <3>4
      <4>2. QED
        BY <3>2, <3>3, <3>4, <4>1 DEF Unheard
    <3>5. CASE p[j + 1] = [to |-> c, ok |-> a]
      <4>1. [to |-> c, ok |-> a].to = [to |-> x, ok |-> FALSE].to
            /\ [to |-> c, ok |-> a].ok = [to |-> x, ok |-> FALSE].ok
        BY <3>3, <3>5
      <4>2. x = c /\ a = FALSE
        BY <4>1
      <4>3. QED
        BY <4>2
    <3>6. QED
      BY <1>9, <3>3, <3>4, <3>5
  <2>2. ASSUME NEW x \in Unheard PROVE x \in Unheard'
    <3>1. PICK j \in 1..late : replies[j] = [to |-> x, ok |-> FALSE]
      BY <1>2 DEF Unheard
    <3>2. j \in 1..(late + 1 + Count(t)) /\ j <= late
      BY <1>1, <1>7
    <3>3. p[j] = [to |-> x, ok |-> FALSE]
      BY <1>7, <3>1, <3>2
    <3>4. j # 1
      BY <1>8, <3>3
    <3>5. j - 1 \in 1..(late + Count(t)) /\ (j - 1) + 1 = j
      BY <1>1, <1>7, <3>4
    <3>6. replies'[j - 1] = p[j]
      BY <1>11, <3>5
    <3>7. QED
      BY <1>10, <3>3, <3>5, <3>6 DEF Unheard
  <2>3. ASSUME ~a PROVE c \in Unheard'
    <3>1. ~t /\ Count(t) = 0
      BY <1>7, <2>3 DEF Count
    <3>2. late + 1 \in 1..(late + 1 + Count(t)) /\ ~(late + 1 <= late)
      BY <1>1, <3>1
    <3>3. p[late + 1] = [to |-> c, ok |-> a]
      BY <1>7, <3>2
    <3>4. late # 0
      <4>1. SUFFICES ASSUME late = 0 PROVE FALSE
        OBVIOUS
      <4>2. p[1] = [to |-> c, ok |-> a]
        BY <3>3, <4>1
      <4>3. QED
        BY <1>8, <2>3, <4>2
    <3>5. late \in 1..(late + Count(t))
      BY <1>1, <3>1, <3>4
    <3>6. replies'[late] = [to |-> c, ok |-> FALSE]
      <4>1. a = FALSE
        BY <2>3
      <4>2. QED
        BY <1>11, <3>3, <3>5, <4>1
    <3>7. QED
      BY <1>4, <1>10, <3>5, <3>6 DEF Unheard
  <2>4. QED
    BY <2>1, <2>2, <2>3
<1>14. Sent(i + 1) \ cached' = Unheard' /\ cached' \subseteq Sent(i + 1)
  BY <1>3, <1>4, <1>5, <1>13
<1>15. Sent(i + 1)' = Sent(i + 1)
  BY DEF Sent
<1>16. i + 1 \in 7..11
  OBVIOUS
<1>17. QED
  BY <1>5, <1>12, <1>14, <1>15, <1>16 DEF Progress

(* A request that is not the last.                                         *)
LEMMA RequestKeeps ==
  ASSUME Inv, NEW i \in 1..10, daemon = StartAt(i),
         NEW a \in BOOLEAN, NEW t \in BOOLEAN, NEW h \in BOOLEAN,
         Request(i, a, t, h), UNCHANGED <<shim, session>>
  PROVE  Inv'
<1>1. Reads(i, a, t, h) /\ (Failed(i) \/ GotOver(i, a, t, h))
  BY RequestReads
<1>2. /\ slotHeld' = slotHeld /\ slotFault' = slotFault
      /\ iface' \in {"absent", "down", "up"} /\ cached' \subseteq Commands
  BY RequestDoes
<1>3. TypeOK /\ Threads /\ Socket /\ Slot /\ Tap /\ Health
  BY DEF Inv
<1>4. Bringing /\ ~handle /\ thread = "none"
  BY <1>3, CallsAre DEF Threads, Bringing
<1>5. /\ replies' \in Seq(Reply) /\ late' \in Nat /\ Len(replies') = late'
      /\ ~(Bringing')  => replies' = <<>>
  <2>1. late \in Nat
    BY <1>3 DEF Socket
  <2>2. CASE Failed(i)
    BY <2>2 DEF Failed
  <2>3. CASE GotOver(i, a, t, h)
    <3>1. daemon' = StartAt(i + 1) /\ Bringing'
      BY <2>3, CallsAre DEF GotOver, Bringing
    <3>2. Count(~h) = IF h THEN 0 ELSE 1
      BY DEF Count
    <3>3. late' = late + Count(t) + Count(~h)
          /\ replies' = IF h THEN Tail(Pending(i, a, t)) ELSE Pending(i, a, t)
      BY <2>3 DEF GotOver
    <3>4. CASE h
      BY <1>1, <2>1, <3>1, <3>2, <3>3, <3>4 DEF Reads
    <3>5. CASE ~h
      BY <1>1, <2>1, <3>1, <3>2, <3>3, <3>5 DEF Reads
    <3>6. QED
      BY <3>4, <3>5
  <2>4. QED
    BY <1>1, <2>2, <2>3
<1>6. daemon' = Idle \/ daemon' = StartAt(i + 1)
  BY <1>1 DEF Failed, GotOver
<1>7. UNCHANGED <<handle, restart, stop, address, thread, tap, outlook, blindFor, blindSecs, seen>>
  BY DEF shim, session, health
<1>8. TypeOK'
  <2>1. daemon' \in Steps
    BY <1>6, StepsAre
  <2>2. mac' \in BOOLEAN
    BY <1>3 DEF TypeOK, Request, Satisfies
  <2>3. slotFault' \in BOOLEAN /\ slotHeld' \in BOOLEAN
    BY <1>2, <1>3 DEF TypeOK
  <2>4. faults' \in 0..MaxFaults
    BY <1>3, LifecycleAssumption DEF TypeOK, Request, Fails, Count
  <2>5. QED
    BY <1>2, <1>3, <1>5, <1>7, <2>1, <2>2, <2>3, <2>4 DEF TypeOK, Reply, Requests
<1>9. Threads'
  BY <1>3, <1>4, <1>6, <1>7, CallsAre DEF Threads, Bringing
<1>10. Socket'
  BY <1>5 DEF Socket
<1>11. Radio'
  <2>1. ~(Live')
    BY <1>4, <1>7 DEF Live
  <2>2. CASE Failed(i)
    BY <2>1, <2>2, CallsAre DEF Failed, Radio
  <2>3. CASE GotOver(i, a, t, h)
    <3>1. Progress(i + 1)'
      <4>1. i \in 1..5 \/ i \in 6..10
        OBVIOUS
      <4>2. QED
        BY <2>3, <4>1, FreshInterface, Configuring
    <3>2. daemon'.at = i + 1 /\ daemon'.call = "start"
      BY <2>3, CallsAre DEF GotOver
    <3>3. QED
      BY <2>1, <3>1, <3>2 DEF Radio
  <2>4. QED
    BY <1>1, <2>2, <2>3
<1>12. Slot'
  BY <1>2, <1>3, <1>4, CallsAre DEF Slot
<1>13. Tap' /\ Health'
  BY <1>3, <1>7 DEF Tap, Health
<1>14. QED
  BY <1>8, <1>9, <1>10, <1>11, <1>12, <1>13 DEF Inv

(* The last request, on a socket of its own.                               *)
LEMMA UpKeeps ==
  ASSUME Inv, daemon = StartAt(11),
         NEW a \in BOOLEAN, NEW t \in BOOLEAN, NEW h \in BOOLEAN,
         Request(11, a, t, h), UNCHANGED <<shim, session>>
  PROVE  Inv'
<1> DEFINE p == <<>> \o Answers("UP", a, t)
<1>1. TypeOK /\ Threads /\ Socket /\ Slot /\ Tap /\ Health
  BY DEF Inv
<1>2. Progress(11)
  BY CallsAre DEF Inv, Radio
<1>3. ~handle /\ thread = "none"
  BY <1>1, CallsAre DEF Threads, Bringing
<1>4. BringUp[11] = "UP" /\ "UP" \notin Commands /\ "UP" \notin Queries
  BY BringUpIs, CommandsAre DEF Queries
<1>5. ~t
  BY <1>4 DEF Request
<1>6. Head(p) = [to |-> "UP", ok |-> a]
  <2>1. Answers("UP", a, t) = <<[to |-> "UP", ok |-> a]>>
    BY <1>5 DEF Answers, Count
  <2>2. QED
    BY <2>1
<1>7. Satisfies("UP", Head(p)) <=> a
  BY <1>4, <1>6 DEF Satisfies
<1>8. /\ IF h /\ a
         THEN daemon' = [call |-> "spawn"] /\ UNCHANGED <<replies, late>>
         ELSE daemon' = Idle /\ replies' = <<>> /\ late' = 0
      /\ IF a THEN iface' = "up" /\ slotHeld' = TRUE /\ cached' = cached
              ELSE UNCHANGED <<iface, cached, slotHeld>>
      /\ slotFault' = (slotFault \/ (a /\ ~h))
  <2>1. IF a THEN iface' = "up" /\ slotHeld' = TRUE /\ cached' = cached
             ELSE UNCHANGED <<iface, cached, slotHeld>>
    BY <1>4 DEF Request, Command
  <2>2. slotFault' = (slotFault \/ (a /\ ~h))
    BY <1>4 DEF Request
  <2>3. IF h /\ a
        THEN daemon' = [call |-> "spawn"] /\ UNCHANGED <<replies, late>>
        ELSE daemon' = Idle /\ replies' = <<>> /\ late' = 0
    BY <1>4, <1>7, BringUpIs DEF Request
  <2>4. QED
    BY <2>1, <2>2, <2>3
<1>9. UNCHANGED <<handle, restart, stop, address, thread, tap, outlook, blindFor, blindSecs, seen>>
  BY DEF shim, session, health
<1>10. TypeOK'
  <2>1. daemon' \in Steps
    BY <1>8, StepsAre
  <2>2. mac' = mac
    BY <1>4 DEF Request
  <2>3. faults' \in 0..MaxFaults
    BY <1>1, LifecycleAssumption DEF TypeOK, Request, Fails, Count
  <2>4. replies' \in Seq(Reply)
    <3>1. replies \in Seq(Reply)
      BY <1>1 DEF TypeOK, Reply, Requests
    <3>2. <<>> \in Seq(Reply)
      OBVIOUS
    <3>3. QED
      BY <1>8, <3>1, <3>2
  <2>5. /\ iface' \in {"absent", "down", "up"} /\ cached' \subseteq Commands
        /\ slotHeld' \in BOOLEAN /\ slotFault' \in BOOLEAN
    BY <1>1, <1>8 DEF TypeOK
  <2>6. QED
    BY <1>1, <1>9, <2>1, <2>2, <2>3, <2>4, <2>5 DEF TypeOK, Reply, Requests
<1>11. daemon'.call = IF h /\ a THEN "spawn" ELSE "idle"
  BY <1>8, CallsAre
<1>12. Threads'
  BY <1>3, <1>9, <1>11 DEF Threads, Bringing
<1>13. Socket'
  <2>1. CASE h /\ a
    BY <1>1, <1>8, <1>11, <2>1 DEF Socket, Bringing
  <2>2. CASE ~(h /\ a)
    BY <1>8, <2>2 DEF Socket
  <2>3. QED
    BY <2>1, <2>2
<1>14. Radio'
  <2>1. ~(Live') /\ daemon'.call # "start"
    BY <1>3, <1>9, <1>11 DEF Live
  <2>2. ASSUME daemon'.call = "spawn" PROVE iface' = "up" /\ Commands \ cached' = Missed'
    <3>1. iface' = "up" /\ cached' = cached /\ replies' = replies
      BY <1>8, <1>11, <2>2
    <3>2. Commands \ cached = Unheard /\ \A j \in DOMAIN replies : replies[j].to \notin Commands => j <= 8 - 11
      BY <1>2, SentIs DEF Progress
    <3>3. replies \in Seq(Reply)
      BY <1>1 DEF TypeOK, Reply, Requests
    <3>4. Missed = Unheard
      <4>1. ASSUME NEW j \in DOMAIN replies
            PROVE  /\ replies[j].to \in Commands
                   /\ ~replies[j].ok => replies[j] = [to |-> replies[j].to, ok |-> FALSE]
        <5>1. j \in Nat /\ j >= 1 /\ replies[j] \in Reply
          BY <3>3
        <5>2. replies[j].to \in Commands
          BY <3>2, <5>1
        <5>3. QED
          BY <5>1, <5>2 DEF Reply
      <4>2. QED
        BY <4>1 DEF Missed, Unheard
    <3>5. Missed' = Missed
      BY <3>1 DEF Missed
    <3>6. QED
      BY <3>1, <3>2, <3>4, <3>5
  <2>3. QED
    BY <2>1, <2>2 DEF Radio
<1>15. Slot'
  BY <1>1, <1>3, <1>8, <1>9, <1>11, CallsAre DEF Slot, TypeOK
<1>16. Tap' /\ Health'
  BY <1>1, <1>9 DEF Tap, Health
<1>17. QED
  BY <1>10, <1>12, <1>13, <1>14, <1>15, <1>16 DEF Inv

LEMMA SkipKeeps ==
  ASSUME Inv, NEW i \in 1..11, daemon = StartAt(i), Skip(i), UNCHANGED <<shim, session>>
  PROVE  Inv'
<1>1. i \in {2, 3} /\ iface = "absent"
  <2>1. i \in {1, 2, 3, 4, 5, 6, 7, 8, 9, 10, 11}
    OBVIOUS
  <2>2. QED
    BY <2>1, BringUpIs DEF Skip, Skipped
<1>2. TypeOK /\ Threads /\ Socket /\ Slot /\ Tap /\ Health /\ Progress(i)
  BY CallsAre DEF Inv, Radio
<1>3. daemon' = StartAt(i + 1) /\ i + 1 \in 3..4 /\ UNCHANGED <<radio, faults>>
  BY <1>1 DEF Skip
<1>4. UNCHANGED <<handle, restart, stop, address, thread, tap, outlook, blindFor, blindSecs, seen,
                  iface, cached, slotHeld, slotFault, replies, late, mac, faults>>
  BY <1>3 DEF shim, session, health, radio, netlink
<1>5. TypeOK'
  <2>1. daemon' \in Steps
    BY <1>3, StepsAre
  <2>2. QED
    BY <1>2, <1>4, <2>1 DEF TypeOK
<1>6. daemon'.call = "start" /\ daemon'.at = i + 1
  BY <1>3, CallsAre
<1>7. daemon.call = "start"
  BY CallsAre
<1>8. Threads' /\ Socket' /\ Slot'
  BY <1>2, <1>4, <1>6, <1>7, CallsAre DEF Threads, Socket, Slot, Bringing, Live
<1>9. Radio'
  <2>1. replies = <<>>
    BY <1>1, <1>2 DEF Progress
  <2>2. Progress(i + 1)'
    BY <1>3, <1>4, <2>1 DEF Progress
  <2>3. ~(Live')
    BY <1>2, <1>4, <1>7 DEF Threads, Bringing, Live
  <2>4. QED
    BY <1>6, <2>2, <2>3 DEF Radio
<1>10. Tap' /\ Health'
  BY <1>2, <1>4 DEF Tap, Health
<1>11. QED
  BY <1>5, <1>8, <1>9, <1>10 DEF Inv

(* One step of the bring-up, however it is answered.                       *)
LEMMA BringUpKeeps ==
  ASSUME Inv, NEW i \in DOMAIN BringUp, daemon = StartAt(i),
         NEW a \in BOOLEAN, NEW t \in BOOLEAN, NEW h \in BOOLEAN,
         Skip(i) \/ Request(i, a, t, h), UNCHANGED <<shim, session>>
  PROVE  Inv'
<1>1. i \in 1..11
  BY BringUpIs
<1>2. CASE Skip(i)
  BY <1>1, <1>2, SkipKeeps
<1>3. CASE Request(i, a, t, h)
  <2>1. CASE i \in 1..10
    BY <1>3, <2>1, RequestKeeps
  <2>2. CASE i = 11
    BY <1>3, <2>2, UpKeeps
  <2>3. QED
    BY <1>1, <2>1, <2>2
<1>4. QED
  BY <1>2, <1>3

-----------------------------------------------------------------------------
(* The daemon's other steps.                                               *)

LEMMA StartKeeps == Inv /\ Start => Inv'
<1>1. SUFFICES ASSUME Inv, Start PROVE Inv'
  OBVIOUS
<1>2. TypeOK /\ Threads /\ Socket /\ Slot /\ Tap /\ Health
  BY <1>1 DEF Inv
<1>3. daemon = Idle /\ ~handle /\ daemon' = StartAt(1) /\ restart' = FALSE /\ mac' = FALSE
      /\ UNCHANGED <<handle, stop, address, iface, cached, slotHeld, slotFault, replies, late,
                     thread, tap, outlook, blindFor, blindSecs, seen, faults>>
  BY <1>1 DEF Start, session, health
<1>4. TypeOK'
  <2>1. daemon' \in Steps
    BY <1>3, StepsAre
  <2>2. restart' \in BOOLEAN /\ mac' \in BOOLEAN
    BY <1>3
  <2>3. QED
    BY <1>2, <1>3, <2>1, <2>2 DEF TypeOK
<1>5. daemon.call = "idle" /\ daemon'.call = "start" /\ daemon'.at = 1
  BY <1>3, CallsAre
<1>6. thread = "none" /\ replies = <<>>
  BY <1>2, <1>3, <1>5 DEF Threads, Socket, Bringing, Live
<1>7. Threads' /\ Socket' /\ Slot'
  BY <1>2, <1>3, <1>5, <1>6, CallsAre DEF Threads, Socket, Slot, Bringing, Live
<1>8. Radio'
  BY <1>3, <1>5, <1>6 DEF Radio, Progress, Live
<1>9. QED
  BY <1>2, <1>3, <1>4, <1>7, <1>8 DEF Inv, Tap, Health

LEMMA SpawnKeeps == Inv /\ Spawn => Inv'
<1>1. SUFFICES ASSUME Inv, Spawn PROVE Inv'
  OBVIOUS
<1>2. TypeOK /\ Threads /\ Socket /\ Radio /\ Slot /\ Tap /\ Health
  BY <1>1 DEF Inv
<1>3. daemon = [call |-> "spawn"] /\ daemon' = Idle /\ handle' = TRUE /\ stop' = FALSE
      /\ thread' = "spawned"
      /\ UNCHANGED <<restart, iface, cached, slotHeld, slotFault, replies, late, mac,
                     tap, outlook, blindFor, blindSecs, seen>>
  BY <1>1 DEF Spawn, radio, netlink, health
<1>4. address' \in {"none", "wonder0", "wondertap0"} /\ faults' \in 0..MaxFaults
  BY <1>1, <1>2, LifecycleAssumption DEF Spawn, MacOf, Fails, TypeOK
<1>5. TypeOK'
  <2>1. daemon' \in Steps
    BY <1>3, StepsAre
  <2>2. QED
    BY <1>2, <1>3, <1>4, <2>1 DEF TypeOK
<1>6. daemon.call = "spawn" /\ daemon'.call = "idle" /\ thread = "none"
  BY <1>2, <1>3, CallsAre DEF Threads, Bringing
<1>7. Threads' /\ Socket' /\ Slot'
  BY <1>2, <1>3, <1>6, CallsAre DEF Threads, Socket, Slot, Bringing, Live
<1>8. Radio'
  <2>1. Missed' = Missed
    BY <1>3 DEF Missed
  <2>2. QED
    BY <1>2, <1>3, <1>6, <2>1 DEF Radio
<1>9. Tap' /\ Health'
  BY <1>2, <1>3, <1>6 DEF Tap, Health
<1>10. QED
  BY <1>5, <1>7, <1>8, <1>9 DEF Inv

LEMMA StopKeeps == Inv /\ (Stop \/ PollHealth) => Inv'
<1>1. SUFFICES ASSUME Inv, Stop \/ PollHealth PROVE Inv'
  OBVIOUS
<1>2. TypeOK /\ Threads /\ Socket /\ Radio /\ Slot /\ Tap /\ Health
  BY <1>1 DEF Inv
<1>3. daemon = Idle /\ handle /\ daemon' = StopAt(1) /\ restart' \in BOOLEAN
      /\ UNCHANGED <<handle, stop, address, iface, cached, slotHeld, slotFault, replies, late,
                     mac, thread, tap, outlook, blindFor, blindSecs, seen, faults>>
  BY <1>1 DEF Stop, PollHealth, radio, netlink, session, health
<1>4. TypeOK'
  <2>1. daemon' \in Steps
    BY <1>3, StepsAre
  <2>2. QED
    BY <1>2, <1>3, <2>1 DEF TypeOK
<1>5. daemon.call = "idle" /\ daemon'.call = "stop" /\ daemon'.at = 1
  BY <1>3, CallsAre
<1>6. Threads' /\ Socket' /\ Slot'
  BY <1>2, <1>3, <1>5, CallsAre DEF Threads, Socket, Slot, Bringing, Live
<1>7. Radio'
  <2>1. Missed' = Missed
    BY <1>3 DEF Missed
  <2>2. QED
    BY <1>2, <1>3, <1>5, <2>1 DEF Radio, Live
<1>8. QED
  BY <1>2, <1>3, <1>4, <1>6, <1>7 DEF Inv, Tap, Health

LEMMA RaiseFlagKeeps == Inv /\ RaiseFlag => Inv'
<1>1. SUFFICES ASSUME Inv, RaiseFlag PROVE Inv'
  OBVIOUS
<1>2. TypeOK /\ Threads /\ Socket /\ Radio /\ Slot /\ Tap /\ Health
  BY <1>1 DEF Inv
<1>3. daemon = StopAt(1) /\ daemon' = StopAt(2) /\ stop' = TRUE
      /\ UNCHANGED <<handle, restart, address, iface, cached, slotHeld, slotFault, replies, late,
                     mac, thread, tap, outlook, blindFor, blindSecs, seen, faults>>
  BY <1>1 DEF RaiseFlag, radio, netlink, session, health
<1>4. TypeOK'
  <2>1. daemon' \in Steps
    BY <1>3, StepsAre
  <2>2. stop' \in BOOLEAN
    BY <1>3
  <2>3. QED
    BY <1>2, <1>3, <2>1, <2>2 DEF TypeOK
<1>5. daemon.call = "stop" /\ daemon'.call = "stop" /\ daemon'.at = 2 /\ daemon.at = 1
  BY <1>3, CallsAre
<1>6. Threads' /\ Socket' /\ Slot'
  BY <1>2, <1>3, <1>5, CallsAre DEF Threads, Socket, Slot, Bringing, Live
<1>7. Radio'
  <2>1. Missed' = Missed
    BY <1>3 DEF Missed
  <2>2. QED
    BY <1>2, <1>3, <1>5, <2>1 DEF Radio, Live
<1>8. QED
  BY <1>2, <1>3, <1>4, <1>6, <1>7 DEF Inv, Tap, Health

(* Only here does the daemon learn that the thread has ended.              *)
LEMMA JoinKeeps == Inv /\ Join => Inv'
<1>1. SUFFICES ASSUME Inv, Join PROVE Inv'
  OBVIOUS
<1>2. TypeOK /\ Threads /\ Socket /\ Radio /\ Slot /\ Tap /\ Health
  BY <1>1 DEF Inv
<1>3. daemon = StopAt(2) /\ daemon' = StopAt(3) /\ thread = "ended" /\ thread' = "none"
      /\ UNCHANGED <<handle, restart, stop, address, iface, cached, slotHeld, slotFault, replies,
                     late, mac, tap, outlook, blindFor, blindSecs, seen, faults>>
  BY <1>1 DEF Join, shim, radio, netlink, health
<1>4. TypeOK'
  <2>1. daemon' \in Steps
    BY <1>3, StepsAre
  <2>2. QED
    BY <1>2, <1>3, <2>1 DEF TypeOK
<1>5. daemon.call = "stop" /\ daemon'.call = "stop" /\ daemon'.at = 3 /\ daemon.at = 2
  BY <1>3, CallsAre
<1>6. Threads' /\ Socket' /\ Slot'
  BY <1>2, <1>3, <1>5, CallsAre DEF Threads, Socket, Slot, Bringing, Live
<1>7. Radio'
  BY <1>3, <1>5 DEF Radio, Live
<1>8. QED
  BY <1>2, <1>3, <1>4, <1>6, <1>7 DEF Inv, Tap, Health

LEMMA DownTapKeeps == Inv /\ DownTap => Inv'
<1>1. SUFFICES ASSUME Inv, DownTap PROVE Inv'
  OBVIOUS
<1>2. TypeOK /\ Threads /\ Socket /\ Radio /\ Slot /\ Tap /\ Health
  BY <1>1 DEF Inv
<1>3. daemon = StopAt(3) /\ daemon' = StopAt(4)
      /\ UNCHANGED <<handle, restart, stop, address, iface, cached, replies, late, mac,
                     thread, tap, outlook, blindFor, blindSecs, seen>>
  BY <1>1 DEF DownTap, shim, netlink, session, health
<1>4. /\ (slotHeld' = FALSE /\ slotFault' = FALSE) \/ (slotFault' = TRUE /\ slotHeld' = slotHeld)
      /\ faults' \in 0..MaxFaults
  BY <1>1, <1>2, LifecycleAssumption DEF DownTap, Fails, TypeOK
<1>5. TypeOK'
  <2>1. daemon' \in Steps
    BY <1>3, StepsAre
  <2>2. slotHeld' \in BOOLEAN /\ slotFault' \in BOOLEAN
    BY <1>2, <1>4 DEF TypeOK
  <2>3. QED
    BY <1>2, <1>3, <1>4, <2>1, <2>2 DEF TypeOK
<1>6. daemon.call = "stop" /\ daemon'.call = "stop" /\ daemon'.at = 4 /\ daemon.at = 3
  BY <1>3, CallsAre
<1>7. Threads' /\ Socket'
  BY <1>2, <1>3, <1>6, CallsAre DEF Threads, Socket, Bringing, Live
<1>8. Slot'
  BY <1>4 DEF Slot
<1>9. Radio'
  BY <1>2, <1>3, <1>6 DEF Radio, Live, Threads
<1>10. QED
  BY <1>2, <1>3, <1>5, <1>7, <1>8, <1>9 DEF Inv, Tap, Health

LEMMA DownWonderKeeps == Inv /\ DownWonder => Inv'
<1>1. SUFFICES ASSUME Inv, DownWonder PROVE Inv'
  OBVIOUS
<1>2. TypeOK /\ Threads /\ Socket /\ Radio /\ Slot /\ Tap /\ Health
  BY <1>1 DEF Inv
<1>3. daemon = StopAt(4) /\ daemon' \in {StartAt(1), Idle} /\ handle' = FALSE
      /\ restart' = FALSE /\ mac' = FALSE
      /\ UNCHANGED <<stop, address, cached, slotHeld, slotFault, replies, late,
                     thread, tap, outlook, blindFor, blindSecs, seen>>
  BY <1>1 DEF DownWonder, session, health
<1>4. iface' \in {"absent", "down", "up"} /\ faults' \in 0..MaxFaults
  BY <1>1, <1>2, LifecycleAssumption DEF DownWonder, Fails, TypeOK
<1>5. TypeOK'
  <2>1. daemon' \in Steps
    BY <1>3, StepsAre
  <2>2. restart' \in BOOLEAN /\ mac' \in BOOLEAN /\ handle' \in BOOLEAN
    BY <1>3
  <2>3. QED
    BY <1>2, <1>3, <1>4, <2>1, <2>2 DEF TypeOK
<1>6. daemon.call = "stop" /\ daemon.at = 4 /\ thread = "none" /\ replies = <<>>
      /\ (daemon'.call = "start" => daemon'.at = 1) /\ daemon'.call \in {"idle", "start"}
  BY <1>2, <1>3, CallsAre DEF Threads, Socket, Bringing, Live
<1>7. Threads' /\ Socket'
  BY <1>2, <1>3, <1>6 DEF Threads, Socket, Bringing, Live
<1>8. Slot'
  BY <1>2, <1>3, <1>6 DEF Slot
<1>9. Radio'
  BY <1>3, <1>6 DEF Radio, Progress, Live
<1>10. QED
  BY <1>2, <1>3, <1>5, <1>7, <1>8, <1>9 DEF Inv, Tap, Health

-----------------------------------------------------------------------------
(* The session.                                                            *)

(* A thread that ends closes its socket and its tap.                       *)
LEMMA EndingKeeps ==
  ASSUME Inv, Live, Ends,
         UNCHANGED <<daemon, shim, iface, cached, slotHeld, slotFault, health>>,
         faults' \in 0..MaxFaults
  PROVE  Inv'
<1>1. TypeOK /\ Threads /\ Slot
  BY DEF Inv
<1>2. /\ thread' = "ended" /\ tap' = NoTap /\ replies' = <<>> /\ late' = 0 /\ mac' = FALSE
      /\ UNCHANGED <<daemon, handle, restart, stop, address, iface, cached, slotHeld, slotFault,
                     outlook, blindFor, blindSecs, seen>>
  BY DEF Ends, shim, health
<1>3. TypeOK'
  <2>1. tap' \in [at : 0..Len(TapSteps), quiet : BOOLEAN, addresses : SUBSET {"ours", "kernel's"}]
    BY <1>2, TapStepsAre DEF NoTap
  <2>2. replies' \in Seq([to : Queries \cup Commands \cup {"DEL", "NEW"}, ok : BOOLEAN])
    BY <1>2
  <2>3. mac' \in BOOLEAN
    BY <1>2
  <2>4. QED
    BY <1>1, <1>2, <2>1, <2>2, <2>3 DEF TypeOK
<1>4. handle /\ ~Bringing /\ ~(daemon.call = "stop" /\ daemon.at \in 3..4)
  BY <1>1 DEF Threads, Live
<1>5. Threads' /\ Socket' /\ Slot' /\ Radio'
  BY <1>1, <1>2, <1>4 DEF Threads, Socket, Slot, Radio, Bringing, Live
<1>6. Tap' /\ Health'
  BY <1>2 DEF Tap, Health, NoTap
<1>7. QED
  BY <1>3, <1>5, <1>6 DEF Inv

(* A step of a running thread that leaves the radio and the daemon alone.  *)
LEMMA RunningKeeps ==
  ASSUME Inv, Live, thread' \in {"tap", "top", "body"},
         UNCHANGED <<daemon, shim, radio>>,
         faults' \in 0..MaxFaults,
         outlook' \in {"alone", "synced", "blind"},
         seen' \in {"nothing", "alone", "synced", "blind"},
         blindFor' \in -1..BlindMax, blindSecs' \in 0..BlindMax,
         tap' \in [at : 0..Len(TapSteps), quiet : BOOLEAN, addresses : SUBSET {"ours", "kernel's"}],
         Tap', Health'
  PROVE  Inv'
<1>1. TypeOK /\ Threads /\ Socket /\ Slot /\ Radio
  BY DEF Inv
<1>2. UNCHANGED <<daemon, handle, restart, stop, address, iface, cached, slotHeld, slotFault,
                  replies, late, mac>>
  BY DEF shim, radio, netlink
<1>3. TypeOK'
  BY <1>1, <1>2 DEF TypeOK
<1>4. handle /\ ~Bringing /\ ~(daemon.call = "stop" /\ daemon.at \in 3..4)
  BY <1>1 DEF Threads, Live
<1>5. Threads' /\ Socket' /\ Slot'
  BY <1>1, <1>2, <1>4 DEF Threads, Socket, Slot, Bringing, Live
<1>6. Radio'
  <2>1. Missed' = Missed
    BY <1>2 DEF Missed
  <2>2. QED
    BY <1>1, <1>2, <1>4, <2>1 DEF Radio, Bringing, Live
<1>7. QED
  BY <1>3, <1>5, <1>6 DEF Inv

LEMMA SetUpKeeps == Inv /\ SetUp => Inv'
<1>1. SUFFICES ASSUME Inv, SetUp PROVE Inv'
  OBVIOUS
<1>2. TypeOK /\ Tap
  BY <1>1 DEF Inv
<1>3. Live /\ faults' = faults /\ faults \in 0..MaxFaults
  BY <1>1, <1>2 DEF SetUp, Live, TypeOK
<1>4. CASE address = "none"
  BY <1>1, <1>3, <1>4, EndingKeeps DEF SetUp
<1>5. CASE address # "none"
  <2>1. /\ thread = "spawned" /\ thread' = "tap" /\ tap' = tap
        /\ blindFor' = -1 /\ blindSecs' = 0 /\ seen' = "nothing" /\ outlook' = "alone"
        /\ UNCHANGED <<daemon, shim, radio>>
    BY <1>1, <1>5 DEF SetUp, radio
  <2>2. blindFor' \in -1..BlindMax /\ blindSecs' \in 0..BlindMax
    BY <2>1, LifecycleAssumption
  <2>3. Tap'
    BY <1>2, <2>1 DEF Tap, NoTap
  <2>4. Health'
    BY <2>1 DEF Health
  <2>5. tap' \in [at : 0..Len(TapSteps), quiet : BOOLEAN, addresses : SUBSET {"ours", "kernel's"}]
    BY <1>2, <2>1 DEF TypeOK
  <2>6. QED
    BY <1>1, <1>3, <2>1, <2>2, <2>3, <2>4, <2>5, RunningKeeps
<1>6. QED
  BY <1>4, <1>5

(* A step of the tap: no address before it is up, and none but ours if the *)
(* kernel was quiet when it came up.                                       *)
LEMMA TapStepKeeps ==
  ASSUME Inv, NEW accepted \in BOOLEAN, NEW heard \in BOOLEAN, TapStep(accepted, heard)
  PROVE  Inv'
<1>1. TypeOK /\ Tap /\ Health
  BY DEF Inv
<1>2. Live /\ thread = "tap" /\ faults' \in 0..MaxFaults
  BY <1>1, LifecycleAssumption DEF TapStep, Live, TypeOK, Fails, Count
<1>3. CASE ~(accepted \/ ~heard)
  BY <1>2, <1>3, EndingKeeps DEF TapStep
<1>4. CASE accepted \/ ~heard
  <2> DEFINE step == TapSteps[tap.at + 1]
             quiet == tap.quiet \/ (step = "ADDR_GEN_MODE" /\ accepted)
             addresses == tap.addresses \cup
                            (CASE step = "UP" /\ ~tap.quiet -> {"kernel's"}
                               [] step = "ADDR" -> {"ours"}
                               [] OTHER -> {})
  <2>1. /\ tap.at \in 0..6 /\ tap.quiet \in BOOLEAN /\ tap.addresses \subseteq {"ours", "kernel's"}
    BY <1>1, TapStepsAre DEF TypeOK
  <2>2. tap.at \in 0..5 /\ tap.at + 1 \in 1..6
    BY <1>1, <1>2, <2>1 DEF Tap
  <2>3. /\ tap' = [at |-> tap.at + 1, quiet |-> quiet, addresses |-> addresses]
        /\ thread' = IF tap.at + 1 = 6 THEN "top" ELSE "tap"
    BY <1>4, TapStepsAre DEF TapStep, TapAfter
  <2>4. UNCHANGED <<daemon, shim, radio>> /\ UNCHANGED health
    BY <1>4 DEF TapStep, radio
  <2>5. /\ step = "UP" <=> tap.at = 4
        /\ step = "ADDR" <=> tap.at = 5
        /\ step = "ADDR_GEN_MODE" <=> tap.at = 1
    <3>1. tap.at \in {0, 1, 2, 3, 4, 5}
      BY <2>2
    <3>2. QED
      BY <3>1, TapStepsAre
  <2>6. addresses = tap.addresses \cup (IF tap.at = 4 /\ ~tap.quiet THEN {"kernel's"}
                                        ELSE IF tap.at = 5 THEN {"ours"} ELSE {})
    BY <2>2, <2>5
  <2>7. quiet \in BOOLEAN /\ (quiet <=> tap.quiet \/ (tap.at = 1 /\ accepted))
    BY <2>1, <2>5
  <2> HIDE DEF step, quiet, addresses
  <2>8. addresses \subseteq {"ours", "kernel's"}
    BY <2>1, <2>6
  <2>9. tap'.at = tap.at + 1 /\ tap'.quiet = quiet /\ tap'.addresses = addresses
    BY <2>3
  <2>10. tap' \in [at : 0..Len(TapSteps), quiet : BOOLEAN, addresses : SUBSET {"ours", "kernel's"}]
    BY <2>2, <2>3, <2>7, <2>8, TapStepsAre
  <2>11. Tap'
    <3>1. tap'.at < 5 => addresses = {}
      BY <1>1, <2>2, <2>6, <2>9 DEF Tap
    <3>2. tap'.at = 6 => "ours" \in addresses
      BY <2>2, <2>6, <2>9
    <3>3. quiet => addresses \subseteq {"ours"}
      BY <1>1, <2>1, <2>2, <2>6, <2>7 DEF Tap
    <3>4. tap'.at = 6 <=> thread' = "top"
      BY <2>2, <2>3, <2>9
    <3>5. thread' \in {"tap", "top"} /\ (thread' = "tap" => tap'.at < 6)
      BY <2>2, <2>3, <2>9
    <3>6. QED
      BY <2>9, <3>1, <3>2, <3>3, <3>4, <3>5 DEF Tap
  <2>12. Health'
    BY <1>1, <1>2, <2>4 DEF Health, health
  <2>13. /\ outlook' \in {"alone", "synced", "blind"}
         /\ seen' \in {"nothing", "alone", "synced", "blind"}
         /\ blindFor' \in -1..BlindMax /\ blindSecs' \in 0..BlindMax
    BY <1>1, <2>4 DEF TypeOK, health
  <2>14. thread' \in {"tap", "top", "body"}
    BY <2>3
  <2>15. QED
    BY <1>2, <2>4, <2>10, <2>11, <2>12, <2>13, <2>14, RunningKeeps
<1>5. QED
  BY <1>3, <1>4

LEMMA LoopHeadKeeps == Inv /\ LoopHead => Inv'
<1>1. SUFFICES ASSUME Inv, LoopHead PROVE Inv'
  OBVIOUS
<1>2. TypeOK /\ Tap /\ Health
  BY <1>1 DEF Inv
<1>3. Live /\ thread = "top" /\ faults' = faults /\ faults \in 0..MaxFaults
  BY <1>1, <1>2 DEF LoopHead, Live, TypeOK
<1>4. CASE stop
  BY <1>1, <1>3, <1>4, EndingKeeps DEF LoopHead
<1>5. CASE ~stop
  <2>1. thread' = "body" /\ tap' = tap /\ UNCHANGED <<daemon, shim, radio>>
        /\ UNCHANGED <<outlook, blindFor, blindSecs, seen>>
    BY <1>1, <1>5 DEF LoopHead, radio, health
  <2>2. Tap' /\ Health'
    BY <1>2, <1>3, <2>1 DEF Tap, Health
  <2>3. /\ outlook' \in {"alone", "synced", "blind"}
        /\ seen' \in {"nothing", "alone", "synced", "blind"}
        /\ blindFor' \in -1..BlindMax /\ blindSecs' \in 0..BlindMax
        /\ tap' \in [at : 0..Len(TapSteps), quiet : BOOLEAN, addresses : SUBSET {"ours", "kernel's"}]
    BY <1>2, <2>1 DEF TypeOK
  <2>4. QED
    BY <1>1, <1>3, <2>1, <2>2, <2>3, RunningKeeps
<1>6. QED
  BY <1>4, <1>5

(* Publishing makes the figure the session's own; a second only ages it.   *)
LEMMA PublishKeeps == Inv /\ (Publish \/ Second \/ OutlookChanges) => Inv'
<1>1. SUFFICES ASSUME Inv, Publish \/ Second \/ OutlookChanges PROVE Inv'
  OBVIOUS
<1>2. TypeOK /\ Tap /\ Health
  BY <1>1 DEF Inv
<1>3. /\ Live /\ thread \in {"top", "body"} /\ thread' \in {"top", "body"}
      /\ faults' = faults /\ tap' = tap /\ UNCHANGED <<daemon, shim, radio>>
  BY <1>1 DEF Publish, Second, OutlookChanges, Live
<1>4. /\ outlook' \in {"alone", "synced", "blind"}
      /\ seen' \in {"nothing", "alone", "synced", "blind"}
      /\ blindFor' \in -1..BlindMax /\ blindSecs' \in 0..BlindMax
      /\ Health'
  <2>1. /\ outlook \in {"alone", "synced", "blind"}
        /\ seen \in {"nothing", "alone", "synced", "blind"}
        /\ blindFor \in -1..BlindMax /\ blindSecs \in 0..BlindMax
        /\ BlindMax \in Nat
    BY <1>2, LifecycleAssumption DEF TypeOK
  <2>2. CASE Publish /\ outlook = "blind"
    <3>1. /\ outlook' = outlook /\ seen' = outlook
          /\ blindFor' = (IF blindFor = -1 THEN 0 ELSE blindFor) /\ blindSecs' = blindFor'
      BY <2>2 DEF Publish
    <3>2. blindFor' \in 0..BlindMax
      BY <2>1, <3>1
    <3>3. QED
      BY <2>1, <2>2, <3>1, <3>2 DEF Health
  <2>3. CASE Publish /\ outlook # "blind"
    <3>1. outlook' = outlook /\ seen' = outlook /\ blindFor' = -1 /\ blindSecs' = 0
      BY <2>3 DEF Publish
    <3>2. QED
      BY <2>1, <2>3, <3>1 DEF Health
  <2>4. CASE Second
    <3>1. /\ blindFor \in 0..(BlindMax - 1) /\ blindFor' = blindFor + 1
          /\ UNCHANGED <<thread, outlook, blindSecs, seen>>
      BY <2>4 DEF Second
    <3>2. QED
      BY <1>2, <1>3, <2>1, <3>1 DEF Health
  <2>5. CASE OutlookChanges
    <3>1. /\ outlook' \in {"synced", "blind"}
          /\ UNCHANGED <<thread, blindFor, blindSecs, seen>>
      BY <2>5 DEF OutlookChanges
    <3>2. QED
      BY <1>2, <1>3, <2>1, <3>1 DEF Health
  <2>6. QED
    BY <1>1, <2>2, <2>3, <2>4, <2>5
<1>5. Tap'
  BY <1>2, <1>3 DEF Tap
<1>6. tap' \in [at : 0..Len(TapSteps), quiet : BOOLEAN, addresses : SUBSET {"ours", "kernel's"}]
      /\ faults' \in 0..MaxFaults
  BY <1>2, <1>3 DEF TypeOK
<1>7. QED
  BY <1>1, <1>3, <1>4, <1>5, <1>6, RunningKeeps

LEMMA SessionDiesKeeps == Inv /\ SessionDies => Inv'
<1>1. SUFFICES ASSUME Inv, SessionDies PROVE Inv'
  OBVIOUS
<1>2. TypeOK
  BY <1>1 DEF Inv
<1>3. Live /\ faults' \in 0..MaxFaults
  BY <1>1, <1>2, LifecycleAssumption DEF SessionDies, Live, Fails, TypeOK
<1>4. QED
  BY <1>1, <1>3, EndingKeeps DEF SessionDies

LEMMA StutterKeeps == Inv /\ UNCHANGED vars => Inv'
<1>1. SUFFICES ASSUME Inv, UNCHANGED vars PROVE Inv'
  OBVIOUS
<1>2. TypeOK /\ Threads /\ Socket /\ Radio /\ Slot /\ Tap /\ Health
  BY <1>1 DEF Inv
<1>3. UNCHANGED <<daemon, handle, restart, stop, address, iface, cached, slotHeld, slotFault,
                  replies, late, mac, thread, tap, outlook, blindFor, blindSecs, seen, faults>>
  BY <1>1 DEF vars, shim, radio, netlink, session, health
<1>4. TypeOK'
  BY <1>2, <1>3 DEF TypeOK
<1>5. Threads' /\ Socket' /\ Slot'
  BY <1>2, <1>3 DEF Threads, Socket, Slot, Bringing, Live
<1>6. Radio'
  <2>1. Missed' = Missed /\ Unheard' = Unheard
    BY <1>3 DEF Missed, Unheard
  <2>2. Live' = Live
    BY <1>3 DEF Live
  <2>3. Progress(daemon.at)' <=> Progress(daemon.at)
    BY <1>3, <2>1 DEF Progress, Sent
  <2>4. QED
    BY <1>2, <1>3, <2>1, <2>2, <2>3 DEF Radio
<1>7. Tap' /\ Health'
  BY <1>2, <1>3 DEF Tap, Health
<1>8. QED
  BY <1>4, <1>5, <1>6, <1>7 DEF Inv

LEMMA Inductive == Inv /\ [Next]_vars => Inv'
<1>1. SUFFICES ASSUME Inv, Next PROVE Inv'
  BY StutterKeeps
<1>2. CASE Start
  BY <1>1, <1>2, StartKeeps
<1>3. CASE Spawn
  BY <1>1, <1>3, SpawnKeeps
<1>4. ASSUME NEW i \in DOMAIN BringUp, BringUpStep(i) PROVE Inv'
  <2>1. daemon = StartAt(i) /\ (Skip(i) \/ Request(i, TRUE, FALSE, TRUE))
        /\ UNCHANGED <<shim, session>>
    BY <1>4 DEF BringUpStep
  <2>2. TRUE \in BOOLEAN /\ FALSE \in BOOLEAN
    OBVIOUS
  <2>3. QED
    BY <1>1, <2>1, <2>2, BringUpKeeps
<1>5. ASSUME NEW i \in DOMAIN BringUp, NEW accepted \in BOOLEAN, NEW twice \in BOOLEAN,
             NEW heard \in BOOLEAN, BringUpFault(i, accepted, twice, heard)
      PROVE  Inv'
  <2>1. daemon = StartAt(i) /\ Request(i, accepted, twice, heard) /\ UNCHANGED <<shim, session>>
    BY <1>5 DEF BringUpFault
  <2>2. QED
    BY <1>1, <2>1, BringUpKeeps
<1>6. CASE Stop \/ PollHealth
  BY <1>1, <1>6, StopKeeps
<1>7. CASE Stopping
  BY <1>1, <1>7, RaiseFlagKeeps, JoinKeeps, DownTapKeeps, DownWonderKeeps DEF Stopping
<1>8. ASSUME NEW accepted \in BOOLEAN, NEW heard \in BOOLEAN, TapStep(accepted, heard) PROVE Inv'
  BY <1>1, <1>8, TapStepKeeps
<1>9. CASE SetUp
  BY <1>1, <1>9, SetUpKeeps
<1>10. CASE LoopHead
  BY <1>1, <1>10, LoopHeadKeeps
<1>11. CASE Publish \/ Second \/ OutlookChanges
  BY <1>1, <1>11, PublishKeeps
<1>12. CASE SessionDies
  BY <1>1, <1>12, SessionDiesKeeps
<1>13. QED
  BY <1>1, <1>2, <1>3, <1>4, <1>5, <1>6, <1>7, <1>8, <1>9, <1>10, <1>11, <1>12
     DEF Next, Starting, Refused, Running

-----------------------------------------------------------------------------
(* What holds throughout: of the threads, the socket, the driver, the P2P  *)
(* slot, the tap and the figure published.                                 *)
THEOREM LifeIsKept == Spec => []Inv
<1>1. QED
  BY Initially, Inductive, PTL DEF Spec

(* The state of a session's life has its type.                             *)
THEOREM LifecycleTypes == Spec => []TypeOK
<1>1. Inv => TypeOK
  BY DEF Inv
<1>2. QED
  BY <1>1, LifeIsKept, PTL

(* However many commands are refused, answered late or answered twice, a   *)
(* session runs on a radio that is up, and what the driver has not taken   *)
(* it refused in an answer that was not read.  (wonder.rs 239-273, 580-689)*)
THEOREM SessionsRunOnARadio == Spec => []RunsOnAConfiguredRadio
<1>1. Inv => RunsOnAConfiguredRadio
  BY DEF Inv, Radio, Socket, RunsOnAConfiguredRadio
<1>2. QED
  BY <1>1, LifeIsKept, PTL

(* The tap answers from the address peers compute, and no other.           *)
(* (tun.rs 274-410)                                                        *)
THEOREM TapsAreOurs == Spec => []TapCarriesOurAddress
<1>1. Inv => TapCarriesOurAddress
  <2>1. SUFFICES ASSUME Inv, thread \in {"top", "body"}
                 PROVE  /\ "ours" \in tap.addresses
                        /\ tap.quiet => tap.addresses = {"ours"}
    BY DEF TapCarriesOurAddress
  <2>2. QED
    BY <2>1 DEF Inv, Tap
<1>2. QED
  BY <1>1, LifeIsKept, PTL

(* Without a handle the chip's P2P slot is free, but for a refused stop or *)
(* a start that did not hear it had succeeded.  (shim 163-186, 346-357)    *)
THEOREM SlotsAreReleased == Spec => []SlotIsReleased
<1>1. Inv => SlotIsReleased
  BY CallsAre DEF Inv, Slot, SlotIsReleased
<1>2. QED
  BY <1>1, LifeIsKept, PTL

(* The health reported of a running session is its own.                    *)
(* (session 284-293 and 708-719)                                           *)
THEOREM HealthIsOwn == Spec => []HealthIsTheSessions
<1>1. Inv => HealthIsTheSessions
  BY DEF Inv, Health, HealthIsTheSessions
<1>2. QED
  BY <1>1, LifeIsKept, PTL
=============================================================================
