------------------------------ MODULE Schedules -----------------------------
(***************************************************************************)
(* The schedule a beacon announces and the clock it keeps it by: the       *)
(* schedules of crates/tlink/src/sync.rs and the window arithmetic of      *)
(* crates/tlink/src/beacon.rs.  A schedule maps each slot of the cycle to  *)
(* a channel, 0 where the node is absent.  All operators are pure, and all *)
(* instants are microseconds of the node's own clock.                      *)
(***************************************************************************)
EXTENDS Integers, FiniteSets

TU_US == 1024
AW_US == 16 * TU_US
SLOT_US == 4 * AW_US
CYCLE_US == 16 * SLOT_US
PRESENCE_MODE == 4
AW_PER_COUNTER_TICK == 192

Slot == 0..15

-----------------------------------------------------------------------------
(* ChannelSequence::single, apple_shaped and Beacon::schedule.  No         *)
(* association, and no number of windows asked for, are 0.                 *)
opclass_for(channel) ==
  IF channel = 0 THEN 0 ELSE IF channel <= 14 THEN 81 ELSE 128

Single(channel) == [i \in Slot |-> channel]

AppleShaped(social, assoc) ==
  [i \in Slot |-> CASE i = 0 -> assoc [] i = 8 -> 6 [] i \in {2, 10} -> social [] OTHER -> 0]

(* n windows spread as evenly as the cycle allows.                         *)
Spread(n) == {(i * 16) \div n : i \in 0..(n - 1)}

Widened(social, assoc, n) ==
  [i \in Slot |-> CASE i = 8 -> 6
                    [] i = 0 /\ assoc # 0 -> assoc
                    [] OTHER -> IF i \in Spread(IF n > 16 THEN 16 ELSE n) THEN social ELSE 0]

schedule(c) ==
  IF c.single_channel THEN Single(c.social_channel)
  ELSE IF c.windows = 0 THEN AppleShaped(c.social_channel, c.assoc_channel)
  ELSE Widened(c.social_channel, c.assoc_channel, c.windows)

advertised_slots(channels) == {i \in Slot : channels[i] # 0}

-----------------------------------------------------------------------------
(* Beacon's clock.  aw_counter is the low 16 bits of aws_at.               *)
aws_at(now) == now \div AW_US
slot_at(now) == (now % CYCLE_US) \div SLOT_US
aw_remaining_us(now) == AW_US - (now % AW_US)
tenure(base, now) == base + (aws_at(now) \div AW_PER_COUNTER_TICK)

(* The slot a receiver reads from a counter (tag 4): Sighting::slot.       *)
SlotNamed(counter) == (counter \div PRESENCE_MODE) % 16

(* Mutant: a slot taken for one availability window.                       *)
NextOfAws(slots, now) ==
  LET here == (now \div AW_US) % 16
      later == {s \in slots : s > here}
      Least(S) == CHOOSE s \in S : \A t \in S : s <= t
      next == IF later # {} THEN Least(later) ELSE Least(slots) + 16
  IN  IF here \in slots THEN 0 ELSE (next * AW_US) - (now % (16 * AW_US))

(* The next advertised slot, this cycle or the one after it, and the time  *)
(* to its start; 0 inside one.                                             *)
NextAdvertised(slots, now) ==
  LET here == slot_at(now)
      later == {s \in slots : s > here}
      Least(S) == CHOOSE s \in S : \A t \in S : s <= t
      next == IF later # {} THEN Least(later) ELSE Least(slots) + 16
  IN  IF here \in slots THEN 0 ELSE (next * SLOT_US) - (now % CYCLE_US)

us_until_next_advertised_window(channels, now) ==
  IF advertised_slots(channels) = {} THEN SLOT_US
  ELSE NextAdvertised(advertised_slots(channels), now)
=============================================================================
