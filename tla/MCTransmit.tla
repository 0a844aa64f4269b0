----------------------------- MODULE MCTransmit -----------------------------
(* A cycle of two slots of three ticks (a tick is about 22 ms): a slot     *)
(* outlasts the beacon gap, a cycle outlasts the liveness escape, and a    *)
(* window can shut between any two frames of a burst.                      *)
EXTENDS Transmit

Shim == [follow |-> TRUE, lock |-> TRUE, reactive |-> TRUE]
Follower == [follow |-> TRUE, lock |-> FALSE, reactive |-> FALSE]
SelfTimed == [follow |-> FALSE, lock |-> FALSE, reactive |-> FALSE]
AllModes == {Shim, Follower, SelfTimed}
ShimOnly == {Shim}

Seen(channels) == [usable |-> TRUE, channels |-> channels]
Here == Seen([s \in Slot |-> IF s = 0 THEN Home ELSE Asleep])
Elsewhere == Seen([s \in Slot |-> IF s = 1 THEN Away ELSE Asleep])
Empty == Seen([s \in Slot |-> Asleep])
AllViews == {Unheard, Here, Elsewhere, Empty}
OnlyUnheard == {Unheard}
=============================================================================
