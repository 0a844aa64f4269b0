----------------------------- MODULE Allegiance -----------------------------
(***************************************************************************)
(* What tracking a cluster promises, without frames, clocks or relays.     *)
(*                                                                         *)
(* A node owes allegiance to at most one lord, at a price: the metric the  *)
(* lord was last known to claim.  It keeps evidence of when its lord is    *)
(* awake, and that evidence is the lord's alone (finding 55: pooling two   *)
(* timelines is no timeline).  It leaves a lord only for a better claim.   *)
(***************************************************************************)
EXTENDS Integers

CONSTANTS Node, None

VARIABLES
  lord,      \* whom we follow, or None
  price,     \* the metric claimed for the lord, or None
  evidence   \* the nodes our timing was measured from

allegiance == <<lord, price, evidence>>

Init ==
  /\ lord = None
  /\ price = None
  /\ evidence = {}

(* The lord may restate its claim, and be heard or not.                    *)
Stay ==
  /\ lord' = lord
  /\ lord # None
  /\ price' \in {price} \cup Nat
  /\ evidence' \subseteq {lord}

(* A first lord needs no argument; any other, a strictly better claim.     *)
Join(n) ==
  /\ lord' = n
  /\ lord # n
  /\ \/ lord = None \/ price = None
     \/ price' > price
  /\ price' \in Nat \cup {None}
  /\ price' = None => price = None
  /\ evidence' \subseteq {n}

Next == Stay \/ \E n \in Node : Join(n)

Spec == Init /\ [][Next]_allegiance
=============================================================================
