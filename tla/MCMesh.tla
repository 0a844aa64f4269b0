------------------------------- MODULE MCMesh -------------------------------
(* Three nodes in range of each other, alone or with a fourth that only    *)
(* one of them hears; slots and samples cut down to what an election needs.*)
EXTENDS Mesh, TLC

CONSTANTS n1, n2, n3, n4

Metrics == (n1 :> 2) @@ (n2 :> 3) @@ (n3 :> 4)
NoTenure == [n \in Node |-> 0]
Everyone == {<<n, m>> \in Node \X Node : n # m}
HopsOfEveryone == [n \in Node |-> [m \in Node |-> IF n = m THEN 0 ELSE 1]]

(* Three in range of each other; the best is heard by one of them only.    *)
KiteMetrics == (n1 :> 3) @@ (n2 :> 2) @@ (n3 :> 3) @@ (n4 :> 4)
Kite == {<<n, m>> \in Node \X Node : n # m /\ (n4 \in {n, m} => n3 \in {n, m})}
HopsOfKite ==
  [n \in Node |-> [m \in Node |-> IF n = m THEN 0 ELSE IF <<n, m>> \in Kite THEN 1 ELSE 2]]

Awake == [i \in 0..(Slots - 1) |-> 6]
Beat ==
  [arrived_us |-> 8, counter |-> 0, remaining_tu |-> 1, presence_mode |-> 1,
   phy_tx_time |-> 0, channels |-> Awake]
=============================================================================
