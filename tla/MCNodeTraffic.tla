--------------------------- MODULE MCNodeTraffic -----------------------------
(* NodeTraffic on instances small enough to explore. *)
EXTENDS NodeTraffic, TLC

CONSTANTS Alice, Bob, a1, b1, l1

MCUsers == {Alice, Bob}

\* Two users' traffic.
TwoUnits == {a1, b1}
TwoOwners == (a1 :> Alice) @@ (b1 :> Bob)

\* A user's traffic and a lane's.
LaneUnits == {a1, l1}
LaneOwners == (a1 :> Alice) @@ (l1 :> Lane)

\* Requests are alike; so are the two users.
Swap == (Alice :> Bob) @@ (Bob :> Alice) @@ (a1 :> b1) @@ (b1 :> a1)
Same == [x \in {Alice, Bob, a1, b1} |-> x]
Symmetry == {p @@ q : p \in Permutations(Slots), q \in {Swap, Same}}
=============================================================================
