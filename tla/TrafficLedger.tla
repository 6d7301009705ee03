---------------------------- MODULE TrafficLedger ----------------------------
(***************************************************************************)
(* What the traffic accounting of the fleet promises, with no node, no     *)
(* network and no failure in sight: a unit of traffic a user consumes on   *)
(* a node is settled at most once, either booked against the user's        *)
(* allowance or refused because the node does not serve that user.         *)
(*                                                                         *)
(* NodeTraffic implements this specification.                              *)
(***************************************************************************)
EXTENDS Naturals

CONSTANT Units          \* the indivisible units of traffic (a byte of a user)

VARIABLES
    used,               \* the units users have consumed
    books,              \* books[u]: how many times the panel has booked u
    refused             \* units the panel took a report of and did not believe

vars == <<used, books, refused>>

Outstanding == {u \in used \ refused : books[u] = 0}

Init ==
    /\ used = {}
    /\ books = [u \in Units |-> 0]
    /\ refused = {}

Use(u) ==
    /\ u \in Units \ used
    /\ used' = used \cup {u}
    /\ UNCHANGED <<books, refused>>

\* One report: every unit of it that is believed is booked, the rest refused.
Settle(believed, foreign) ==
    /\ believed \cap foreign = {}
    /\ books' = [u \in Units |-> IF u \in believed THEN books[u] + 1
                                                   ELSE books[u]]
    /\ refused' = refused \cup foreign
    /\ UNCHANGED used

Next ==
    \/ \E u \in Units : Use(u)
    \/ \E believed, foreign \in SUBSET Outstanding : Settle(believed, foreign)

Spec == Init /\ [][Next]_vars
=============================================================================
