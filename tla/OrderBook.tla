------------------------------ MODULE OrderBook ------------------------------
(***************************************************************************)
(* What a user's orders promise about the user's balance, with no provider,*)
(* no notification and no operator in sight: an order is settled once, as  *)
(* what it bought or as money on the balance; what it paid goes back once, *)
(* by the operator to the balance or by the payment system to the payer;   *)
(* and the balance moves by exactly what each of these steps is worth.     *)
(* A settled order may lapse: then it can be settled a second time, and    *)
(* that is all the book has to say of it.                                  *)
(*                                                                         *)
(* PaymentOrders implements this specification.                            *)
(***************************************************************************)
EXTENDS Integers

CONSTANT Orders

VARIABLES
    terms,      \* terms[o]: the money o collects and the part the balance pays
    fate,       \* fate[o]: what has come of o
    balance,    \* the user's balance
    gifts,      \* what the operator put on the balance, or took off it, by hand
    short       \* money the payment system took back that the balance did not have

vars == <<terms, fate, balance, gifts, short>>

Fates == {"new", "open", "bought", "banked", "refunded", "returned",
          "lapsed", "again", "regained"}
Terms == [money : Nat, bal : Nat]
NoTerms == [money |-> 0, bal |-> 0]

Init ==
    /\ terms = [o \in Orders |-> NoTerms]
    /\ fate = [o \in Orders |-> "new"]
    /\ balance \in Nat
    /\ gifts = balance
    /\ short = 0

Step(o, from, to) ==
    /\ fate[o] \in from
    /\ fate' = [fate EXCEPT ![o] = to]

Open(o) ==
    /\ Step(o, {"new"}, "open")
    /\ terms'[o] \in Terms
    /\ terms' = [terms EXCEPT ![o] = terms'[o]]
    /\ UNCHANGED <<balance, gifts, short>>

\* The money is in, and buys what the order was for ...
Buy(o) ==
    /\ Step(o, {"open"}, "bought")
    /\ terms[o].bal <= balance
    /\ balance' = balance - terms[o].bal
    /\ UNCHANGED <<terms, gifts, short>>

\* ... or is kept for the user on the balance.
Bank(o) ==
    /\ Step(o, {"open"}, "banked")
    /\ balance' = balance + terms[o].money
    /\ UNCHANGED <<terms, gifts, short>>

\* Bought and paid for from the balance in one step.
BuyAtOnce(o) ==
    /\ Step(o, {"new"}, "bought")
    /\ terms'[o] \in Terms /\ terms'[o].money = 0
    /\ terms' = [terms EXCEPT ![o] = terms'[o]]
    /\ terms'[o].bal <= balance
    /\ balance' = balance - terms'[o].bal
    /\ UNCHANGED <<gifts, short>>

Refund(o) ==
    /\ Step(o, {"bought"}, "refunded")
    /\ balance' = balance + terms[o].money + terms[o].bal
    /\ UNCHANGED <<terms, gifts, short>>

\* The money is gone from outside: its part leaves the balance if it was put there, as
\* far as the balance goes, and the user's own part of a purchase returns.
Return(o) ==
    \/ /\ Step(o, {"bought"}, "returned")
       /\ balance' = balance + terms[o].bal
       /\ UNCHANGED <<terms, gifts, short>>
    \/ /\ Step(o, {"banked", "refunded"}, "returned")
       /\ \E taken \in 0..terms[o].money :
            /\ taken = terms[o].money \/ taken = balance
            /\ taken <= balance
            /\ balance' = balance - taken
            /\ short' = short + (terms[o].money - taken)
       /\ UNCHANGED <<terms, gifts>>

\* Forgotten to have been settled, whatever it has bought ...
Lapse(o) ==
    /\ Step(o, {"bought", "banked", "refunded"}, "lapsed")
    /\ UNCHANGED <<terms, balance, gifts, short>>

\* ... it can be settled once more, and what it was paid go back if it did not before.
Again(o) ==
    /\ \E to \in {"again", "regained"} : Step(o, {"lapsed"}, to)
    /\ \/ terms[o].bal <= balance /\ balance' = balance - terms[o].bal
       \/ balance' = balance + terms[o].money
    /\ UNCHANGED <<terms, gifts, short>>

Regain(o) ==
    /\ Step(o, {"again"}, "regained")
    /\ balance' = balance + terms[o].money + terms[o].bal
    /\ UNCHANGED <<terms, gifts, short>>

\* A correction by hand: never below zero, and nothing but the balance.
Adjust ==
    /\ balance' \in Nat
    /\ gifts' = gifts + (balance' - balance)
    /\ UNCHANGED <<terms, fate, short>>

Next ==
    \/ \E o \in Orders :
          \/ Open(o) \/ Buy(o) \/ Bank(o) \/ BuyAtOnce(o) \/ Refund(o) \/ Return(o)
          \/ Lapse(o) \/ Again(o) \/ Regain(o)
    \/ Adjust

Spec == Init /\ [][Next]_vars
=============================================================================
