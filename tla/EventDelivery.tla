---------------------------- MODULE EventDelivery ----------------------------
(***************************************************************************)
(* What an event's delivery promises its subscriber, with no lease, queue, *)
(* worker or clock in sight: once it is owed it is over only when it was   *)
(* taken, was asked for often enough or its subscriber excused itself; and *)
(* what the subscriber took it is given again only after a mishap that     *)
(* made the sender forget.                                                 *)
(*                                                                         *)
(* WebhookOutbox implements this specification.                            *)
(***************************************************************************)
EXTENDS Naturals

CONSTANTS Deliveries, MaxAttempts

VARIABLES
    fate,       \* what has become of a delivery
    given,      \* how often its subscriber took it
    asked,      \* how often its subscriber was asked to
    excused,    \* deliveries whose subscriber was off or removed at some time
    mishaps     \* how often something went wrong

vars == <<given, asked, excused, mishaps, fate>>

\* "taken": the sender knows that the subscriber took it; "stray": its subscriber excused
\* itself while it was on its way.
Fates == {"new", "lost", "owed", "taken", "stray", "over"}

Init ==
    /\ fate = [d \in Deliveries |-> "new"]
    /\ given = [d \in Deliveries |-> 0]
    /\ asked = [d \in Deliveries |-> 0]
    /\ excused = {}
    /\ mishaps = 0

Becomes(d, from, to) ==
    /\ fate[d] \in from
    /\ fate' = [fate EXCEPT ![d] = to]

Asked(d) == asked' = [asked EXCEPT ![d] = @ + 1]
Given(d) == given' = [given EXCEPT ![d] = @ + 1]

Owe(d) ==
    /\ UNCHANGED <<given, asked, excused, mishaps>>
    /\ Becomes(d, {"new"}, "owed")

\* The subscriber takes it, does not take it, or takes it unheard.
Take(d) ==
    /\ Asked(d) /\ Given(d)
    /\ Becomes(d, {"owed", "stray"}, "taken")
    /\ UNCHANGED <<excused, mishaps>>

Refuse(d) ==
    /\ Asked(d)
    /\ fate[d] \in {"owed", "stray"}
    /\ UNCHANGED <<given, excused, mishaps, fate>>

TakeUnheard(d) ==
    /\ mishaps' = mishaps + 1
    /\ Asked(d) /\ Given(d)
    /\ fate[d] \in {"owed", "stray"}
    /\ UNCHANGED <<fate, excused>>

Close(d) ==
    /\ UNCHANGED <<given, asked, excused, mishaps>>
    /\ \/ Becomes(d, {"taken", "stray"}, "over")
       \/ Becomes(d, {"owed"}, "over") /\ (asked[d] >= MaxAttempts \/ d \in excused)

\* Nothing but what the deliveries in ds were becomes something else.
Only(ds, moves) ==
    /\ fate' \in [Deliveries -> Fates]
    /\ \A d \in Deliveries : fate'[d] # fate[d] => d \in ds /\ <<fate[d], fate'[d]>> \in moves

\* What a subscriber that excused itself is owed is dropped, wherever it is.
Withdraw ==
    /\ UNCHANGED <<given, asked, excused, mishaps>>
    /\ Only(excused, {<<"owed", "over">>, <<"owed", "stray">>})

Excuse ==
    /\ excused \subseteq excused'
    /\ UNCHANGED <<given, asked, mishaps, fate>>

\* Something goes wrong: an event is not stored, the sender forgets what was taken or was
\* on its way.
Mishap ==
    /\ mishaps' = mishaps + 1
    /\ UNCHANGED <<given, asked, excused>>
    /\ Only(Deliveries, {<<"new", "lost">>, <<"taken", "owed">>, <<"taken", "over">>, <<"stray", "over">>})

Next ==
    \/ Withdraw \/ Excuse \/ Mishap
    \/ \E d \in Deliveries : Owe(d) \/ Take(d) \/ Refuse(d) \/ TakeUnheard(d) \/ Close(d)

Spec == Init /\ [][Next]_vars
===============================================================================
