----------------------------- MODULE MCBroadcasts -----------------------------
(* Broadcasts with its people named, and two cuts that lose nothing of what    *)
(* is checked: the people are alike, so the first to leave may be p1; and whom *)
(* the external system writes to matters only to what it is told.              *)
EXTENDS Broadcasts

CONSTANTS p1, p2

FirstToLeave == p2 \in left => p1 \in left
OneChannel == \A b \in Runs : hook[b] => Empty(b)
===============================================================================
