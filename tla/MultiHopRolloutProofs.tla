------------------------ MODULE MultiHopRolloutProofs ------------------------
(***************************************************************************)
(* What the proofs of MultiHopRollout rest on: every path is one an        *)
(* operator asked for, a deployment is known to a server only as far as    *)
(* it was placed there, a server never forgets a part of the deployment    *)
(* under way, and what is published is there.                              *)
(***************************************************************************)
EXTENDS MultiHopRollout, TLAPS

(* The shape of things *)

Sound(path) ==
    /\ path \in Path
    /\ [chain |-> path.chain, guarded |-> path.guarded] \in Routes \cup Inherited

\* A hop that server s may have been given.
Part(h, s) ==
    /\ IsHop(h) /\ Sound(h.path) /\ h.path.rev <= revisions /\ h.path.chain[h.pos] = s
    /\ \A q \in Peers(h.path, h.pos) : h.peers[q] <= place[h.path.chain[q]]

\* A row with no revision above n.
SoundRow(r, n) ==
    /\ IsRow(r) /\ Sound(r.live) /\ r.live.rev <= n
    /\ r.pend # None => r.on /\ Sound(r.pend.path) /\ r.pend.path.rev <= n

RowsAreSound ==
    /\ row = None \/ SoundRow(row, revisions)
    /\ look = None \/ (/\ DOMAIN look = {"row", "place"} /\ look.place \in [Servers -> Nat]
                       /\ SoundRow(look.row, revisions)
                       /\ look.row # None /\ look.row.pend # None)

HopsAreParts ==
    \A s \in Servers :
        /\ \A h \in noted[s] \cup held[s] \cup told[s] : Part(h, s)
        /\ late[s] = None \/ \A h \in late[s] : Part(h, s)

Shape == TypeOK /\ RowsAreSound /\ HopsAreParts

(* One chain to a revision *)

Underway == row # None /\ row.pend # None

Given == UNION {held[s] \cup told[s] : s \in Servers}

InPlay ==
    {h.path : h \in Given} \cup (IF Underway THEN {row.pend.path} ELSE {})
                           \cup (IF Published THEN {row.live} ELSE {})

OnePathPerRevision == \A x, y \in InPlay : x.rev = y.rev => x = y

(* The rollout, as long as no server has been taken out of service *)

\* What s runs and, when an answer is on its way to it, will run.
Copies(s) == {held[s]} \cup {X \in {told[s]} : phase[s] = "told"}

Said(s) == {noted[s]} \cup {X \in {late[s]} : X # None}

Has(X, path, p) == \E h \in X : h.path = path /\ h.pos = p

Behind(path) == Positions(path) \ {1}

Staged(pend) == Placed(pend) \cup {i \in {1} : pend.entry}

\* Nobody knows a hop of the deployment that has not been placed.
OnlyPlaced ==
    Underway => \A s \in Servers : \A X \in Copies(s) \cup Said(s) : \A h \in X :
        h.path = row.pend.path => h.pos \in Staged(row.pend)

\* Of the deployment under way, Y has what X has, and knows as much of the peers.
Keeps(X, Y) ==
    \A g \in X : g.path = row.pend.path =>
        \E h \in Y : /\ h.path = g.path /\ h.pos = g.pos
                     /\ \A q \in Peers(g.path, g.pos) : g.peers[q] <= h.peers[q]

\* What a server said it runs it still runs, and will after its next answer.
NothingIsTakenBack ==
    Underway => \A s \in Servers : /\ \A X \in Said(s) : Keeps(X, held[s])
                                   /\ phase[s] = "told" => Keeps(held[s], told[s])

OneHopEach ==
    \A s \in Servers : \A X \in Copies(s) : \A g, h \in X :
        g.path = h.path /\ g.pos = h.pos => g = h

\* The entry is switched when everything behind it is there.
EntryIsLast ==
    Underway /\ row.pend.entry =>
        /\ row.pend.ready >= LastReady(row.pend.path)
        /\ \A p \in Behind(row.pend.path) : \A X \in Copies(row.pend.path.chain[p]) :
                Has(X, row.pend.path, p)

\* The published protected link, which one that follows it is added behind.
Ahead(path) == Published /\ row.live.guarded /\ path = row.live

\* An entry that has been switched has no other link before the new one.
SwitchedLeads ==
    Underway => \A s \in Servers : \A X \in Copies(s) :
        Has(X, row.pend.path, 1) => \A h \in X : h.pos = 1 =>
            \/ h.path = row.pend.path
            \/ row.pend.path.guarded /\ ~h.path.guarded
            \/ Ahead(h.path)

LiveIsThere ==
    Published => \A p \in Behind(row.live) : \A X \in Copies(row.live.chain[p]) :
        Has(X, row.live, p)

\* The published protected path has just followed h's, and X holds both.
Overtaken(h, X) ==
    /\ h.path.guarded /\ row.live.guarded /\ h.path.rev < row.live.rev
    /\ \E g \in X : g.pos = 1 /\ g.path = row.live
    /\ \A g \in X : g.pos = 1 /\ g.path.guarded => g.path \in {h.path, row.live}

\* The entry leads along the published path, the one it has been switched to, or the one
\* that the published has followed.
EntryLeads ==
    Published => \A X \in Copies(row.live.chain[1]) :
        /\ \E h \in X : h.pos = 1
        /\ \A h \in X : h.pos = 1 =>
            \/ h.path = row.live
            \/ Underway /\ h.path = row.pend.path
            \/ ~h.path.guarded /\ \E g \in X : g.pos = 1 /\ g.path.guarded
            \/ Overtaken(h, X)

\* A deployment beside a published path is a newer one, and no less protected.
Beside ==
    Published /\ Underway =>
        /\ row.live.rev < row.pend.path.rev
        /\ row.live.guarded => row.pend.path.guarded

Rollout ==
    /\ \A s \in Servers : serves[s]
    /\ OnlyPlaced /\ NothingIsTakenBack /\ OneHopEach
    /\ EntryIsLast /\ SwitchedLeads /\ LiveIsThere /\ EntryLeads /\ Beside

(* Paths and hops *)

LEMMA PathFacts ==
    ASSUME NEW path, Sound(path)
    PROVE  /\ path.chain \in Seq(Servers) /\ path.guarded \in BOOLEAN /\ path.rev \in Nat
           /\ Len(path.chain) \in Nat \ {0}
           /\ path.guarded => Len(path.chain) = 4
           /\ 1 \in Positions(path)
           /\ \A p \in Positions(path) : /\ path.chain[p] \in Servers
                                         /\ Peers(path, p) \subseteq Positions(path)
  <1>1. path.chain \in Seq(Servers) /\ path.guarded \in BOOLEAN /\ path.rev \in Nat
    BY DEF Sound, Path
  <1>2. path.chain # <<>> /\ (path.guarded => Len(path.chain) = 4)
    <2>1. PICK r \in Routes \cup Inherited : r = [chain |-> path.chain, guarded |-> path.guarded]
      BY DEF Sound
    <2>2. r.chain = path.chain /\ r.guarded = path.guarded
      BY <2>1
    <2>3. r.chain # <<>> /\ (r.guarded => Len(r.chain) = 4)
      BY RoutesAssumption
    <2> QED
      BY <2>2, <2>3
  <1>3. Len(path.chain) \in Nat \ {0}
    BY <1>1, <1>2
  <1>4. \A p \in Positions(path) : path.chain[p] \in Servers
    BY <1>1, <1>3 DEF Positions
  <1>5. \A p \in Positions(path) : Peers(path, p) \subseteq Positions(path)
    <2> SUFFICES ASSUME NEW p \in Positions(path), NEW q \in Peers(path, p)
                 PROVE  q \in Positions(path)
      OBVIOUS
    <2>1. p \in Nat /\ 1 <= p /\ p <= Len(path.chain)
      BY <1>3 DEF Positions
    <2>2. CASE path.guarded
      <3>1. q = 2 \/ q = 3
        BY <2>2 DEF Peers
      <3>2. Len(path.chain) = 4
        BY <2>2, <1>2
      <3> QED
        BY <3>1, <3>2, <1>3 DEF Positions
    <2>3. CASE ~path.guarded
      <3>1. q \in {p + 1, p - 1} /\ 1 <= q /\ q <= Len(path.chain)
        BY <2>1, <2>3, <1>3 DEF Peers
      <3> QED
        BY <3>1, <2>1, <1>3 DEF Positions
    <2> QED
      BY <2>2, <2>3
  <1>6. 1 \in Positions(path)
    BY <1>3 DEF Positions
  <1> QED
    BY <1>1, <1>2, <1>3, <1>4, <1>5, <1>6

LEMMA HopFields ==
    ASSUME NEW path, NEW p, NEW at
    PROVE  /\ Hop(path, p, at).path = path /\ Hop(path, p, at).pos = p
           /\ DOMAIN Hop(path, p, at) = {"path", "pos", "peers"}
           /\ \A q \in Peers(path, p) : Hop(path, p, at).peers[q] = at[path.chain[q]]
  BY DEF Hop

LEMMA HopIsPart ==
    ASSUME NEW path, Sound(path), path.rev <= revisions, NEW p \in Positions(path),
           place \in [Servers -> Nat]
    PROVE  Part(Hop(path, p, place), path.chain[p])
  <1>1. \A q \in Peers(path, p) : place[path.chain[q]] \in Nat
    BY PathFacts
  <1>2. Hop(path, p, place).peers \in [Peers(path, p) -> Nat]
    BY <1>1 DEF Hop
  <1>3. IsHop(Hop(path, p, place))
    BY <1>2, HopFields DEF IsHop, Sound
  <1> QED
    BY <1>1, <1>3, HopFields DEF Part

LEMMA PlacedFacts ==
    ASSUME NEW pend \in Pending, Sound(pend.path)
    PROVE  /\ Staged(pend) \subseteq Positions(pend.path)
           /\ Placed(pend) \subseteq Behind(pend.path)
           /\ pend.ready >= LastReady(pend.path) => Placed(pend) = Behind(pend.path)
           /\ 1 \in Staged(pend) <=> pend.entry
  <1>1. pend.ready \in Nat /\ pend.entry \in BOOLEAN
    BY DEF Pending
  <1> DEFINE n == Len(pend.path.chain)
  <1>6. n \in Nat \ {0} /\ (pend.path.guarded => n = 4)
    BY PathFacts
  <1>7. Behind(pend.path) = 2 .. n
    BY <1>6 DEF Behind, Positions
  <1> DEFINE Done == /\ Placed(pend) \subseteq Behind(pend.path)
                     /\ pend.ready >= LastReady(pend.path) => Placed(pend) = Behind(pend.path)
  <1>8. ASSUME pend.path.guarded PROVE Done
    <2>1. Placed(pend) = {2, 3} \cup {p \in {4} : pend.ready > 0} /\ LastReady(pend.path) = 1
      BY <1>8 DEF Placed, LastReady
    <2>2. Behind(pend.path) = 2 .. 4
      BY <1>6, <1>7, <1>8
    <2>3. 2 .. 4 = {2, 3, 4}
      OBVIOUS
    <2> QED
      BY <2>1, <2>2, <2>3, <1>1
  <1>9. ASSUME ~pend.path.guarded PROVE Done
    <2>1. Placed(pend) = {p \in 2 .. n : p >= n - pend.ready} /\ LastReady(pend.path) = n - 2
      BY <1>9 DEF Placed, LastReady
    <2> QED
      BY <2>1, <1>1, <1>6, <1>7
  <1>2. Done
    BY <1>8, <1>9
  <1>4. Staged(pend) \subseteq Positions(pend.path)
    BY <1>2, PathFacts DEF Staged, Behind
  <1>5. 1 \in Staged(pend) <=> pend.entry
    BY <1>1, <1>2 DEF Staged, Behind
  <1> QED
    BY <1>2, <1>4, <1>5

LEMMA RowFacts ==
    ASSUME Shape
    PROVE  /\ Underway => /\ row.on = TRUE /\ Sound(row.pend.path) /\ row.pend \in Pending
                          /\ SoundRow(row, revisions) /\ row.pend.path.rev <= revisions
           /\ row # None => /\ row.on \in BOOLEAN /\ Sound(row.live) /\ SoundRow(row, revisions)
                            /\ row.live.rev <= revisions
           /\ Deploying <=> Underway
           /\ Published => row # None /\ row.on = TRUE /\ Sound(row.live)
           /\ place \in [Servers -> Nat]
  BY DEF Shape, TypeOK, RowsAreSound, SoundRow, IsRow, Underway, Deploying, Published, Provisioning

(* What a server is told *)

LEMMA StagedHops ==
    ASSUME Shape, NEW s, NEW h
    PROVE  h \in StagedAt(s) <=>
             /\ Underway /\ Usable(row.pend.path)
             /\ \E p \in Staged(row.pend) : row.pend.path.chain[p] = s /\ h = Hop(row.pend.path, p, place)
  <1>1. CASE ~Deploying \/ ~Usable(row.pend.path)
    BY <1>1, RowFacts DEF StagedAt
  <1>2. CASE Deploying /\ Usable(row.pend.path)
    <2>1. StagedAt(s) = {Hop(row.pend.path, p, place) :
              p \in {q \in Staged(row.pend) : row.pend.path.chain[q] = s}}
      BY <1>2 DEF StagedAt, Staged
    <2> QED
      BY <2>1, <1>2, RowFacts
  <1> QED
    BY <1>1, <1>2

LEMMA LiveHops ==
    ASSUME Shape, NEW s, NEW h
    PROVE  h \in LiveAt(s) <=>
             /\ Published /\ Usable(row.live)
             /\ \E p \in Positions(row.live) :
                    /\ row.live.chain[p] = s /\ h = Hop(row.live, p, place)
                    /\ p = 1 /\ ~row.live.guarded =>
                            ~\E g \in StagedAt(s) : g.pos = 1 /\ ~g.path.guarded
  <1>1. CASE ~Published \/ ~Usable(row.live)
    BY <1>1 DEF LiveAt, Published, Provisioning
  <1>2. CASE Published /\ Usable(row.live)
    <2>1. LiveAt(s) = {Hop(row.live, p, place) :
              p \in {q \in Positions(row.live) :
                       /\ row.live.chain[q] = s
                       /\ q = 1 /\ ~row.live.guarded =>
                              ~\E g \in StagedAt(s) : g.pos = 1 /\ ~g.path.guarded}}
      BY <1>2 DEF LiveAt, Published, Provisioning
    <2> QED
      BY <2>1, <1>2
  <1> QED
    BY <1>1, <1>2

\* A desired hop belongs to the published path or to what has been placed of the other.
LEMMA DesiredHops ==
    ASSUME Shape, NEW s, NEW h \in Desired(s)
    PROVE  \/ /\ Published /\ h.path = row.live /\ h.pos \in Positions(row.live)
              /\ row.live.chain[h.pos] = s /\ h = Hop(row.live, h.pos, place)
           \/ /\ Underway /\ h.path = row.pend.path /\ h.pos \in Staged(row.pend)
              /\ row.pend.path.chain[h.pos] = s /\ h = Hop(row.pend.path, h.pos, place)
  <1>1. CASE h \in LiveAt(s)
    BY <1>1, LiveHops, HopFields
  <1>2. CASE h \in StagedAt(s)
    BY <1>2, StagedHops, HopFields
  <1> QED
    BY <1>1, <1>2 DEF Desired

LEMMA DesiredParts ==
    ASSUME Shape, NEW s, NEW h \in Desired(s)
    PROVE  Part(h, s)
  <1>1. CASE /\ Published /\ h.path = row.live /\ h.pos \in Positions(row.live)
             /\ row.live.chain[h.pos] = s /\ h = Hop(row.live, h.pos, place)
    <2>1. Part(Hop(row.live, h.pos, place), row.live.chain[h.pos])
      BY <1>1, HopIsPart, RowFacts
    <2> QED
      BY <2>1, <1>1
  <1>2. CASE /\ Underway /\ h.path = row.pend.path /\ h.pos \in Staged(row.pend)
             /\ row.pend.path.chain[h.pos] = s /\ h = Hop(row.pend.path, h.pos, place)
    <2>1. h.pos \in Positions(row.pend.path)
      BY <1>2, RowFacts, PlacedFacts
    <2>2. Part(Hop(row.pend.path, h.pos, place), row.pend.path.chain[h.pos])
      BY <1>2, <2>1, HopIsPart, RowFacts
    <2> QED
      BY <2>2, <1>2
  <1> QED
    BY <1>1, <1>2, DesiredHops

(* What a step does to what the servers have *)

\* One server's copies, after a step and before it.
Flows(s) ==
    /\ held'[s] = held[s] \/ held'[s] = told[s]
    /\ told'[s] = told[s] \/ told'[s] = {} \/ told'[s] = Desired(s)
    /\ noted'[s] = noted[s] \/ noted'[s] = {} \/ noted'[s] = held[s] \/ noted'[s] = told[s]
          \/ (late[s] # None /\ noted'[s] = late[s])
    /\ late'[s] = late[s] \/ late'[s] = None \/ late'[s] = held[s]

Quiet == UNCHANGED <<noted, held, phase, told, late>>

WireStep ==
    \/ \E s \in Servers : Works(s) \/ GiveUp(s) \/ ReportLate(s) \/ Forget(s)
    \/ PanelRestarts

OperatorStep == \E r \in Routes : Create(r) \/ KeepLive(r) \/ Deploy(r) \/ Disable(r)

FleetStep == \E s \in Servers : Move(s) \/ Switch(s)

LEMMA Steps ==
    ASSUME [Next]_vars
    PROVE  \/ OperatorStep \/ Delete \/ Pass \/ FleetStep \/ WireStep
           \/ UNCHANGED vars
  BY DEF Next, OperatorStep, FleetStep, WireStep

LEMMA QuietSteps ==
    ASSUME OperatorStep \/ Delete \/ Pass \/ FleetStep \/ UNCHANGED vars
    PROVE  Quiet
  <1>1. CASE OperatorStep
    BY <1>1 DEF OperatorStep, Create, KeepLive, Deploy, Disable, Quiet, wire
  <1>2. CASE Delete
    BY <1>2 DEF Delete, Quiet, wire
  <1>3. CASE Pass
    BY <1>3 DEF Pass, Look, PlaceNext, SwitchEntry, Promote, Wait, Store, Quiet, wire
  <1>4. CASE FleetStep
    BY <1>4 DEF FleetStep, Move, Switch, Quiet, wire
  <1>5. CASE UNCHANGED vars
    BY <1>5 DEF vars, wire, Quiet
  <1> QED
    BY <1>1, <1>2, <1>3, <1>4, <1>5

LEMMA WireSteps ==
    ASSUME Shape, WireStep
    PROVE  /\ \A s \in Servers : Flows(s)
           /\ row' = row /\ revisions' = revisions /\ place' = place /\ serves' = serves
           /\ switched' = switched
           /\ look' = look \/ look' = None
  <1>0. \A f \in {noted, held, told, late} : DOMAIN f = Servers
    BY DEF Shape, TypeOK
  <1>1. ASSUME NEW s \in Servers, Report(s) PROVE \A t \in Servers : Flows(t)
    BY <1>0, <1>1 DEF Report, Flows
  <1>2. ASSUME NEW s \in Servers, Answer(s) PROVE \A t \in Servers : Flows(t)
    BY <1>0, <1>2 DEF Answer, Flows
  <1>3. ASSUME NEW s \in Servers, Reconcile(s) PROVE \A t \in Servers : Flows(t)
    BY <1>0, <1>3 DEF Reconcile, Flows
  <1>4. ASSUME NEW s \in Servers, Apply(s) PROVE \A t \in Servers : Flows(t)
    BY <1>0, <1>4 DEF Apply, Flows
  <1>5. ASSUME NEW s \in Servers, GiveUp(s) PROVE \A t \in Servers : Flows(t)
    BY <1>0, <1>5 DEF GiveUp, Flows
  <1>6. ASSUME NEW s \in Servers, ReportLate(s) PROVE \A t \in Servers : Flows(t)
    BY <1>0, <1>6 DEF ReportLate, Flows
  <1>7. ASSUME NEW s \in Servers, Forget(s) PROVE \A t \in Servers : Flows(t)
    BY <1>0, <1>7 DEF Forget, Flows
  <1>8. ASSUME PanelRestarts PROVE \A t \in Servers : Flows(t)
    BY <1>0, <1>8 DEF PanelRestarts, Flows
  <1>9. /\ row' = row /\ revisions' = revisions /\ place' = place /\ serves' = serves
        /\ switched' = switched /\ (look' = look \/ look' = None)
    BY DEF WireStep, Works, Report, Answer, Reconcile, Apply, GiveUp, ReportLate, Forget,
           PanelRestarts, panel, fleet
  <1> QED
    BY <1>1, <1>2, <1>3, <1>4, <1>5, <1>6, <1>7, <1>8, <1>9 DEF WireStep, Works

(* The shape is kept *)

LEMMA Grows ==
    ASSUME Shape, [Next]_vars
    PROVE  /\ revisions \in Nat /\ revisions' \in Nat /\ revisions <= revisions'
           /\ trouble' \in Nat /\ revisions' + trouble' <= MaxEvents
           /\ place \in [Servers -> Nat] /\ place' \in [Servers -> Nat]
           /\ \A s \in Servers : place[s] <= place'[s]
  <1> USE RoutesAssumption
  <1>1. /\ revisions \in Nat /\ trouble \in Nat /\ revisions + trouble <= MaxEvents
        /\ place \in [Servers -> Nat]
    BY DEF Shape, TypeOK
  <1>2. CASE OperatorStep
    <2>1. PICK r \in Routes : Create(r) \/ KeepLive(r) \/ Deploy(r) \/ Disable(r)
      BY <1>2 DEF OperatorStep
    <2>2. /\ trouble' = trouble /\ place' = place
          /\ revisions' = revisions \/ (revisions' = revisions + 1 /\ Allowed)
      BY <2>1 DEF Create, KeepLive, Deploy, Disable, fleet
    <2> QED
      BY <1>1, <2>2 DEF Allowed
  <1>3. CASE Delete
    BY <1>1, <1>3 DEF Delete, fleet
  <1>4. CASE Pass
    BY <1>1, <1>4 DEF Pass, Look, PlaceNext, SwitchEntry, Promote, Wait, Store, fleet
  <1>5. CASE FleetStep
    BY <1>1, <1>5 DEF FleetStep, Move, Switch, Trouble, Allowed, panel
  <1>6. CASE WireStep
    BY <1>1, <1>6 DEF WireStep, Works, Report, Answer, Reconcile, Apply, GiveUp, ReportLate, Forget,
           PanelRestarts, panel, fleet, Trouble, Allowed
  <1>7. CASE UNCHANGED vars
    BY <1>1, <1>7 DEF vars, panel, fleet
  <1> QED
    BY <1>2, <1>3, <1>4, <1>5, <1>6, <1>7, Steps

LEMMA PartsStay ==
    ASSUME Shape, [Next]_vars, NEW s, NEW h, Part(h, s)
    PROVE  Part(h, s)'
  <1>1. IsHop(h)' /\ Sound(h.path)' /\ h.path.rev <= revisions'
    <2>1. IsHop(h) /\ Sound(h.path) /\ h.path.rev <= revisions
      BY DEF Part
    <2>2. h.path.rev \in Nat
      BY <2>1, PathFacts
    <2> QED
      BY <2>1, <2>2, Grows DEF IsHop, Sound
  <1>2. (h.path.chain[h.pos] = s)'
    BY DEF Part
  <1>3. ASSUME NEW q \in Peers(h.path, h.pos)
        PROVE  h.peers[q] <= place'[h.path.chain[q]]
    <2>1. h.path.chain[q] \in Servers
      BY PathFacts DEF Part, IsHop
    <2>2. h.peers[q] \in Nat /\ h.peers[q] <= place[h.path.chain[q]]
      BY DEF Part, IsHop
    <2>3. place[h.path.chain[q]] \in Nat /\ place'[h.path.chain[q]] \in Nat
      BY <2>1, Grows
    <2> QED
      BY <2>1, <2>2, <2>3, Grows
  <1> QED
    BY <1>1, <1>2, <1>3 DEF Part

LEMMA HopsStep ==
    ASSUME Shape, [Next]_vars
    PROVE  HopsAreParts'
  <1>1. ASSUME NEW s \in Servers
        PROVE  /\ \A h \in noted[s] \cup held[s] \cup told[s] \cup Desired(s) : Part(h, s)'
               /\ late[s] = None \/ \A h \in late[s] : Part(h, s)'
    BY PartsStay, DesiredParts DEF Shape, HopsAreParts
  <1>2. CASE Quiet
    BY <1>1, <1>2 DEF HopsAreParts, Quiet
  <1>3. CASE WireStep
    <2> SUFFICES ASSUME NEW s \in Servers
                 PROVE  /\ \A h \in noted'[s] \cup held'[s] \cup told'[s] : Part(h, s)'
                        /\ late'[s] = None \/ \A h \in late'[s] : Part(h, s)'
      BY DEF HopsAreParts
    <2>1. Flows(s)
      BY <1>3, WireSteps
    <2> QED
      BY <1>1, <2>1 DEF Flows
  <1> QED
    BY <1>2, <1>3, Steps, QuietSteps

LEMMA RowOf ==
    ASSUME NEW on \in BOOLEAN, NEW l, Sound(l), NEW p, NEW n,
           p = None \/ (p \in Pending /\ on /\ Sound(p.path) /\ p.path.rev <= n),
           l.rev <= n
    PROVE  SoundRow([on |-> on, live |-> l, pend |-> p], n)
  <1> DEFINE r == [on |-> on, live |-> l, pend |-> p]
  <1>1. r.on = on /\ r.live = l /\ r.pend = p
    OBVIOUS
  <1>2. r \in [on : BOOLEAN, live : Path, pend : {r.pend}]
    BY DEF Sound
  <1> QED
    BY <1>1, <1>2 DEF SoundRow, IsRow

LEMMA RowParts ==
    ASSUME NEW n, NEW r, SoundRow(r, n)
    PROVE  /\ r.on \in BOOLEAN /\ Sound(r.live) /\ r.live.rev <= n
           /\ r.pend # None => /\ r.on = TRUE /\ r.pend \in Pending
                              /\ Sound(r.pend.path) /\ r.pend.path.rev <= n
           /\ r = [on |-> r.on, live |-> r.live, pend |-> r.pend]
  BY DEF SoundRow, IsRow

LEMMA RowLasts ==
    ASSUME NEW n \in Nat, NEW m \in Nat, n <= m, NEW r, SoundRow(r, n)
    PROVE  SoundRow(r, m)
  <1>1. r.live.rev \in Nat /\ (r.pend # None => r.pend.path.rev \in Nat)
    BY PathFacts DEF SoundRow
  <1> QED
    BY <1>1 DEF SoundRow

\* What an operator asks for makes a sound row.
LEMMA AskedFor ==
    ASSUME Shape, NEW r \in Routes
    PROVE  /\ \A n \in Nat : Sound(Along(r, n)) /\ Along(r, n).rev = n
           /\ Along(r, 0).chain = r.chain /\ Along(r, 0).guarded = r.guarded
           /\ \A i \in BOOLEAN : /\ Deployment(r, i) \in Pending /\ Deployment(r, i) # None
                                 /\ Deployment(r, i).path = Along(r, revisions + 1)
                                 /\ Deployment(r, i).initial = i /\ Deployment(r, i).entry = FALSE
  <1>1. r \in [chain : Seq(Servers), guarded : BOOLEAN]
    BY RoutesAssumption
  <1>2. [chain |-> r.chain, guarded |-> r.guarded] = r
    BY <1>1
  <1>3. \A n \in Nat : Sound(Along(r, n)) /\ Along(r, n).rev = n /\ Along(r, n) \in Path
    BY <1>1, <1>2 DEF Along, Sound, Path
  <1>4. revisions + 1 \in Nat
    BY DEF Shape, TypeOK
  <1>5. \A i \in BOOLEAN : /\ Deployment(r, i) \in Pending
                           /\ Deployment(r, i).path = Along(r, revisions + 1)
                           /\ Deployment(r, i).initial = i /\ Deployment(r, i).entry = FALSE
    BY <1>3, <1>4 DEF Deployment, Pending
  <1> QED
    BY <1>3, <1>5, RoutesAssumption DEF Along

\* How a pass of the loop brings a row forward.
LEMMA Forward ==
    ASSUME NEW n, NEW r, SoundRow(r, n), r.pend # None
    PROVE  /\ LET new == [r EXCEPT !.pend.ready = @ + 1]
              IN  /\ SoundRow(new, n) /\ new.on = TRUE /\ new.live = r.live /\ new.pend # None
                  /\ new.pend.path = r.pend.path /\ new.pend.initial = r.pend.initial
                  /\ new.pend.ready = r.pend.ready + 1 /\ new.pend.entry = r.pend.entry
           /\ LET new == [r EXCEPT !.pend.entry = TRUE]
              IN  /\ SoundRow(new, n) /\ new.on = TRUE /\ new.live = r.live /\ new.pend # None
                  /\ new.pend.path = r.pend.path /\ new.pend.initial = r.pend.initial
                  /\ new.pend.ready = r.pend.ready /\ new.pend.entry = TRUE
           /\ SoundRow([on |-> TRUE, live |-> r.pend.path, pend |-> None], n)
  <1>1. PICK d \in Pending : d = r.pend
    BY DEF SoundRow, IsRow
  <1>2. r \in [on : BOOLEAN, live : Path, pend : {d}]
    BY <1>1 DEF SoundRow, IsRow
  <1>3. r.on = TRUE /\ Sound(r.live) /\ r.live.rev <= n /\ Sound(d.path) /\ d.path.rev <= n
    BY <1>1 DEF SoundRow, IsRow
  <1>4. [d EXCEPT !.ready = @ + 1] \in Pending
    BY DEF Pending
  <1>5. [d EXCEPT !.entry = TRUE] \in Pending
    BY Zenon DEF Pending
  <1>6. LET new == [r EXCEPT !.pend.ready = @ + 1]
        IN  /\ new \in [on : BOOLEAN, live : Path, pend : {[d EXCEPT !.ready = @ + 1]}]
            /\ new.on = r.on /\ new.live = r.live /\ new.pend = [d EXCEPT !.ready = @ + 1]
    BY <1>2
  <1>7. LET new == [r EXCEPT !.pend.entry = TRUE]
        IN  /\ new \in [on : BOOLEAN, live : Path, pend : {[d EXCEPT !.entry = TRUE]}]
            /\ new.on = r.on /\ new.live = r.live /\ new.pend = [d EXCEPT !.entry = TRUE]
    BY <1>2
  <1>8. LET e == [d EXCEPT !.ready = @ + 1]
        IN  e.path = d.path /\ e.initial = d.initial /\ e.ready = d.ready + 1 /\ e.entry = d.entry
    BY DEF Pending
  <1>9. LET e == [d EXCEPT !.entry = TRUE]
        IN  e.path = d.path /\ e.initial = d.initial /\ e.ready = d.ready /\ e.entry = TRUE
    BY DEF Pending
  <1>10. SoundRow([r EXCEPT !.pend.ready = @ + 1], n)
    BY <1>3, <1>4, <1>6, <1>8 DEF SoundRow, IsRow
  <1>11. SoundRow([r EXCEPT !.pend.entry = TRUE], n)
    BY <1>3, <1>5, <1>7, <1>9 DEF SoundRow, IsRow
  <1>12. SoundRow([on |-> TRUE, live |-> r.pend.path, pend |-> None], n)
    BY <1>1, <1>3, RowOf
  <1>13. [d EXCEPT !.ready = @ + 1] # None /\ [d EXCEPT !.entry = TRUE] # None
    BY <1>4, <1>5, RoutesAssumption
  <1> QED
    BY <1>1, <1>3, <1>6, <1>7, <1>8, <1>9, <1>10, <1>11, <1>12, <1>13

\* What a pass of the loop writes, when the row is still the one it read.
LEMMA Progress ==
    ASSUME Shape, PlaceNext \/ SwitchEntry \/ Promote \/ Wait
    PROVE  \/ row' = row
           \/ /\ Underway /\ row = look.row /\ look # None /\ SoundRow(row', revisions)
              /\ row' # None => row'.on = TRUE
              /\ \/ /\ PlaceNext \/ SwitchEntry
                    /\ row'.live = row.live /\ row'.pend # None
                    /\ row'.pend.path = row.pend.path /\ row'.pend.initial = row.pend.initial
                    /\ PlaceNext => /\ row'.pend.ready = row.pend.ready + 1
                                    /\ row'.pend.entry = row.pend.entry
                    /\ SwitchEntry => /\ row'.pend.ready = row.pend.ready
                                      /\ row'.pend.entry = TRUE
                 \/ /\ Promote
                    /\ row'.live = row.pend.path /\ row'.pend = None
  <1>1. CASE row' = row
    BY <1>1
  <1>2. CASE row' # row
    <2>1. look # None /\ row = look.row
      BY <1>2 DEF PlaceNext, SwitchEntry, Promote, Wait, Store
    <2>2. SoundRow(row, revisions) /\ row.pend # None /\ row # None
      BY <2>1 DEF Shape, RowsAreSound
    <2>3. CASE PlaceNext
      <3>1. row' = [row EXCEPT !.pend.ready = @ + 1] /\ ~SwitchEntry /\ ~Promote
        BY <2>1, <2>3, <1>2 DEF PlaceNext, Store, SwitchEntry, Promote
      <3>2. /\ SoundRow(row', revisions) /\ row'.on = TRUE /\ row'.live = row.live /\ row'.pend # None
            /\ row'.pend.path = row.pend.path /\ row'.pend.initial = row.pend.initial
            /\ row'.pend.ready = row.pend.ready + 1 /\ row'.pend.entry = row.pend.entry
        BY <2>2, <3>1, Forward
      <3> QED
        BY <2>1, <2>2, <2>3, <3>1, <3>2 DEF Underway
    <2>4. CASE SwitchEntry
      <3>1. row' = [row EXCEPT !.pend.entry = TRUE] /\ ~PlaceNext /\ ~Promote
        BY <2>1, <2>4, <1>2 DEF PlaceNext, Store, SwitchEntry, Promote
      <3>2. /\ SoundRow(row', revisions) /\ row'.on = TRUE /\ row'.live = row.live /\ row'.pend # None
            /\ row'.pend.path = row.pend.path /\ row'.pend.initial = row.pend.initial
            /\ row'.pend.ready = row.pend.ready /\ row'.pend.entry = TRUE
        BY <2>2, <3>1, Forward
      <3> QED
        BY <2>1, <2>2, <2>4, <3>1, <3>2 DEF Underway
    <2>5. CASE Promote
      <3>1. row' = [on |-> TRUE, live |-> row.pend.path, pend |-> None]
        BY <2>1, <2>5, <1>2 DEF Promote, Store
      <3> QED
        BY <2>1, <2>2, <2>5, <3>1, Forward DEF Underway
    <2>6. CASE Wait
      BY <2>1, <2>6, <1>2 DEF Wait, Store
    <2> QED
      BY <2>3, <2>4, <2>5, <2>6
  <1> QED
    BY <1>1, <1>2

\* What an operator writes.
LEMMA OrderFacts ==
    ASSUME Shape, NEW r \in Routes
    PROVE  /\ revisions \in Nat /\ (row = None \/ SoundRow(row, revisions))
           /\ Sound(Along(r, 0)) /\ Along(r, 0).rev <= revisions
           /\ Along(r, 0).rev <= revisions + 1
           /\ Sound(Along(r, revisions + 1)) /\ Along(r, revisions + 1).rev <= revisions + 1
  <1>0. revisions \in Nat /\ (row = None \/ SoundRow(row, revisions))
    BY DEF Shape, TypeOK, RowsAreSound
  <1>1. \A n \in Nat : Sound(Along(r, n)) /\ Along(r, n).rev = n
    BY AskedFor
  <1>2. /\ Sound(Along(r, 0)) /\ Along(r, 0).rev <= revisions
        /\ Along(r, 0).rev <= revisions + 1
        /\ Sound(Along(r, revisions + 1)) /\ Along(r, revisions + 1).rev <= revisions + 1
    <2>1. 0 \in Nat /\ revisions + 1 \in Nat /\ 0 <= revisions /\ 0 <= revisions + 1
          /\ revisions + 1 <= revisions + 1
      BY <1>0
    <2> QED
      BY <1>1, <2>1
  <1> QED
    BY <1>0, <1>2

LEMMA CreateWrites ==
    ASSUME Shape, NEW r \in Routes, Create(r)
    PROVE  /\ row = None /\ SoundRow(row', revisions') /\ row'.on = TRUE
           /\ row'.pend # None /\ row'.pend.initial = TRUE /\ row'.pend.entry = FALSE
           /\ row'.pend.path = Along(r, revisions + 1) /\ revisions' = revisions + 1
  <1>1. row = None /\ row' = [on |-> TRUE, live |-> Along(r, 0), pend |-> Deployment(r, TRUE)]
        /\ revisions' = revisions + 1
    BY DEF Create
  <1>3. SoundRow(row', revisions + 1)
    BY <1>1, OrderFacts, AskedFor, RowOf
  <1> QED
    BY <1>1, <1>3, AskedFor

LEMMA KeepLiveWrites ==
    ASSUME Shape, NEW r \in Routes, KeepLive(r)
    PROVE  /\ row # None /\ SoundRow(row', revisions') /\ row'.on = TRUE
           /\ row.on = TRUE /\ ~Provisioning /\ (row.pend # None => ~row.pend.entry)
           /\ row'.live = row.live /\ row'.pend = None
  <1>1. /\ row # None /\ row.on /\ ~Provisioning /\ (row.pend # None => ~row.pend.entry)
        /\ row' = [row EXCEPT !.pend = None] /\ revisions' = revisions
    BY DEF KeepLive, MayChangeTo, IsLive
  <1>2. SoundRow(row, revisions)
    BY OrderFacts, <1>1
  <1>3. row \in [on : BOOLEAN, live : Path, pend : {row.pend}] /\ Sound(row.live) /\ row.live.rev <= revisions
    BY <1>2 DEF SoundRow, IsRow
  <1>4. row' \in [on : BOOLEAN, live : Path, pend : {None}] /\ row'.on = row.on /\ row'.live = row.live
        /\ row'.pend = None
    BY <1>1, <1>3
  <1>5. SoundRow(row', revisions)
    BY <1>3, <1>4 DEF SoundRow, IsRow
  <1> QED
    BY <1>1, <1>3, <1>4, <1>5

LEMMA DeployWrites ==
    ASSUME Shape, NEW r \in Routes, Deploy(r)
    PROVE  /\ row # None /\ SoundRow(row', revisions') /\ row'.on = TRUE
           /\ row'.pend # None /\ row'.pend.entry = FALSE
           /\ row'.pend.path = Along(r, revisions + 1) /\ revisions' = revisions + 1
           /\ row.pend # None => ~row.pend.entry
           /\ row'.pend.initial = (~row.on \/ Provisioning)
           /\ row.on => row'.live = row.live /\ (row.live.guarded => r.guarded)
  <1> DEFINE l == IF row.on THEN row.live ELSE Along(r, 0)
             i == ~row.on \/ Provisioning
  <1>1. /\ row # None /\ row' = [on |-> TRUE, live |-> l, pend |-> Deployment(r, i)]
        /\ revisions' = revisions + 1
        /\ row.pend # None => ~row.pend.entry
        /\ row.on => (row.live.guarded => r.guarded)
    BY DEF Deploy, MayChangeTo
  <1>3. SoundRow(row, revisions + 1)
    BY OrderFacts, <1>1, RowLasts
  <1>4. Sound(l) /\ l.rev <= revisions + 1
    BY OrderFacts, <1>3 DEF SoundRow
  <1>5. i \in BOOLEAN
    OBVIOUS
  <1>6. row.on => l = row.live
    OBVIOUS
  <1> HIDE DEF l
  <1>7. /\ Deployment(r, i) \in Pending /\ Deployment(r, i) # None
        /\ Deployment(r, i).path = Along(r, revisions + 1)
        /\ Deployment(r, i).initial = i /\ Deployment(r, i).entry = FALSE
    BY <1>5, AskedFor
  <1>8. SoundRow(row', revisions + 1)
    BY <1>1, OrderFacts, <1>4, <1>7, RowOf
  <1> QED
    BY <1>1, <1>6, <1>7, <1>8

LEMMA DisableWrites ==
    ASSUME Shape, NEW r \in Routes, Disable(r)
    PROVE  row # None /\ SoundRow(row', revisions') /\ row'.on = FALSE /\ row'.pend = None
  <1>1. row # None /\ row' = [on |-> FALSE, live |-> Along(r, 0), pend |-> None] /\ revisions' = revisions
    BY DEF Disable
  <1> QED
    BY <1>1, OrderFacts, RowOf

LEMMA RowsStep ==
    ASSUME Shape, [Next]_vars
    PROVE  RowsAreSound'
  <1>1. /\ row = None \/ SoundRow(row, revisions')
        /\ \/ look = None
           \/ /\ DOMAIN look = {"row", "place"} /\ look.place \in [Servers -> Nat]
              /\ SoundRow(look.row, revisions') /\ look.row # None /\ look.row.pend # None
    BY Grows, RowLasts DEF Shape, RowsAreSound
  <1>2. CASE OperatorStep
    <2>1. look' = look
      BY <1>2 DEF OperatorStep, Create, KeepLive, Deploy, Disable
    <2>2. SoundRow(row', revisions')
      BY <1>2, CreateWrites, KeepLiveWrites, DeployWrites, DisableWrites DEF OperatorStep
    <2> QED
      BY <1>1, <2>1, <2>2 DEF RowsAreSound
  <1>3. CASE Delete
    BY <1>1, <1>3 DEF Delete, RowsAreSound
  <1>4. CASE Look
    <2>1. row' = row /\ look' = [row |-> row, place |-> place] /\ row # None /\ row.pend # None
      BY <1>4 DEF Look, Deploying
    <2>2. place \in [Servers -> Nat]
      BY Grows
    <2> QED
      BY <1>1, <2>1, <2>2 DEF RowsAreSound
  <1>5. CASE PlaceNext \/ SwitchEntry \/ Promote \/ Wait
    <2>1. look' = None
      BY <1>5 DEF PlaceNext, SwitchEntry, Promote, Wait, Store
    <2>2. revisions' = revisions
      BY <1>5 DEF PlaceNext, SwitchEntry, Promote, Wait, Store
    <2>3. row' = row \/ SoundRow(row', revisions')
      BY <1>5, <2>2, Progress
    <2> QED
      BY <1>1, <2>1, <2>3 DEF RowsAreSound
  <1>6. CASE FleetStep \/ UNCHANGED vars
    BY <1>1, <1>6 DEF FleetStep, Move, Switch, vars, panel, RowsAreSound
  <1>7. CASE WireStep
    BY <1>1, <1>7, WireSteps DEF RowsAreSound
  <1> QED
    BY <1>2, <1>3, <1>4, <1>5, <1>6, <1>7, Steps DEF Pass

LEMMA ScalarsStep ==
    ASSUME Shape, [Next]_vars
    PROVE  /\ serves' \in [Servers -> BOOLEAN] /\ switched' \in BOOLEAN
           /\ phase' \in [Servers -> {"asking", "held", "told"}]
           /\ \A f \in {noted', held', told', late'} : DOMAIN f = Servers
  <1>1. /\ serves \in [Servers -> BOOLEAN] /\ switched \in BOOLEAN
        /\ phase \in [Servers -> {"asking", "held", "told"}]
        /\ \A f \in {noted, held, told, late} : DOMAIN f = Servers
    BY DEF Shape, TypeOK
  <1>2. phase' \in [Servers -> {"asking", "held", "told"}] /\ \A f \in {noted', held', told', late'} : DOMAIN f = Servers
    <2>1. CASE Quiet
      BY <1>1, <2>1 DEF Quiet
    <2>2. ASSUME NEW s \in Servers, Works(s)
          PROVE  <1>2!1 /\ <1>2!2
      BY <1>1, <2>2 DEF Works, Report, Answer, Reconcile, Apply
    <2>3. ASSUME NEW s \in Servers, GiveUp(s) \/ ReportLate(s) \/ Forget(s)
          PROVE  <1>2!1 /\ <1>2!2
      BY <1>1, <2>3 DEF GiveUp, ReportLate, Forget
    <2>4. ASSUME PanelRestarts
          PROVE  <1>2!1 /\ <1>2!2
      BY <1>1, <2>4 DEF PanelRestarts
    <2> QED
      BY <2>1, <2>2, <2>3, <2>4, Steps, QuietSteps DEF WireStep
  <1>3. switched' \in BOOLEAN /\ serves' \in [Servers -> BOOLEAN]
    <2>1. CASE OperatorStep \/ Delete
      BY <1>1, <2>1 DEF OperatorStep, Create, KeepLive, Deploy, Disable, Delete, fleet
    <2>2. CASE Pass
      BY <1>1, <2>2 DEF Pass, Look, PlaceNext, SwitchEntry, Promote, Wait, Store, fleet
    <2>3. ASSUME NEW s \in Servers, Move(s)
          PROVE  <1>3!1 /\ <1>3!2
      BY <1>1, <2>3 DEF Move
    <2>4. ASSUME NEW s \in Servers, Switch(s)
          PROVE  <1>3!1 /\ <1>3!2
      <3>1. PICK b \in BOOLEAN : serves' = [serves EXCEPT ![s] = b]
        <4>1. (~serves[s]) \in BOOLEAN
          BY Zenon
        <4> QED
          BY <2>4, <4>1 DEF Switch
      <3>2. switched' = TRUE
        BY <2>4 DEF Switch
      <3> QED
        BY <1>1, <3>1, <3>2
    <2>5. CASE WireStep
      BY <1>1, <2>5, WireSteps
    <2>6. CASE UNCHANGED vars
      BY <1>1, <2>6 DEF vars, fleet
    <2> QED
      BY <2>1, <2>2, <2>3, <2>4, <2>5, <2>6, Steps DEF FleetStep
  <1> QED
    BY <1>2, <1>3

LEMMA ShapeStep ==
    ASSUME Shape, [Next]_vars
    PROVE  Shape'
  <1>1. RowsAreSound' /\ HopsAreParts'
    BY RowsStep, HopsStep
  <1>2. TypeOK'
    BY <1>1, Grows, ScalarsStep DEF TypeOK, RowsAreSound, HopsAreParts, SoundRow, Part
  <1> QED
    BY <1>1, <1>2 DEF Shape

LEMMA ShapeInit ==
    ASSUME Init
    PROVE  Shape
  <1>1. row = None \/ \E r \in Inherited : row = [on |-> TRUE, live |-> Along(r, 0), pend |-> None]
    BY DEF Init
  <1>2. \A r \in Inherited : Sound(Along(r, 0)) /\ Along(r, 0).rev = 0
    <2> TAKE r \in Inherited
    <2>1. r \in [chain : Seq(Servers), guarded : BOOLEAN]
      BY RoutesAssumption
    <2>2. [chain |-> r.chain, guarded |-> r.guarded] = r
      BY <2>1
    <2> QED
      BY <2>1, <2>2 DEF Along, Sound, Path
  <1>3. row = None \/ SoundRow(row, 0)
    <2>1. ASSUME NEW r \in Inherited, row = [on |-> TRUE, live |-> Along(r, 0), pend |-> None]
          PROVE  SoundRow(row, 0)
      <3>1. Sound(Along(r, 0)) /\ Along(r, 0).rev <= 0
        BY <1>2
      <3> QED
        BY <2>1, <3>1, RowOf
    <2> QED
      BY <1>1, <2>1
  <1>4. RowsAreSound
    BY <1>3 DEF Init, RowsAreSound
  <1>5. /\ place \in [Servers -> Nat] /\ serves \in [Servers -> BOOLEAN] /\ revisions = 0 /\ trouble = 0
        /\ switched = FALSE /\ phase \in [Servers -> {"asking", "held", "told"}]
        /\ \A f \in {noted, held, told, late} : DOMAIN f = Servers
        /\ \A s \in Servers : noted[s] = {} /\ told[s] = {} /\ held[s] = LiveAt(s) /\ late[s] = None
    BY DEF Init
  <1>6. ASSUME NEW s \in Servers, NEW h \in LiveAt(s)
        PROVE  Part(h, s)
    <2>1. row # None /\ Sound(row.live) /\ row.live.rev <= revisions
      BY <1>3, <1>5, <1>6 DEF LiveAt, SoundRow
    <2>2. PICK p \in Positions(row.live) : row.live.chain[p] = s /\ h = Hop(row.live, p, place)
      BY <1>6, <2>1 DEF LiveAt
    <2> QED
      BY <1>5, <2>1, <2>2, HopIsPart
  <1>7. HopsAreParts
    <2> SUFFICES ASSUME NEW s \in Servers
                 PROVE  /\ \A h \in noted[s] \cup held[s] \cup told[s] : Part(h, s)
                        /\ late[s] = None
      BY DEF HopsAreParts
    <2> QED
      BY <1>5, <1>6
  <1>8. TypeOK
    <2>1. \A s \in Servers : /\ \A h \in noted[s] \cup held[s] \cup told[s] : IsHop(h)
                             /\ late[s] = None \/ \A h \in late[s] : IsHop(h)
      BY <1>7 DEF HopsAreParts, Part
    <2>2. row = None \/ IsRow(row)
      BY <1>3 DEF SoundRow
    <2>3. look = None
      BY DEF Init
    <2>4. revisions \in Nat /\ trouble \in Nat /\ revisions + trouble <= MaxEvents
      BY <1>5, RoutesAssumption
    <2>5. switched \in BOOLEAN
      BY <1>5
    <2> QED
      BY <1>5, <2>1, <2>2, <2>3, <2>4, <2>5 DEF TypeOK
  <1> QED
    BY <1>4, <1>7, <1>8 DEF Shape

LEMMA Shaped == Spec => []Shape
  BY ShapeInit, ShapeStep, PTL DEF Spec

\* Every route, deployment, answer and report is well formed, however the operator, the loop,
\* the servers and the losses interleave.
THEOREM TypeCorrect == Spec => []TypeOK
  <1>1. Shape => TypeOK
    BY DEF Shape
  <1> QED
    BY <1>1, Shaped, PTL

(* The ways a row changes *)

Gone == ~Underway' /\ ~Published'

\* A deployment is given up for the published path.
Kept == /\ ~Underway' /\ Published /\ Published' /\ row'.live = row.live
        /\ Underway => ~row.pend.entry

\* A deployment begins, in the place of another or not.
Begun == /\ Underway' /\ ~row'.pend.entry
         /\ row'.pend.path.rev = revisions + 1 /\ revisions' = revisions + 1
         /\ Underway => ~row.pend.entry
         /\ Published' => /\ Published /\ row'.live = row.live
                          /\ row.live.guarded => row'.pend.path.guarded

\* One more hop has been placed, or the entry switched.
Brought == /\ Underway /\ Underway' /\ row = look.row /\ look # None
           /\ row'.pend.path = row.pend.path /\ row'.live = row.live /\ (Published' <=> Published)
           /\ \/ /\ PlaceNext /\ row'.pend.ready = row.pend.ready + 1
                 /\ row'.pend.entry = row.pend.entry
              \/ /\ SwitchEntry /\ row'.pend.ready = row.pend.ready /\ row'.pend.entry = TRUE

Promoted == /\ Underway /\ ~Underway' /\ row = look.row /\ look # None
            /\ Published' => row'.live = row.pend.path
            /\ Promote

LEMMA RowKinds ==
    ASSUME Shape, [Next]_vars
    PROVE  row' = row \/ Gone \/ Kept \/ Begun \/ Brought \/ Promoted
  <1>1. ASSUME NEW r \in Routes, Create(r) PROVE Gone \/ Begun
    <2>1. /\ row = None /\ row'.pend # None /\ row'.pend.initial = TRUE /\ row'.pend.entry = FALSE
          /\ row'.pend.path = Along(r, revisions + 1) /\ revisions' = revisions + 1
      BY <1>1, CreateWrites
    <2>2. Along(r, revisions + 1).rev = revisions + 1
      BY DEF Along
    <2> QED
      BY <2>1, <2>2 DEF Gone, Begun, Underway, Published, Provisioning
  <1>2. ASSUME NEW r \in Routes, KeepLive(r) PROVE Gone \/ Kept
    BY <1>2, KeepLiveWrites DEF Gone, Kept, Underway, Published, Provisioning
  <1>3. ASSUME NEW r \in Routes, Deploy(r) PROVE Gone \/ Begun
    <2>1. /\ row # None /\ row'.on = TRUE /\ row'.pend # None /\ row'.pend.entry = FALSE
          /\ row'.pend.path = Along(r, revisions + 1) /\ revisions' = revisions + 1
          /\ row.pend # None => ~row.pend.entry
          /\ row'.pend.initial = (~row.on \/ Provisioning)
          /\ row.on => row'.live = row.live /\ (row.live.guarded => r.guarded)
      BY <1>3, DeployWrites
    <2>2. /\ Along(r, revisions + 1).rev = revisions + 1 /\ Along(r, revisions + 1).chain = r.chain
          /\ Along(r, revisions + 1).guarded = r.guarded
      BY AskedFor, OrderFacts DEF Along
    <2>3. Published' => Published /\ row.on /\ ~Provisioning
      <3>1. Published' => ~row'.pend.initial
        BY <2>1 DEF Published
      <3>2. ~row'.pend.initial => row.on /\ ~Provisioning
        BY <2>1
      <3>3. row # None /\ row.on /\ ~Provisioning => Published
        BY DEF Published, Provisioning
      <3> QED
        BY <2>1, <3>1, <3>2, <3>3
    <2>4. (row' # None => Underway') /\ (Underway => ~row.pend.entry)
      BY <2>1 DEF Underway
    <2>5. Published' => row'.live = row.live /\ (row.live.guarded => r.guarded)
      BY <2>1, <2>3
    <2>6. row' = None => Gone
      BY DEF Gone, Underway, Published
    <2> QED
      BY <2>1, <2>2, <2>3, <2>4, <2>5, <2>6 DEF Begun
  <1>4. ASSUME NEW r \in Routes, Disable(r) PROVE Gone
    BY <1>4, DisableWrites DEF Gone, Underway, Published
  <1>5. ASSUME Delete PROVE Gone
    BY <1>5 DEF Delete, Gone, Underway, Published
  <1>6. ASSUME PlaceNext \/ SwitchEntry \/ Promote \/ Wait
        PROVE  row' = row \/ Gone \/ Brought \/ Promoted
    <2>1. CASE row' = row
      BY <2>1
    <2>2. CASE row' # row /\ row' = None
      BY <2>2 DEF Gone, Underway, Published
    <2>3. CASE row' # row /\ row' # None
      <3>1. Underway /\ row = look.row /\ look # None /\ row'.on = TRUE /\ row.on = TRUE
        BY <1>6, <2>3, Progress, RowFacts
      <3>2. CASE row'.pend = None /\ Promote /\ row'.live = row.pend.path
        BY <2>3, <3>1, <3>2 DEF Promoted, Underway
      <3>3. CASE /\ PlaceNext \/ SwitchEntry
                 /\ row'.live = row.live /\ row'.pend # None
                 /\ row'.pend.path = row.pend.path /\ row'.pend.initial = row.pend.initial
                 /\ PlaceNext => /\ row'.pend.ready = row.pend.ready + 1
                                 /\ row'.pend.entry = row.pend.entry
                 /\ SwitchEntry => /\ row'.pend.ready = row.pend.ready
                                   /\ row'.pend.entry = TRUE
        <4>1. Underway' /\ (Published' <=> Published)
          BY <2>3, <3>1, <3>3 DEF Underway, Published, Provisioning
        <4> QED
          BY <2>3, <3>1, <3>3, <4>1 DEF Brought
      <3> QED
        BY <1>6, <2>3, <3>2, <3>3, Progress
    <2> QED
      BY <2>1, <2>2, <2>3
  <1>7. CASE Look \/ FleetStep \/ WireStep \/ UNCHANGED vars
    BY <1>7, WireSteps DEF Look, FleetStep, Move, Switch, vars, panel
  <1> QED
    BY <1>1, <1>2, <1>3, <1>4, <1>5, <1>6, <1>7, Steps DEF OperatorStep, Pass

(* One path to a revision *)

LEMMA InPlayIs ==
    ASSUME NEW x
    PROVE  x \in InPlay <=> \/ \E s \in Servers : \E h \in held[s] \cup told[s] : x = h.path
                            \/ Underway /\ x = row.pend.path
                            \/ Published /\ x = row.live
  <1>1. x \in {h.path : h \in Given} <=> \E s \in Servers : \E h \in held[s] \cup told[s] : x = h.path
    BY DEF Given
  <1> QED
    BY <1>1 DEF InPlay

LEMMA Numbered ==
    ASSUME Shape, NEW x \in InPlay
    PROVE  x.rev \in Nat /\ x.rev <= revisions
  <1>1. CASE \E s \in Servers : \E h \in held[s] \cup told[s] : x = h.path
    BY <1>1, PathFacts DEF Shape, HopsAreParts, Part
  <1>2. CASE Underway /\ x = row.pend.path
    BY <1>2, PathFacts, RowFacts
  <1>3. CASE Published /\ x = row.live
    BY <1>3, PathFacts, RowFacts
  <1> QED
    BY <1>1, <1>2, <1>3, InPlayIs

LEMMA InPlayStep ==
    ASSUME Shape, [Next]_vars, NEW x \in InPlay'
    PROVE  x \in InPlay \/ (x.rev = revisions + 1 /\ x = row'.pend.path)
  <1>1. ASSUME NEW s \in Servers, NEW h \in held'[s] \cup told'[s], x = h.path
        PROVE  x \in InPlay
    <2>1. CASE Quiet
      BY <1>1, <2>1, InPlayIs DEF Quiet
    <2>2. CASE WireStep
      <3>1. h \in held[s] \cup told[s] \cup Desired(s)
        BY <1>1, <2>2, WireSteps DEF Flows
      <3>2. ASSUME h \in Desired(s) PROVE x \in InPlay
        BY <1>1, <3>2, DesiredHops, InPlayIs
      <3> QED
        BY <1>1, <3>1, <3>2, InPlayIs
    <2> QED
      BY <2>1, <2>2, Steps, QuietSteps
  <1>2. ASSUME Underway', x = row'.pend.path
        PROVE  x \in InPlay \/ (x.rev = revisions + 1 /\ x = row'.pend.path)
    <2>1. \/ Underway /\ row'.pend.path = row.pend.path
          \/ row'.pend.path.rev = revisions + 1
      BY <1>2, RowKinds DEF Gone, Kept, Begun, Brought, Promoted, Underway
    <2> QED
      BY <1>2, <2>1, InPlayIs
  <1>3. ASSUME Published', x = row'.live
        PROVE  x \in InPlay
    <2>1. \/ Published /\ row'.live = row.live
          \/ Underway /\ row'.live = row.pend.path
      BY <1>3, RowKinds DEF Gone, Kept, Begun, Brought, Promoted, Published, Provisioning
    <2> QED
      BY <1>3, <2>1, InPlayIs
  <1>4. \/ \E s \in Servers : \E h \in held'[s] \cup told'[s] : x = h.path
        \/ Underway' /\ x = row'.pend.path
        \/ Published' /\ x = row'.live
    BY DEF InPlay, Given
  <1> QED
    BY <1>1, <1>2, <1>3, <1>4

LEMMA OnePathStep ==
    ASSUME Shape, OnePathPerRevision, [Next]_vars
    PROVE  OnePathPerRevision'
  <1> SUFFICES ASSUME NEW x \in InPlay', NEW y \in InPlay', x.rev = y.rev
               PROVE  x = y
    BY DEF OnePathPerRevision
  <1>1. revisions \in Nat
    BY Grows
  <1>2. ASSUME NEW z \in InPlay PROVE z.rev # revisions + 1
    BY <1>1, <1>2, Numbered
  <1> QED
    BY <1>2, InPlayStep DEF OnePathPerRevision

LEMMA OnePathInit ==
    ASSUME Init
    PROVE  OnePathPerRevision
  <1>1. ASSUME NEW x \in InPlay PROVE x = row.live
    <2>1. row = None \/ row.pend = None
      BY DEF Init
    <2>2. ASSUME NEW s \in Servers, NEW h \in held[s] \cup told[s] PROVE h.path = row.live
      <3>1. h \in LiveAt(s)
        BY <2>2 DEF Init
      <3> QED
        BY <3>1, HopFields DEF LiveAt
    <2> QED
      BY <2>1, <2>2, InPlayIs DEF Underway
  <1> QED
    BY <1>1 DEF OnePathPerRevision

LEMMA OnePath == Spec => [](Shape /\ OnePathPerRevision)
  <1>1. Init => Shape /\ OnePathPerRevision
    BY ShapeInit, OnePathInit
  <1>2. Shape /\ OnePathPerRevision /\ [Next]_vars => (Shape /\ OnePathPerRevision)'
    BY ShapeStep, OnePathStep
  <1> QED
    BY <1>1, <1>2, PTL DEF Spec

\* Whatever the servers still run of older deployments, hops of the same revision are parts
\* of the same chain: a server that was not heard of for long never joins two chains.
THEOREM ChainsStayApart == Spec => []OneChain
  <1>1. Shape /\ OnePathPerRevision => OneChain
    BY InPlayIs DEF OnePathPerRevision, OneChain
  <1> QED
    BY <1>1, OnePath, PTL

(* The rollout *)

LEMMA CopiesAre ==
    ASSUME NEW s, NEW X
    PROVE  /\ X \in Copies(s) <=> X = held[s] \/ (phase[s] = "told" /\ X = told[s])
           /\ X \in Said(s) <=> X = noted[s] \/ (late[s] # None /\ X = late[s])
  BY DEF Copies, Said

LEMMA CopiesHaveParts ==
    ASSUME Shape, NEW s \in Servers, NEW X \in Copies(s) \cup Said(s), NEW h \in X
    PROVE  Part(h, s) /\ IsHop(h)
  BY CopiesAre DEF Shape, HopsAreParts, Part

LEMMA AllUsable ==
    ASSUME Shape, \A s \in Servers : serves[s], NEW path, Sound(path)
    PROVE  Usable(path)
  <1>1. \A p \in 2 .. (IF path.guarded THEN 3 ELSE Len(path.chain)) : p \in Positions(path)
    BY PathFacts DEF Positions
  <1> QED
    BY <1>1, PathFacts DEF Usable

\* What a server is told next has every part that it should have, and no more.
LEMMA ToldPlaced ==
    ASSUME Shape, Rollout, Underway, NEW s \in Servers
    PROVE  /\ \A h \in Desired(s) : h.path = row.pend.path => h.pos \in Staged(row.pend)
           /\ \A p \in Staged(row.pend) : row.pend.path.chain[p] = s =>
                    Hop(row.pend.path, p, place) \in Desired(s)
           /\ Keeps(held[s], Desired(s))
  <1>1. Usable(row.pend.path)
    BY AllUsable, RowFacts DEF Rollout
  <1>2. ASSUME NEW h \in Desired(s), h.path = row.pend.path
        PROVE  h.pos \in Staged(row.pend)
    <2>1. CASE Published /\ h.path = row.live
      <3>1. row.live.rev < row.pend.path.rev /\ row.live.rev \in Nat
        BY <2>1, RowFacts, PathFacts DEF Rollout, Beside
      <3> QED
        BY <1>2, <2>1, <3>1
    <2> QED
      BY <2>1, DesiredHops
  <1>3. ASSUME NEW p \in Staged(row.pend), row.pend.path.chain[p] = s
        PROVE  Hop(row.pend.path, p, place) \in Desired(s)
    BY <1>1, <1>3, StagedHops DEF Desired
  <1>4. ASSUME NEW g \in held[s], g.path = row.pend.path
        PROVE  \E h \in Desired(s) : /\ h.path = g.path /\ h.pos = g.pos
                                     /\ \A q \in Peers(g.path, g.pos) : g.peers[q] <= h.peers[q]
    <2> DEFINE h == Hop(row.pend.path, g.pos, place)
    <2>1. g.pos \in Staged(row.pend) /\ Part(g, s)
      BY <1>4, CopiesAre, CopiesHaveParts DEF Rollout, OnlyPlaced
    <2>2. h \in Desired(s)
      BY <1>3, <1>4, <2>1 DEF Part
    <2>3. h.path = g.path /\ h.pos = g.pos /\ \A q \in Peers(g.path, g.pos) : g.peers[q] <= h.peers[q]
      BY <1>4, <2>1, HopFields DEF Part
    <2> QED
      BY <2>2, <2>3
  <1> QED
    BY <1>2, <1>3, <1>4 DEF Keeps

LEMMA ToldOnce ==
    ASSUME Shape, NEW s, NEW g \in Desired(s), NEW h \in Desired(s), g.path = h.path, g.pos = h.pos
    PROVE  g = h
  BY DesiredHops

LEMMA ToldLeads ==
    ASSUME Shape, Rollout, Underway, NEW s \in Servers,
           Has(Desired(s), row.pend.path, 1), NEW h \in Desired(s), h.pos = 1
    PROVE  \/ h.path = row.pend.path
           \/ row.pend.path.guarded /\ ~h.path.guarded
           \/ Ahead(h.path)
  <1>1. PICK g \in Desired(s) : g.path = row.pend.path /\ g.pos = 1
    BY DEF Has
  <1>2. CASE h \in StagedAt(s)
    BY <1>2, StagedHops, HopFields
  <1>3. CASE h \in LiveAt(s)
    <2>1. /\ Published /\ h.path = row.live /\ row.live.chain[1] = s
          /\ ~row.live.guarded => ~\E e \in StagedAt(s) : e.pos = 1 /\ ~e.path.guarded
      BY <1>3, LiveHops, HopFields
    <2>2. g \notin LiveAt(s)
      <3>1. row.live.rev < row.pend.path.rev /\ row.live.rev \in Nat
        BY <2>1, RowFacts, PathFacts DEF Rollout, Beside
      <3> QED
        BY <1>1, <3>1, LiveHops, HopFields
    <2>3. g \in StagedAt(s) /\ row.pend.path.chain[1] = s
      BY <1>1, <2>2, StagedHops, HopFields DEF Desired
    <2>4. CASE ~row.live.guarded
      BY <1>1, <2>1, <2>3, <2>4
    <2>5. CASE row.live.guarded
      BY <2>1, <2>5 DEF Ahead
    <2> QED
      BY <2>4, <2>5
  <1> QED
    BY <1>2, <1>3 DEF Desired

LEMMA ToldLive ==
    ASSUME Shape, Rollout, Published, NEW s \in Servers
    PROVE  /\ \A p \in Behind(row.live) : row.live.chain[p] = s => Has(Desired(s), row.live, p)
           /\ row.live.chain[1] = s =>
                /\ \E h \in Desired(s) : h.pos = 1
                /\ \A h \in Desired(s) : h.pos = 1 =>
                        h.path = row.live \/ (Underway /\ h.path = row.pend.path)
  <1>1. Usable(row.live)
    BY AllUsable, RowFacts DEF Rollout
  <1>2. ASSUME NEW p \in Behind(row.live), row.live.chain[p] = s
        PROVE  Has(Desired(s), row.live, p)
    <2>1. Hop(row.live, p, place) \in LiveAt(s)
      BY <1>1, <1>2, LiveHops DEF Behind
    <2> QED
      BY <2>1, HopFields DEF Desired, Has
  <1>3. ASSUME row.live.chain[1] = s
        PROVE  \E h \in Desired(s) : h.pos = 1
    <2>1. CASE ~row.live.guarded /\ \E g \in StagedAt(s) : g.pos = 1 /\ ~g.path.guarded
      BY <2>1 DEF Desired
    <2>2. CASE ~(~row.live.guarded /\ \E g \in StagedAt(s) : g.pos = 1 /\ ~g.path.guarded)
      <3>1. 1 \in Positions(row.live)
        BY RowFacts, PathFacts
      <3>2. Hop(row.live, 1, place) \in LiveAt(s)
        BY <1>1, <1>3, <2>2, <3>1, LiveHops
      <3> QED
        BY <3>2, HopFields DEF Desired
    <2> QED
      BY <2>1, <2>2
  <1>4. \A h \in Desired(s) : h.path = row.live \/ (Underway /\ h.path = row.pend.path)
    BY DesiredHops
  <1> QED
    BY <1>2, <1>3, <1>4

LEMMA WireCopies ==
    ASSUME Shape, WireStep, NEW t \in Servers
    PROVE  /\ Copies(t)' \subseteq Copies(t) \cup {Desired(t)}
           /\ Said(t)' \subseteq Said(t) \cup Copies(t) \cup {{}}
  <1>0. /\ \A f \in {noted, held, told, late} : DOMAIN f = Servers
        /\ phase \in [Servers -> {"asking", "held", "told"}]
    BY DEF Shape, TypeOK
  <1> DEFINE Moves == /\ held'[t] \in Copies(t) \cup {Desired(t)}
                      /\ phase'[t] = "told" => told'[t] \in Copies(t) \cup {Desired(t)}
                      /\ noted'[t] \in Said(t) \cup Copies(t) \cup {{}}
                      /\ late'[t] # None => late'[t] \in Said(t) \cup Copies(t) \cup {{}}
  <1>1. /\ held[t] \in Copies(t) /\ (phase[t] = "told" => told[t] \in Copies(t))
        /\ noted[t] \in Said(t) /\ (late[t] # None => late[t] \in Said(t))
    BY CopiesAre
  <1>2. ASSUME NEW s \in Servers, Report(s) PROVE Moves
    BY <1>0, <1>1, <1>2 DEF Report
  <1>3. ASSUME NEW s \in Servers, Answer(s) PROVE Moves
    BY <1>0, <1>1, <1>3 DEF Answer
  <1>4. ASSUME NEW s \in Servers, Reconcile(s) PROVE Moves
    BY <1>0, <1>1, <1>4 DEF Reconcile
  <1>5. ASSUME NEW s \in Servers, Apply(s) PROVE Moves
    BY <1>0, <1>1, <1>5 DEF Apply
  <1>6. ASSUME NEW s \in Servers, GiveUp(s) PROVE Moves
    BY <1>0, <1>1, <1>6 DEF GiveUp
  <1>7. ASSUME NEW s \in Servers, ReportLate(s) PROVE Moves
    BY <1>0, <1>1, <1>7 DEF ReportLate
  <1>8. ASSUME NEW s \in Servers, Forget(s) PROVE Moves
    BY <1>0, <1>1, <1>8 DEF Forget
  <1>9. ASSUME PanelRestarts PROVE Moves
    BY <1>0, <1>1, <1>9 DEF PanelRestarts
  <1>10. Moves
    BY <1>2, <1>3, <1>4, <1>5, <1>6, <1>7, <1>8, <1>9 DEF WireStep, Works
  <1> QED
    BY <1>10 DEF Copies, Said

LEMMA KeepsItself ==
    ASSUME Shape, NEW s \in Servers, NEW X \in Copies(s) \cup Said(s)
    PROVE  Keeps(X, X)
  <1>1. ASSUME NEW g \in X, NEW q \in Peers(g.path, g.pos)
        PROVE  g.peers[q] <= g.peers[q]
    BY CopiesHaveParts DEF IsHop
  <1> QED
    BY <1>1 DEF Keeps

LEMMA KeepsOn ==
    ASSUME Shape, NEW s \in Servers, NEW X \in Copies(s) \cup Said(s),
           NEW Y \in Copies(s) \cup Said(s), NEW Z \in Copies(s) \cup Said(s),
           Keeps(X, Y), Keeps(Y, Z)
    PROVE  Keeps(X, Z)
  <1> SUFFICES ASSUME NEW g \in X, g.path = row.pend.path
               PROVE  \E h \in Z : /\ h.path = g.path /\ h.pos = g.pos
                                   /\ \A q \in Peers(g.path, g.pos) : g.peers[q] <= h.peers[q]
    BY DEF Keeps
  <1>1. PICK y \in Y : /\ y.path = g.path /\ y.pos = g.pos
                      /\ \A q \in Peers(g.path, g.pos) : g.peers[q] <= y.peers[q]
    BY DEF Keeps
  <1>2. PICK z \in Z : /\ z.path = y.path /\ z.pos = y.pos
                      /\ \A q \in Peers(y.path, y.pos) : y.peers[q] <= z.peers[q]
    BY <1>1 DEF Keeps
  <1>3. ASSUME NEW q \in Peers(g.path, g.pos) PROVE g.peers[q] <= z.peers[q]
    <2>1. g.peers[q] \in Nat /\ y.peers[q] \in Nat /\ z.peers[q] \in Nat
      BY <1>1, <1>2, CopiesHaveParts DEF IsHop
    <2> QED
      BY <1>1, <1>2, <2>1
  <1> QED
    BY <1>1, <1>2, <1>3

LEMMA WireKeeps ==
    ASSUME Shape, Rollout, WireStep
    PROVE  NothingIsTakenBack'
  <1>0. /\ \A f \in {noted, held, told, late} : DOMAIN f = Servers
        /\ phase \in [Servers -> {"asking", "held", "told"}]
    BY DEF Shape, TypeOK
  <1>1. row' = row /\ (Underway' <=> Underway)
    BY WireSteps DEF Underway
  <1> DEFINE K(X, Y) == \A g \in X : g.path = row.pend.path =>
                          \E h \in Y : /\ h.path = g.path /\ h.pos = g.pos
                                       /\ \A q \in Peers(g.path, g.pos) : g.peers[q] <= h.peers[q]
             Good(t) == /\ K(noted'[t], held'[t])
                        /\ late'[t] # None => K(late'[t], held'[t])
                        /\ phase'[t] = "told" => K(held'[t], told'[t])
  <1> SUFFICES ASSUME Underway, NEW t \in Servers
               PROVE  Good(t)
    <2>1. ASSUME Underway, NEW t \in Servers, NEW X \in Said(t)', Good(t)
          PROVE  K(X, held'[t])
      <3>1. X = noted'[t] \/ (late'[t] # None /\ X = late'[t])
        BY <2>1 DEF Said
      <3> HIDE DEF K
      <3> QED
        BY <2>1, <3>1
    <2> QED
      BY <1>1, <2>1 DEF NothingIsTakenBack, Keeps
  <1>3. /\ K(noted[t], held[t]) /\ (late[t] # None => K(late[t], held[t]))
        /\ phase[t] = "told" => K(held[t], told[t])
    <2>1. noted[t] \in Said(t) /\ (late[t] # None => late[t] \in Said(t))
      BY CopiesAre
    <2>2. /\ Keeps(noted[t], held[t]) /\ (late[t] # None => Keeps(late[t], held[t]))
          /\ phase[t] = "told" => Keeps(held[t], told[t])
      BY <2>1 DEF Rollout, NothingIsTakenBack
    <2> QED
      BY <2>2 DEF Keeps
  <1>4. K(held[t], held[t]) /\ K({}, held[t])
    BY KeepsItself, CopiesAre DEF Keeps
  <1>5. K(held[t], Desired(t))
    BY <1>1, ToldPlaced DEF Keeps
  <1>6. phase[t] = "told" => /\ K(noted[t], told[t]) /\ (late[t] # None => K(late[t], told[t]))
                             /\ K(told[t], told[t])
    <2> SUFFICES ASSUME phase[t] = "told" 
                 PROVE  /\ Keeps(noted[t], told[t]) /\ (late[t] # None => Keeps(late[t], told[t]))
                        /\ Keeps(told[t], told[t])
      BY DEF Keeps
    <2>1. /\ held[t] \in Copies(t) /\ told[t] \in Copies(t)
          /\ noted[t] \in Said(t) /\ (late[t] # None => late[t] \in Said(t))
      BY CopiesAre
    <2>2. /\ Keeps(noted[t], held[t]) /\ (late[t] # None => Keeps(late[t], held[t]))
          /\ Keeps(held[t], told[t])
      BY <1>1, <2>1 DEF Rollout, NothingIsTakenBack
    <2> QED
      BY <2>1, <2>2, KeepsItself, KeepsOn
  <1> HIDE DEF K
  <1>7. ASSUME NEW s \in Servers, Report(s) PROVE Good(t)
    BY <1>0, <1>3, <1>4, <1>7 DEF Report
  <1>8. ASSUME NEW s \in Servers, Answer(s) PROVE Good(t)
    BY <1>0, <1>3, <1>5, <1>8 DEF Answer
  <1>9. ASSUME NEW s \in Servers, Reconcile(s) PROVE Good(t)
    BY <1>0, <1>3, <1>5, <1>9 DEF Reconcile
  <1>10. ASSUME NEW s \in Servers, Apply(s) PROVE Good(t)
    BY <1>0, <1>3, <1>6, <1>10 DEF Apply
  <1>11. ASSUME NEW s \in Servers, GiveUp(s) PROVE Good(t)
    BY <1>0, <1>3, <1>4, <1>11 DEF GiveUp
  <1>12. ASSUME NEW s \in Servers, ReportLate(s) PROVE Good(t)
    BY <1>0, <1>3, <1>12 DEF ReportLate
  <1>13. ASSUME NEW s \in Servers, Forget(s) PROVE Good(t)
    BY <1>0, <1>3, <1>4, <1>13 DEF Forget
  <1>14. ASSUME PanelRestarts PROVE Good(t)
    BY <1>0, <1>3, <1>4, <1>14 DEF PanelRestarts
  <1> QED
    BY <1>7, <1>8, <1>9, <1>10, <1>11, <1>12, <1>13, <1>14 DEF WireStep, Works

LEMMA WireRollout ==
    ASSUME Shape, Rollout, WireStep
    PROVE  Rollout'
  <1>1. row' = row /\ serves' = serves
    BY WireSteps
  <1>2. (Underway' <=> Underway) /\ (Published' <=> Published)
    BY <1>1 DEF Underway, Published, Provisioning
  <1>3. \A s \in Servers : serves'[s]
    BY <1>1 DEF Rollout
  <1>4. OnlyPlaced'
    <2> SUFFICES ASSUME Underway, NEW s \in Servers, NEW X \in Copies(s)' \cup Said(s)', NEW h \in X,
                        h.path = row.pend.path
                 PROVE  h.pos \in Staged(row.pend)
      BY <1>1, <1>2 DEF OnlyPlaced
    <2>1. X \in Copies(s) \cup Said(s) \/ X = Desired(s)
      BY WireCopies
    <2> QED
      BY <2>1, ToldPlaced DEF Rollout, OnlyPlaced
  <1>5. OneHopEach'
    <2> SUFFICES ASSUME NEW s \in Servers, NEW X \in Copies(s)', NEW g \in X, NEW h \in X,
                        g.path = h.path, g.pos = h.pos
                 PROVE  g = h
      BY DEF OneHopEach
    <2>1. X \in Copies(s) \/ X = Desired(s)
      BY WireCopies
    <2> QED
      BY <2>1, ToldOnce DEF Rollout, OneHopEach
  <1>6. EntryIsLast'
    <2> SUFFICES ASSUME Underway, row.pend.entry
                 PROVE  /\ row.pend.ready >= LastReady(row.pend.path)
                        /\ \A p \in Behind(row.pend.path) : \A X \in Copies(row.pend.path.chain[p])' :
                                Has(X, row.pend.path, p)
      BY <1>1, <1>2 DEF EntryIsLast
    <2>1. row.pend.ready >= LastReady(row.pend.path)
      BY DEF Rollout, EntryIsLast
    <2>2. ASSUME NEW p \in Behind(row.pend.path), NEW X \in Copies(row.pend.path.chain[p])'
          PROVE  Has(X, row.pend.path, p)
      <3>1. row.pend.path.chain[p] \in Servers
        BY <2>2, RowFacts, PathFacts DEF Behind
      <3>2. PICK s \in Servers : s = row.pend.path.chain[p]
        BY <3>1
      <3>3. X \in Copies(s)'
        BY <2>2, <3>2, <1>1 DEF Copies
      <3>4. X \in Copies(s) \/ X = Desired(s)
        BY <3>3, WireCopies
      <3>5. p \in Staged(row.pend)
        BY <2>1, <2>2, RowFacts, PlacedFacts DEF Staged
      <3>6. Hop(row.pend.path, p, place) \in Desired(s)
        BY <3>2, <3>5, ToldPlaced
      <3>7. Has(Desired(s), row.pend.path, p)
        BY <3>6, HopFields DEF Has
      <3> QED
        BY <2>2, <3>2, <3>4, <3>7 DEF Rollout, EntryIsLast
    <2> QED
      BY <2>1, <2>2
  <1>7. SwitchedLeads'
    <2> SUFFICES ASSUME Underway, NEW s \in Servers, NEW X \in Copies(s)', Has(X, row.pend.path, 1),
                        NEW h \in X, h.pos = 1
                 PROVE  \/ h.path = row.pend.path
                        \/ row.pend.path.guarded /\ ~h.path.guarded
                        \/ Ahead(h.path)
      BY <1>1, <1>2 DEF SwitchedLeads, Ahead
    <2>1. X \in Copies(s) \/ X = Desired(s)
      BY WireCopies
    <2> QED
      BY <2>1, ToldLeads DEF Rollout, SwitchedLeads
  <1>8. LiveIsThere'
    <2> SUFFICES ASSUME Published, NEW p \in Behind(row.live), NEW X \in Copies(row.live.chain[p])'
                 PROVE  Has(X, row.live, p)
      BY <1>1, <1>2 DEF LiveIsThere
    <2>1. PICK s \in Servers : s = row.live.chain[p]
      BY RowFacts, PathFacts DEF Behind
    <2>2. X \in Copies(s)'
      BY <2>1, <1>1 DEF Copies
    <2>3. X \in Copies(s) \/ X = Desired(s)
      BY <2>2, WireCopies
    <2> QED
      BY <2>1, <2>3, ToldLive DEF Rollout, LiveIsThere
  <1>9. EntryLeads'
    <2> SUFFICES ASSUME Published, NEW X \in Copies(row.live.chain[1])'
                 PROVE  /\ \E h \in X : h.pos = 1
                        /\ \A h \in X : h.pos = 1 =>
                              \/ h.path = row.live
                              \/ Underway /\ h.path = row.pend.path
                              \/ ~h.path.guarded /\ \E g \in X : g.pos = 1 /\ g.path.guarded
                              \/ Overtaken(h, X)
      BY <1>1, <1>2 DEF EntryLeads, Overtaken
    <2>1. PICK s \in Servers : s = row.live.chain[1]
      BY RowFacts, PathFacts
    <2>2. X \in Copies(s)'
      BY <2>1, <1>1 DEF Copies
    <2>3. X \in Copies(s) \/ X = Desired(s)
      BY <2>2, WireCopies
    <2>4. CASE X = Desired(s)
      BY <2>1, <2>4, ToldLive
    <2> QED
      BY <2>1, <2>3, <2>4 DEF Rollout, EntryLeads
  <1>10. Beside'
    BY <1>1, <1>2 DEF Rollout, Beside
  <1> QED
    BY <1>3, <1>4, <1>5, <1>6, <1>7, <1>8, <1>9, <1>10, WireKeeps DEF Rollout

(* Steps that change only the row *)

\* Before the entry is switched nobody has a link to the deployment.
LEMMA NotSwitchedYet ==
    ASSUME Shape, OnlyPlaced, Underway, ~row.pend.entry,
           NEW s \in Servers, NEW X \in Copies(s), NEW h \in X, h.path = row.pend.path
    PROVE  h.pos # 1
  BY RowFacts, PlacedFacts DEF OnlyPlaced

LEMMA QuietCopies ==
    ASSUME Quiet
    PROVE  \A s : Copies(s)' = Copies(s) /\ Said(s)' = Said(s)
  BY DEF Quiet, Copies, Said

\* The published path and its entry are as they were.
LEMMA PublishedStays ==
    ASSUME Shape, Rollout, Quiet, Published, row'.live = row.live,
           \/ Underway => ~row.pend.entry
           \/ Underway /\ Underway' /\ row'.pend.path = row.pend.path
    PROVE  LiveIsThere' /\ EntryLeads'
  <1>1. LiveIsThere'
    BY QuietCopies DEF LiveIsThere, Rollout
  <1>2. EntryLeads'
    <2> SUFFICES ASSUME NEW X \in Copies(row.live.chain[1])
                 PROVE  /\ \E h \in X : h.pos = 1
                        /\ \A h \in X : h.pos = 1 =>
                              \/ h.path = row.live
                              \/ Underway' /\ h.path = row'.pend.path
                              \/ ~h.path.guarded /\ \E g \in X : g.pos = 1 /\ g.path.guarded
                              \/ Overtaken(h, X)
      BY QuietCopies DEF EntryLeads, Overtaken
    <2>1. /\ \E h \in X : h.pos = 1
          /\ \A h \in X : h.pos = 1 =>
                \/ h.path = row.live
                \/ Underway /\ h.path = row.pend.path
                \/ ~h.path.guarded /\ \E g \in X : g.pos = 1 /\ g.path.guarded
                \/ Overtaken(h, X)
      BY DEF Rollout, EntryLeads
    <2>2. CASE Underway => ~row.pend.entry
      <3>1. row.live.chain[1] \in Servers
        BY RowFacts, PathFacts
      <3>2. \A h \in X : h.pos = 1 => ~(Underway /\ h.path = row.pend.path)
        BY <2>2, <3>1, NotSwitchedYet DEF Rollout
      <3> QED
        BY <2>1, <3>2
    <2>3. CASE Underway /\ Underway' /\ row'.pend.path = row.pend.path
      BY <2>1, <2>3
    <2> QED
      BY <2>2, <2>3
  <1> QED
    BY <1>1, <1>2

LEMMA GoneRollout ==
    ASSUME Rollout, Quiet, serves' = serves, Gone
    PROVE  Rollout'
  BY QuietCopies DEF Rollout, Gone, OnlyPlaced, NothingIsTakenBack, OneHopEach, EntryIsLast,
     SwitchedLeads, LiveIsThere, EntryLeads, Beside

LEMMA KeptRollout ==
    ASSUME Shape, Rollout, Quiet, serves' = serves, Kept
    PROVE  Rollout'
  <1>1. LiveIsThere' /\ EntryLeads'
    BY PublishedStays DEF Kept
  <1> QED
    BY <1>1, QuietCopies DEF Rollout, Kept, OnlyPlaced, NothingIsTakenBack, OneHopEach, EntryIsLast,
       SwitchedLeads, Beside

LEMMA BegunRollout ==
    ASSUME Shape, Rollout, Quiet, serves' = serves, Begun
    PROVE  Rollout'
  <1>1. ASSUME NEW s \in Servers, NEW X \in Copies(s) \cup Said(s), NEW h \in X
        PROVE  h.path # row'.pend.path
    <2>1. h.path.rev \in Nat /\ h.path.rev <= revisions /\ revisions \in Nat
      BY CopiesHaveParts, PathFacts DEF Part, Shape, TypeOK
    <2> QED
      BY <2>1 DEF Begun
  <1>2. OnlyPlaced'
    BY <1>1, QuietCopies DEF OnlyPlaced
  <1>3. NothingIsTakenBack'
    <2> SUFFICES ASSUME NEW s \in Servers, NEW X \in Copies(s) \cup Said(s), NEW Y
                 PROVE  \A g \in X : g.path # row'.pend.path
      <3>1. \A s \in Servers : held[s] \in Copies(s) /\ held' = held /\ phase' = phase /\ told' = told
        BY CopiesAre DEF Quiet
      <3> QED
        BY <3>1, QuietCopies DEF NothingIsTakenBack, Keeps
    <2> QED
      BY <1>1
  <1>4. EntryIsLast' /\ SwitchedLeads'
    <2>1. EntryIsLast'
      BY DEF EntryIsLast, Begun
    <2>2. ASSUME NEW s \in Servers, NEW X \in Copies(s)
          PROVE  ~Has(X, row'.pend.path, 1)
      BY <1>1, <2>2 DEF Has
    <2>3. SwitchedLeads'
      <3> SUFFICES ASSUME NEW s \in Servers, NEW X \in Copies(s), Has(X, row'.pend.path, 1)
                   PROVE  FALSE
        BY QuietCopies DEF SwitchedLeads, Has
      <3> QED
        BY <2>2
    <2> QED
      BY <2>1, <2>3
  <1>5. LiveIsThere' /\ EntryLeads' /\ Beside'
    <2>1. CASE ~Published'
      BY <2>1 DEF LiveIsThere, EntryLeads, Beside
    <2>2. CASE Published'
      <3>1. LiveIsThere' /\ EntryLeads'
        BY <2>2, PublishedStays DEF Begun
      <3>2. row.live.rev \in Nat /\ row.live.rev <= revisions /\ revisions \in Nat
        BY <2>2, RowFacts, PathFacts DEF Begun, Shape, TypeOK
      <3>3. Beside'
        BY <2>2, <3>2 DEF Begun, Beside
      <3> QED
        BY <3>1, <3>3
    <2> QED
      BY <2>1, <2>2
  <1>6. OneHopEach'
    BY QuietCopies DEF Rollout, OneHopEach
  <1> QED
    BY <1>2, <1>3, <1>4, <1>5, <1>6 DEF Rollout

\* What the loop found confirmed is there, and stays.
LEMMA WhatRunsIsThere ==
    ASSUME Shape, Rollout, Underway, look # None, row = look.row,
           NEW ps, Runs(ps), NEW p \in ps, p \in Positions(row.pend.path)
    PROVE  \A X \in Copies(row.pend.path.chain[p]) :
             \E h \in X : /\ h.path = row.pend.path /\ h.pos = p
                          /\ \A q \in Peers(row.pend.path, p) : look.place[row.pend.path.chain[q]] <= h.peers[q]
  <1>1. PICK s \in Servers : s = row.pend.path.chain[p]
    BY RowFacts, PathFacts
  <1> DEFINE g == Hop(row.pend.path, p, look.place)
  <1>2. g \in noted[s] /\ noted[s] \in Said(s) /\ held[s] \in Copies(s)
    BY <1>1, CopiesAre DEF Runs
  <1>3. /\ g.path = row.pend.path /\ g.pos = p
        /\ \A q \in Peers(row.pend.path, p) : g.peers[q] = look.place[row.pend.path.chain[q]]
    BY HopFields
  <1> HIDE DEF g
  <1>4. ASSUME NEW X \in Copies(s)
        PROVE  Keeps(noted[s], X)
    <2>1. Keeps(noted[s], held[s])
      BY <1>2 DEF Rollout, NothingIsTakenBack
    <2>2. CASE X = held[s]
      BY <2>1, <2>2
    <2>3. CASE phase[s] = "told" /\ X = told[s]
      <3>1. Keeps(held[s], X)
        BY <2>3 DEF Rollout, NothingIsTakenBack
      <3> QED
        BY <1>2, <1>4, <2>1, <3>1, KeepsOn
    <2> QED
      BY <1>4, <2>2, <2>3, CopiesAre
  <1>5. ASSUME NEW X \in Copies(s)
        PROVE  \E h \in X : /\ h.path = row.pend.path /\ h.pos = p
                            /\ \A q \in Peers(row.pend.path, p) : look.place[row.pend.path.chain[q]] <= h.peers[q]
    <2>1. PICK h \in X : /\ h.path = g.path /\ h.pos = g.pos
                        /\ \A q \in Peers(g.path, g.pos) : g.peers[q] <= h.peers[q]
      BY <1>2, <1>3, <1>4, <1>5 DEF Keeps
    <2> QED
      BY <1>3, <2>1
  <1> QED
    BY <1>1, <1>5

LEMMA BroughtRollout ==
    ASSUME Shape, Rollout, Quiet, serves' = serves, Brought, Shape'
    PROVE  Rollout'
  <1>1. Underway /\ Underway' /\ row'.pend.path = row.pend.path /\ row'.live = row.live
    BY DEF Brought
  <1>2. /\ row.pend \in Pending /\ row'.pend \in Pending /\ Sound(row.pend.path)
        /\ row.pend.ready \in Nat /\ row.pend.entry \in BOOLEAN
        /\ row.pend.ready <= row'.pend.ready /\ (row.pend.entry => row'.pend.entry)
    <2>1. row.pend \in Pending /\ Sound(row.pend.path)
      BY <1>1, RowFacts
    <2>2. row'.pend \in Pending
      BY <1>1 DEF Shape, RowsAreSound, SoundRow, IsRow, Underway
    <2>3. row.pend.ready \in Nat /\ row.pend.entry \in BOOLEAN
      BY <2>1 DEF Pending
    <2>4. row.pend.ready <= row'.pend.ready
      BY <2>3 DEF Brought
    <2>5. row.pend.entry => row'.pend.entry
      BY DEF Brought
    <2> QED
      BY <2>1, <2>2, <2>3, <2>4, <2>5
  <1>3. Staged(row.pend) \subseteq Staged(row'.pend)
    <2>1. Placed(row.pend) \subseteq Placed(row'.pend)
      <3>1. row'.pend.ready \in Nat
        BY <1>2 DEF Pending
      <3>2. CASE row.pend.path.guarded
        BY <1>1, <1>2, <3>1, <3>2 DEF Placed
      <3>3. CASE ~row.pend.path.guarded
        <4>1. Len(row.pend.path.chain) \in Nat
          BY <1>2, PathFacts
        <4> DEFINE n == Len(row.pend.path.chain)
        <4>2. /\ Placed(row.pend) = {p \in 2 .. n : p >= n - row.pend.ready}
              /\ Placed(row'.pend) = {p \in 2 .. n : p >= n - row'.pend.ready}
          BY <1>1, <3>3 DEF Placed
        <4>3. ASSUME NEW p \in 2 .. n, p >= n - row.pend.ready
              PROVE  p >= n - row'.pend.ready
          <5>1. n \in Nat /\ p \in Nat /\ row.pend.ready \in Nat /\ row.pend.ready <= row'.pend.ready
            BY <1>2, <4>1
          <5> QED
            BY <3>1, <4>3, <5>1
        <4> HIDE DEF n
        <4> QED
          BY <4>2, <4>3
      <3> QED
        BY <3>2, <3>3
    <2> QED
      BY <1>2, <2>1 DEF Staged
  <1>4. OnlyPlaced'
    BY <1>1, <1>3, QuietCopies DEF OnlyPlaced, Rollout
  <1>5. NothingIsTakenBack'
    BY <1>1, QuietCopies DEF NothingIsTakenBack, Keeps, Rollout, Quiet
  <1>6. EntryIsLast'
    <2>1. CASE PlaceNext /\ row'.pend.entry = row.pend.entry
      <3>1. ~(row.pend.ready >= LastReady(row.pend.path))
        BY <2>1 DEF PlaceNext, AllPlaced, Brought
      <3>2. ~row.pend.entry
        BY <1>1, <3>1 DEF Rollout, EntryIsLast
      <3> QED
        BY <2>1, <3>2 DEF EntryIsLast
    <2>2. CASE SwitchEntry /\ row'.pend.ready = row.pend.ready
      <3>1. row = look.row /\ look # None
        BY DEF Brought
      <3>2. row.pend.ready >= LastReady(row.pend.path) /\ Runs(Placed(row.pend))
        BY <2>2, <3>1 DEF SwitchEntry, AllPlaced, Confirmed
      <3>3. Placed(row.pend) = Behind(row.pend.path)
        BY <1>2, <3>2, PlacedFacts
      <3>4. ASSUME NEW p \in Behind(row.pend.path), NEW X \in Copies(row.pend.path.chain[p])
            PROVE  Has(X, row.pend.path, p)
        BY <1>1, <3>1, <3>2, <3>3, <3>4, WhatRunsIsThere DEF Has, Behind
      <3> QED
        BY <1>1, <2>2, <3>2, <3>4, QuietCopies DEF EntryIsLast
    <2> QED
      BY <2>1, <2>2 DEF Brought
  <1>7. SwitchedLeads'
    BY <1>1, QuietCopies DEF SwitchedLeads, Rollout, Ahead, Brought
  <1>8. LiveIsThere' /\ EntryLeads' /\ Beside'
    <2>1. CASE ~Published'
      BY <2>1 DEF LiveIsThere, EntryLeads, Beside
    <2>2. CASE Published'
      <3>1. Published
        BY <2>2 DEF Brought
      <3>2. LiveIsThere' /\ EntryLeads'
        BY <1>1, <3>1, PublishedStays
      <3>3. Beside'
        BY <1>1, <3>1 DEF Beside, Rollout
      <3> QED
        BY <3>2, <3>3
    <2> QED
      BY <2>1, <2>2
  <1>9. OneHopEach' /\ \A s \in Servers : serves'[s]
    BY QuietCopies DEF Rollout, OneHopEach
  <1> QED
    BY <1>4, <1>5, <1>6, <1>7, <1>8, <1>9 DEF Rollout

LEMMA PromotedRollout ==
    ASSUME Shape, Rollout, Quiet, serves' = serves, Promoted
    PROVE  Rollout'
  <1>1. /\ Underway /\ ~Underway' /\ row = look.row /\ look # None
        /\ Published' => row'.live = row.pend.path
        /\ row.pend.entry /\ Runs({1})
    BY DEF Promoted, Promote
  <1>2. LiveIsThere'
    BY <1>1, QuietCopies DEF LiveIsThere, Rollout, EntryIsLast
  <1>3. EntryLeads'
    <2> SUFFICES ASSUME Published', NEW X \in Copies(row.pend.path.chain[1])
                 PROVE  /\ \E h \in X : h.pos = 1
                        /\ \A h \in X : h.pos = 1 =>
                              \/ h.path = row.pend.path
                              \/ ~h.path.guarded /\ \E g \in X : g.pos = 1 /\ g.path.guarded
                              \/ Overtaken(h, X)'
      BY <1>1, QuietCopies DEF EntryLeads
    <2>1. row.pend.path.chain[1] \in Servers /\ 1 \in Positions(row.pend.path)
      BY <1>1, RowFacts, PathFacts
    <2>2. Has(X, row.pend.path, 1)
      BY <1>1, <2>1, WhatRunsIsThere DEF Has
    <2>3. \A h \in X : h.pos = 1 =>
              \/ h.path = row.pend.path
              \/ row.pend.path.guarded /\ ~h.path.guarded
              \/ Ahead(h.path)
      BY <1>1, <2>1, <2>2 DEF Rollout, SwitchedLeads
    <2>4. ASSUME NEW h \in X, h.pos = 1, Ahead(h.path)
          PROVE  Overtaken(h, X)'
      <3>1. /\ h.path.guarded /\ row.pend.path.guarded /\ h.path.rev < row.pend.path.rev
            /\ \E g \in X : g.pos = 1 /\ g.path = row.pend.path
        BY <1>1, <2>2, <2>4 DEF Ahead, Rollout, Beside, Has
      <3>2. \A g \in X : g.pos = 1 /\ g.path.guarded => g.path \in {h.path, row.pend.path}
        BY <2>3, <2>4 DEF Ahead
      <3> QED
        BY <1>1, <3>1, <3>2 DEF Overtaken
    <2> QED
      BY <2>2, <2>3, <2>4 DEF Has
  <1> QED
    BY <1>1, <1>2, <1>3, QuietCopies DEF Rollout, OnlyPlaced, NothingIsTakenBack, OneHopEach,
       EntryIsLast, SwitchedLeads, Beside

LEMMA RolloutStep ==
    ASSUME Shape, ~switched => Rollout, [Next]_vars, ~switched'
    PROVE  Rollout'
  <1>1. ~switched /\ serves' = serves /\ (WireStep \/ Quiet)
    <2>1. CASE WireStep
      BY <2>1, WireSteps
    <2>2. CASE OperatorStep \/ Delete \/ Pass \/ FleetStep \/ UNCHANGED vars
      <3>1. switched' = switched /\ serves' = serves
        BY <2>2 DEF OperatorStep, Create, KeepLive, Deploy, Disable, Delete, Pass, Look, PlaceNext,
           SwitchEntry, Promote, Wait, Store, FleetStep, Move, Switch, vars, fleet
      <3> QED
        BY <2>2, <3>1, QuietSteps
    <2> QED
      BY <2>1, <2>2, Steps
  <1>2. CASE WireStep
    BY <1>1, <1>2, WireRollout
  <1>3. CASE Quiet /\ row' = row
    <2>1. (Underway' <=> Underway) /\ (Published' <=> Published)
      BY <1>3 DEF Underway, Published, Provisioning
    <2>2. /\ OnlyPlaced' /\ NothingIsTakenBack' /\ OneHopEach' /\ EntryIsLast' /\ Beside'
          /\ \A s \in Servers : serves'[s]
      BY <1>1, <1>3, <2>1, QuietCopies DEF Rollout, OnlyPlaced, NothingIsTakenBack, OneHopEach,
         EntryIsLast, Beside, Keeps, Quiet
    <2>3. SwitchedLeads' /\ LiveIsThere' /\ EntryLeads'
      BY <1>1, <1>3, <2>1, QuietCopies DEF Rollout, SwitchedLeads, Ahead, LiveIsThere, EntryLeads,
         Overtaken
    <2> QED
      BY <2>2, <2>3 DEF Rollout
  <1>4. CASE Quiet /\ row' # row
    BY <1>1, <1>4, RowKinds, ShapeStep, GoneRollout, KeptRollout, BegunRollout, BroughtRollout,
       PromotedRollout
  <1> QED
    BY <1>1, <1>2, <1>3, <1>4

(* The theorems *)

\* Everything known of a rollout.
Known == Shape /\ (~switched => Rollout)

LEMMA KnownInit ==
    ASSUME Init
    PROVE  Known
  <1>1. Shape
    BY ShapeInit
  <1>2. row = None \/ (row # None /\ row.pend = None /\ row.on = TRUE)
    BY DEF Init
  <1>3. ~Underway
    BY <1>2 DEF Underway
  <1>4. /\ \A s \in Servers : serves[s]
        /\ \A s \in Servers : Copies(s) = {LiveAt(s)}
    BY DEF Init, Copies
  <1>5. ASSUME NEW s \in Servers, NEW g \in LiveAt(s), NEW h \in LiveAt(s), g.path = h.path, g.pos = h.pos
        PROVE  g = h
    BY <1>1, <1>5, LiveHops, HopFields
  <1>6. ASSUME Published
        PROVE  /\ \A p \in Positions(row.live) : Has(LiveAt(row.live.chain[p]), row.live, p)
               /\ \A s \in Servers : \A h \in LiveAt(s) : h.path = row.live
    <2>1. Usable(row.live)
      BY <1>1, <1>4, <1>6, AllUsable, RowFacts
    <2>2. ASSUME NEW s PROVE StagedAt(s) = {}
      BY <1>1, <1>3, <2>2, StagedHops
    <2>3. ASSUME NEW p \in Positions(row.live)
          PROVE  Hop(row.live, p, place) \in LiveAt(row.live.chain[p])
      BY <1>1, <1>6, <2>1, <2>2, LiveHops
    <2> QED
      BY <1>1, <2>3, LiveHops, HopFields DEF Has
  <1>7. LiveIsThere /\ EntryLeads
    <2> SUFFICES ASSUME Published PROVE LiveIsThere /\ EntryLeads
      BY DEF LiveIsThere, EntryLeads
    <2>1. \A p \in Positions(row.live) : row.live.chain[p] \in Servers
      BY <1>1, RowFacts, PathFacts
    <2>2. 1 \in Positions(row.live)
      BY <1>1, RowFacts, PathFacts
    <2>3. LiveIsThere
      BY <1>4, <1>6, <2>1 DEF LiveIsThere, Behind
    <2>4. EntryLeads
      BY <1>4, <1>6, <2>1, <2>2 DEF EntryLeads, Has
    <2> QED
      BY <2>3, <2>4
  <1>8. OneHopEach
    BY <1>4, <1>5 DEF OneHopEach
  <1> QED
    BY <1>1, <1>3, <1>4, <1>7, <1>8 DEF Known, Rollout, OnlyPlaced, NothingIsTakenBack,
       EntryIsLast, SwitchedLeads, Beside

LEMMA KnownAlways == Spec => []Known
  <1>1. Init => Known
    BY KnownInit
  <1>2. Known /\ [Next]_vars => Known'
    BY ShapeStep, RolloutStep DEF Known
  <1> QED
    BY <1>1, <1>2, PTL DEF Spec

\* Whom an entry serves: an entry that has a link has a first one.
LEMMA SomeoneIsServed ==
    ASSUME Known, Published, ~switched
    PROVE  /\ Serving(row.live.chain[1]) # {}
           /\ \A h \in Serving(row.live.chain[1]) :
                  \/ h.path = row.live
                  \/ Underway /\ h.path = row.pend.path /\ row.pend.entry
                  \/ Outgoing(h)
  <1> DEFINE e == row.live.chain[1]
             X == held[e]
  <1>1. Shape /\ Rollout
    BY DEF Known
  <1>2. e \in Servers /\ X \in Copies(e)
    BY <1>1, RowFacts, PathFacts, CopiesAre
  <1>3. /\ \E h \in X : h.pos = 1
        /\ \A h \in X : h.pos = 1 =>
              \/ h.path = row.live
              \/ Underway /\ h.path = row.pend.path
              \/ ~h.path.guarded /\ \E g \in X : g.pos = 1 /\ g.path.guarded
              \/ Overtaken(h, X)
    BY <1>1, <1>2 DEF Rollout, EntryLeads
  <1>4. \A h \in X : Part(h, e) /\ h.path.guarded \in BOOLEAN
    BY <1>1, <1>2, CopiesHaveParts, PathFacts DEF Part
  <1>5. ASSUME NEW h \in X, h.pos = 1, Underway, h.path = row.pend.path
        PROVE  row.pend.entry
    BY <1>1, <1>2, <1>5, NotSwitchedYet DEF Rollout
  <1>6. ASSUME NEW g \in X, NEW h \in X, g.pos = 1, h.pos = 1, g.path = h.path
        PROVE  g = h
    BY <1>1, <1>2, <1>6 DEF Rollout, OneHopEach
  <1>7. Serving(e) = {h \in X : /\ h.pos = 1
                               /\ \A g \in X \ {h} : g.pos = 1 =>
                                     IF h.path.guarded THEN g.path.guarded => h.path.rev < g.path.rev
                                                       ELSE ~g.path.guarded}
    BY DEF Serving
  <1>8. ASSUME NEW h \in X, h.pos = 1, Overtaken(h, X)
        PROVE  Outgoing(h)
    <2>1. /\ h.path.guarded /\ row.live.guarded /\ h.path.rev < row.live.rev
          /\ \E g \in held[row.live.chain[1]] : g.pos = 1 /\ g.path = row.live
      BY <1>8 DEF Overtaken
    <2>2. h.path # row.live /\ h.path.chain[1] = row.live.chain[1]
      <3>1. row.live.rev \in Nat
        BY <1>1, RowFacts, PathFacts
      <3>2. h.path.chain[1] = e
        BY <1>4, <1>8 DEF Part
      <3> QED
        BY <2>1, <3>1, <3>2
    <2> QED
      BY <2>1, <2>2 DEF Outgoing, Takes
  <1>9. Underway => row.live.rev < row.pend.path.rev
    BY <1>1 DEF Rollout, Beside
  <1> HIDE DEF X, e
  <1>10. Serving(e) # {}
    <2>1. CASE ~\E h \in X : h.pos = 1 /\ h.path.guarded
      <3>1. PICK h \in X : h.pos = 1
        BY <1>3
      <3>2. h \in Serving(e)
        BY <1>7, <2>1, <3>1
      <3> QED
        BY <3>2
    <2>2. CASE \E h \in X : h.pos = 1 /\ Overtaken(h, X)
      <3>1. PICK h \in X : h.pos = 1 /\ Overtaken(h, X)
        BY <2>2
      <3>2. ASSUME NEW g \in X \ {h}, g.pos = 1, g.path.guarded
            PROVE  h.path.rev < g.path.rev
        <4>1. g.path \in {h.path, row.live}
          BY <3>1, <3>2 DEF Overtaken
        <4>2. g.path # h.path
          BY <1>6, <3>1, <3>2
        <4> QED
          BY <3>1, <4>1, <4>2 DEF Overtaken
      <3>3. h.path.guarded
        BY <3>1 DEF Overtaken
      <3>4. h \in Serving(e)
        BY <1>7, <3>1, <3>2, <3>3
      <3> QED
        BY <3>4
    <2>3. ASSUME ~\E h \in X : h.pos = 1 /\ Overtaken(h, X),
                 NEW h \in X, h.pos = 1, h.path.guarded, h.path = row.live
          PROVE  Serving(e) # {}
      <3>1. ASSUME NEW g \in X \ {h}, g.pos = 1, g.path.guarded
            PROVE  h.path.rev < g.path.rev
        <4>1. g.path # row.live
          BY <1>6, <2>3, <3>1
        <4>2. Underway /\ g.path = row.pend.path
          BY <1>3, <2>3, <3>1, <4>1
        <4> QED
          BY <1>9, <2>3, <4>2
      <3>2. h \in Serving(e)
        BY <1>7, <2>3, <3>1
      <3> QED
        BY <3>2
    <2>4. ASSUME ~\E h \in X : h.pos = 1 /\ Overtaken(h, X),
                 ~\E h \in X : h.pos = 1 /\ h.path.guarded /\ h.path = row.live,
                 NEW h \in X, h.pos = 1, h.path.guarded
          PROVE  Serving(e) # {}
      <3>1. ASSUME NEW g \in X, g.pos = 1, g.path.guarded
            PROVE  Underway /\ g.path = row.pend.path
        BY <1>3, <2>4, <3>1
      <3>2. ASSUME NEW g \in X \ {h}, g.pos = 1
            PROVE  ~g.path.guarded
        BY <1>6, <2>4, <3>1, <3>2
      <3>3. h \in Serving(e)
        BY <1>7, <2>4, <3>2
      <3> QED
        BY <3>3
    <2> QED
      BY <2>1, <2>2, <2>3, <2>4
  <1>11. ASSUME NEW h \in Serving(e)
         PROVE  \/ h.path = row.live
                \/ Underway /\ h.path = row.pend.path /\ row.pend.entry
                \/ Outgoing(h)
    <2>1. /\ h \in X /\ h.pos = 1
          /\ ~h.path.guarded => ~\E g \in X : g.pos = 1 /\ g.path.guarded
      BY <1>7, <1>11
    <2> QED
      BY <1>3, <1>5, <1>8, <2>1
  <1> QED
    BY <1>10, <1>11 DEF e

\* The entry of a published route always has a link for its clients, and the way behind it is
\* whole, before, during and after a change of the chain, for any routes, servers, losses and
\* restarts, while no server is taken out of service.  Only a protected path that another of
\* the same entry has followed may still be served when it is taken apart.
THEOREM PathAlwaysWhole == Spec => []PathIsWhole
  <1>1. ASSUME Known, Published, ~switched
        PROVE  /\ Serving(row.live.chain[1]) # {}
               /\ \A h \in Serving(row.live.chain[1]) : Whole(h.path) \/ Outgoing(h)
    <2>1. Shape /\ Rollout
      BY <1>1 DEF Known
    <2>2. Whole(row.live)
      <3>1. ASSUME NEW p \in Behind(row.live)
            PROVE  Has(held[row.live.chain[p]], row.live, p)
        BY <1>1, <2>1, <3>1, CopiesAre DEF Rollout, LiveIsThere
      <3> QED
        BY <3>1 DEF Whole, Behind, Has
    <2>3. ASSUME Underway, row.pend.entry
          PROVE  Whole(row.pend.path)
      <3>1. ASSUME NEW p \in Behind(row.pend.path)
            PROVE  Has(held[row.pend.path.chain[p]], row.pend.path, p)
        BY <2>1, <2>3, <3>1, CopiesAre DEF Rollout, EntryIsLast
      <3> QED
        BY <3>1 DEF Whole, Behind, Has
    <2> QED
      BY <1>1, <2>2, <2>3, SomeoneIsServed
  <1>2. Known => PathIsWhole
    BY <1>1 DEF PathIsWhole
  <1> QED
    BY <1>2, KnownAlways, PTL

\* The loop publishes a chain only when all its servers run it, with addresses of their
\* neighbours no older than the loop saw, however late reports are, and its entry serves it,
\* unless a protected chain takes over from a protected chain of the same entry.
THEOREM PublishedServesAlready == Spec => PublishesWhatServes
  <1> DEFINE Served == LET path == look.row.pend.path
                       IN  /\ \A p \in Positions(path) :
                                  \E h \in held[path.chain[p]] : Knows(h, path, p, look.place)
                           /\ \/ ~Provisioning /\ Takes(path)
                              \/ \E h \in Serving(path.chain[1]) : Knows(h, path, 1, look.place)
  <1>1. ASSUME Known, [Next]_vars, Promote, row = look.row, ~switched
        PROVE  Served
    <2> DEFINE path == row.pend.path
    <2>1. Shape /\ Rollout /\ look # None
      BY <1>1 DEF Known, Promote, Confirmed
    <2>2. Underway /\ Sound(path) /\ row.pend \in Pending
      BY <1>1, <2>1, RowFacts DEF Shape, RowsAreSound, Underway
    <2>3. Runs(Behind(path)) /\ Runs({1})
      BY <1>1, <2>1, <2>2, PlacedFacts DEF Promote, Confirmed, AllPlaced
    <2>4. ASSUME NEW p \in Positions(path), NEW X \in Copies(path.chain[p])
          PROVE  \E h \in X : Knows(h, path, p, look.place)
      <3>1. p \in Behind(path) \/ p \in {1}
        BY DEF Behind
      <3>2. \E S \in {Behind(path), {1}} : p \in S /\ Runs(S)
        BY <2>3, <3>1
      <3>3. \E h \in X : /\ h.path = path /\ h.pos = p
                         /\ \A q \in Peers(path, p) : look.place[path.chain[q]] <= h.peers[q]
        BY <1>1, <2>1, <2>2, <2>4, <3>2, WhatRunsIsThere
      <3> QED
        BY <3>3 DEF Knows
    <2>5. \A p \in Positions(path) : \E h \in held[path.chain[p]] : Knows(h, path, p, look.place)
      BY <2>4, CopiesAre
    <2>6. PICK h \in held[path.chain[1]] : Knows(h, path, 1, look.place)
      BY <2>2, <2>5, PathFacts
    <2>7. h \in Serving(path.chain[1]) \/ (~Provisioning /\ Takes(path))
      <3>1. /\ path.chain[1] \in Servers /\ held[path.chain[1]] \in Copies(path.chain[1])
            /\ path.guarded \in BOOLEAN
        BY <2>2, PathFacts, CopiesAre
      <3>2. h.path = path /\ h.pos = 1 /\ Has(held[path.chain[1]], path, 1)
        BY <2>6 DEF Knows, Has
      <3>3. ASSUME NEW g \in held[path.chain[1]] \ {h}, g.pos = 1
            PROVE  (path.guarded /\ ~g.path.guarded) \/ Ahead(g.path)
        BY <2>1, <2>2, <3>1, <3>2, <3>3 DEF Rollout, SwitchedLeads, OneHopEach
      <3>4. ASSUME NEW g \in held[path.chain[1]], g.pos = 1, Ahead(g.path)
            PROVE  ~Provisioning /\ Takes(path)
        <4>1. Published /\ row.live.guarded /\ g.path = row.live
          BY <3>4 DEF Ahead
        <4>2. ~Provisioning /\ path.guarded
          BY <2>1, <2>2, <4>1 DEF Published, Provisioning, Rollout, Beside
        <4>3. g.path.chain[1] = path.chain[1]
          BY <2>1, <3>1, <3>4, CopiesHaveParts DEF Part
        <4> QED
          BY <4>1, <4>2, <4>3 DEF Takes
      <3>5. CASE ~\E g \in held[path.chain[1]] : g.pos = 1 /\ Ahead(g.path)
        BY <3>2, <3>3, <3>5 DEF Serving
      <3> QED
        BY <3>4, <3>5
    <2> QED
      BY <1>1, <2>5, <2>6, <2>7
  <1>2. Known /\ [Next]_vars => [Promote /\ row = look.row /\ ~switched => Served]_vars
    <2> HIDE DEF Served
    <2> QED
      BY <1>1
  <1> QED
    BY <1>2, KnownAlways, PTL DEF Spec, PublishesWhatServes
=============================================================================
