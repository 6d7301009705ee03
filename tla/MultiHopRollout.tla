--------------------------- MODULE MultiHopRollout ---------------------------
(***************************************************************************)
(* The rollout of one multi-hop route.  A route is a chain of servers from *)
(* the entry its clients connect to, to the exit; every server holds the   *)
(* hops that are its part of it.  A new chain is deployed beside the old   *)
(* one: the panel's loop places its hops from the exit towards the entry,  *)
(* waits until the servers have said that they run them, switches the      *)
(* entry, waits again and then publishes the new chain, which takes the    *)
(* old hops away.  An operator changes, disables and deletes the route,    *)
(* servers move and fall out of service, reports are late or lost, and the *)
(* panel starts again meanwhile.                                           *)
(*                                                                         *)
(* A protected route (guarded) is a chain entry, relay, transit, exit, in  *)
(* which relay and transit are placed first and together, then the exit.   *)
(***************************************************************************)
EXTENDS Integers, Sequences

CONSTANTS
    Servers,
    Local,          \* the master's own Xray, when it is one of Servers
    Routes,         \* what an operator may ask for: a chain, and whether it is protected
    Inherited,      \* the routes a panel of the format before deployments may have left
    MaxEvents,      \* bound: deployments, servers moved and switched, things lost
    None

Path == [chain : Seq(Servers), guarded : BOOLEAN, rev : Nat]
Pending == [path : Path, initial : BOOLEAN, ready : Nat, entry : BOOLEAN]

ASSUME RoutesAssumption ==
    /\ Routes \subseteq [chain : Seq(Servers), guarded : BOOLEAN]
    /\ Inherited \subseteq [chain : Seq(Servers), guarded : {FALSE}]
    /\ \A r \in Routes \cup Inherited :
            r.chain # <<>> /\ (r.guarded => Len(r.chain) = 4)
    /\ None \notin Servers \cup Pending
    /\ MaxEvents \in Nat

VARIABLES
    row,            \* the inbound of the route, or None
    revisions,      \* revisions given out
    place,          \* each server's address and certificate, as a version
    serves,         \* whether it can be a hop: in service, VLESS on, certificate known
    look,           \* what the loop read of the row and the servers, or None
    noted,          \* multiHopApplied: the hops a server last said it runs
    held,           \* the hops its Xray runs
    phase,          \* where its request is: "asking", "held", "told"
    told,           \* the hops of the answer on its way
    late,           \* a report of a request that was given up, still to be handled
    switched,       \* a server has been taken out of service or back
    trouble

panel == <<row, revisions, look>>
fleet == <<place, serves, switched>>
wire == <<noted, held, phase, told, late>>
vars == <<panel, fleet, wire, trouble>>

Along(r, n) == [chain |-> r.chain, guarded |-> r.guarded, rev |-> n]

\* The other positions of a path whose address or certificate the hop at position p holds.
Peers(path, p) ==
    IF path.guarded THEN IF p \in {1, 4} THEN {2, 3} ELSE {}
    ELSE {q \in {p + 1} : q <= Len(path.chain)} \cup {q \in {p - 1} : 1 < p}

Hop(path, p, at) ==
    [path |-> path, pos |-> p, peers |-> [q \in Peers(path, p) |-> at[path.chain[q]]]]

Positions(path) == 1 .. Len(path.chain)

\* What a link goes through: every hop behind the entry, and of a protected route relay and
\* transit.
Usable(path) ==
    \A p \in 2 .. (IF path.guarded THEN 3 ELSE Len(path.chain)) : serves[path.chain[p]]

(* The row *)

Provisioning == row.pend # None /\ row.pend.initial
Deploying == row # None /\ row.on /\ row.pend # None
Published == row # None /\ row.on /\ ~(row.pend # None /\ row.pend.initial)

\* The hops of a deployment behind its entry that have been placed so far.
Placed(pend) ==
    IF pend.path.guarded THEN {2, 3} \cup {p \in {4} : pend.ready > 0}
    ELSE {p \in 2 .. Len(pend.path.chain) : p >= Len(pend.path.chain) - pend.ready}

LastReady(path) == IF path.guarded THEN 1 ELSE Len(path.chain) - 2

StagedAt(s) ==
    IF ~Deploying \/ ~Usable(row.pend.path) THEN {}
    ELSE {Hop(row.pend.path, p, place) :
            p \in {q \in Placed(row.pend) \cup {i \in {1} : row.pend.entry} : row.pend.path.chain[q] = s}}

\* A staged link takes the place of the live one; the rule of a protected entry is added
\* behind the live one's and before a plain link.
LiveAt(s) ==
    IF row = None \/ ~row.on \/ Provisioning \/ ~Usable(row.live) THEN {}
    ELSE {Hop(row.live, p, place) :
            p \in {q \in Positions(row.live) :
                     /\ row.live.chain[q] = s
                     /\ q = 1 /\ ~row.live.guarded =>
                            ~\E h \in StagedAt(s) : h.pos = 1 /\ ~h.path.guarded}}

Desired(s) == LiveAt(s) \cup StagedAt(s)

\* The link the clients of an entry are sent along: the first rule of their inbound.
Serving(s) ==
    {h \in held[s] :
        /\ h.pos = 1
        /\ \A g \in held[s] \ {h} :
                g.pos = 1 => IF h.path.guarded THEN g.path.guarded => h.path.rev < g.path.rev
                                               ELSE ~g.path.guarded}

Init ==
    /\ row \in {None} \cup {[on |-> TRUE, live |-> Along(r, 0), pend |-> None] : r \in Inherited}
    /\ revisions = 0
    /\ place = [s \in Servers |-> 0]
    /\ serves = [s \in Servers |-> TRUE]
    /\ look = None
    /\ noted = [s \in Servers |-> {}]
    /\ held = [s \in Servers |-> LiveAt(s)]
    /\ phase = [s \in Servers |-> "asking"]
    /\ told = [s \in Servers |-> {}]
    /\ late = [s \in Servers |-> None]
    /\ switched = FALSE /\ trouble = 0

(* The operator *)

Allowed == revisions + trouble < MaxEvents

\* multiHopWrites is free: the loop is between its passes.
WritesFree == look = None

Valid(r) == r.guarded \/ Usable(Along(r, 0))

Deployment(r, initial) ==
    [path |-> Along(r, revisions + 1), initial |-> initial, ready |-> 0, entry |-> FALSE]

Create(r) ==
    /\ row = None /\ Valid(r) /\ Allowed
    /\ r.guarded => WritesFree
    /\ row' = [on |-> TRUE, live |-> Along(r, 0), pend |-> Deployment(r, TRUE)]
    /\ revisions' = revisions + 1
    /\ UNCHANGED <<look, fleet, wire, trouble>>

MayChangeAnyTime(r) ==
    /\ row.on /\ row.live.guarded => r.guarded
    /\ row.on /\ r.guarded /\ ~row.live.guarded /\ ~Provisioning =>
            \A p \in Positions(row.live) : row.live.chain[p] # r.chain[3]
    /\ Valid(r)

\* An enabled route waits for a switch of the entry, and does not leave its protection, nor
\* enters it over a transit its clients reach directly.
MayChangeTo(r) ==
    /\ ~(row.pend # None /\ row.pend.entry)
    /\ row.on /\ row.live.guarded => r.guarded
    /\ row.on /\ r.guarded /\ ~row.live.guarded /\ ~Provisioning =>
            \A p \in Positions(row.live) : row.live.chain[p] # r.chain[3]
    /\ Valid(r)

IsLive(r) ==
    row.on /\ ~Provisioning /\ row.live.chain = r.chain /\ row.live.guarded = r.guarded

KeepLive(r) ==
    /\ row # None /\ WritesFree /\ MayChangeTo(r) /\ IsLive(r)
    /\ row' = [row EXCEPT !.pend = None]
    /\ UNCHANGED <<revisions, look, fleet, wire, trouble>>

\* The chain of a protected route may stay, with other ports or addresses.
Deploy(r) ==
    /\ row # None /\ WritesFree /\ MayChangeTo(r)
    /\ IsLive(r) => r.guarded
    /\ Allowed
    /\ row' = [on |-> TRUE,
               live |-> IF row.on THEN row.live ELSE Along(r, 0),
               pend |-> Deployment(r, ~row.on \/ Provisioning)]
    /\ revisions' = revisions + 1
    /\ UNCHANGED <<look, fleet, wire, trouble>>

Disable(r) ==
    /\ row # None /\ WritesFree
    /\ row' = [on |-> FALSE, live |-> Along(r, 0), pend |-> None]
    /\ UNCHANGED <<revisions, look, fleet, wire, trouble>>

\* Deleting takes no lock.
Delete ==
    /\ row # None
    /\ row' = None
    /\ UNCHANGED <<revisions, look, fleet, wire, trouble>>

(* The servers *)

Trouble == Allowed /\ trouble' = trouble + 1

\* Another address, or another certificate.
Move(s) ==
    /\ Trouble
    /\ place' = [place EXCEPT ![s] = @ + 1]
    /\ UNCHANGED <<serves, switched, panel, wire>>

Switch(s) ==
    /\ Trouble
    /\ serves' = [serves EXCEPT ![s] = ~@]
    /\ switched' = TRUE
    /\ UNCHANGED <<place, panel, wire>>

(* The loop *)

Look ==
    /\ look = None /\ Deploying /\ Usable(row.pend.path)
    /\ look' = [row |-> row, place |-> place]
    /\ UNCHANGED <<row, revisions, fleet, wire, trouble>>

RunsByName(ps) ==
    LET path == look.row.pend.path
    IN  \A p \in ps : \E h \in noted[path.chain[p]] : h.path = path /\ h.pos = p

Runs(ps) ==
    LET path == look.row.pend.path
    IN  \A p \in ps : Hop(path, p, look.place) \in noted[path.chain[p]]

\* The row is updated by its id: one deleted since is not written again.
Store(new) ==
    /\ look # None /\ look' = None
    /\ row' = IF row = look.row THEN new ELSE row
    /\ UNCHANGED <<revisions, fleet, wire, trouble>>

Confirmed == look # None /\ Runs(Placed(look.row.pend))
AllPlaced == look.row.pend.ready >= LastReady(look.row.pend.path)

PlaceNext ==
    /\ Confirmed /\ ~AllPlaced
    /\ Store([look.row EXCEPT !.pend.ready = @ + 1])

SwitchEntry ==
    /\ Confirmed /\ AllPlaced /\ ~look.row.pend.entry
    /\ Store([look.row EXCEPT !.pend.entry = TRUE])

Promote ==
    /\ Confirmed /\ AllPlaced /\ look.row.pend.entry /\ Runs({1})
    /\ Store([on |-> TRUE, live |-> look.row.pend.path, pend |-> None])

Wait ==
    /\ look # None
    /\ Confirmed => AllPlaced /\ look.row.pend.entry /\ ~Runs({1})
    /\ Store(look.row)

(* Reports and answers *)

\* A node's report is handled: what it runs is noted, and the request is held.
Report(s) ==
    /\ s # Local /\ phase[s] = "asking"
    /\ noted' = [noted EXCEPT ![s] = held[s]]
    /\ phase' = [phase EXCEPT ![s] = "held"]
    /\ UNCHANGED <<panel, fleet, held, told, late, trouble>>

\* The held request is answered with what the server should run, or with nothing new.
Answer(s) ==
    /\ phase[s] = "held"
    /\ \/ /\ Desired(s) # held[s]
          /\ told' = [told EXCEPT ![s] = Desired(s)]
          /\ phase' = [phase EXCEPT ![s] = "told"]
       \/ /\ Desired(s) = held[s]
          /\ phase' = [phase EXCEPT ![s] = "asking"]
          /\ UNCHANGED told
    /\ UNCHANGED <<panel, fleet, noted, held, late, trouble>>

ReconcileChanged(s) ==
    /\ s = Local /\ phase[s] = "asking"
    /\ Desired(s) # held[s]
    /\ told' = [told EXCEPT ![s] = Desired(s)]
    /\ phase' = [phase EXCEPT ![s] = "told"]
    /\ UNCHANGED <<panel, fleet, noted, held, late, trouble>>

\* The master's reconcile generates its own configuration the same way.
Reconcile(s) ==
    /\ s = Local /\ phase[s] = "asking"
    /\ Desired(s) # held[s] \/ noted[s] # held[s]
    /\ told' = [told EXCEPT ![s] = Desired(s)]
    /\ phase' = [phase EXCEPT ![s] = "told"]
    /\ UNCHANGED <<panel, fleet, noted, held, late, trouble>>

\* Applied.  A node says so in its next report, the master notes it at once.
Apply(s) ==
    /\ phase[s] = "told"
    /\ held' = [held EXCEPT ![s] = told[s]]
    /\ noted' = IF s = Local THEN [noted EXCEPT ![s] = told[s]] ELSE noted
    /\ told' = [told EXCEPT ![s] = {}]
    /\ phase' = [phase EXCEPT ![s] = "asking"]
    /\ UNCHANGED <<panel, fleet, late, trouble>>

\* A node gives a request up and asks again.  The panel may still handle it.
GiveUp(s) ==
    /\ s # Local /\ Trouble
    /\ late' = [late EXCEPT ![s] = IF phase[s] = "asking" THEN held[s] ELSE @]
    /\ phase' = [phase EXCEPT ![s] = "asking"]
    /\ told' = [told EXCEPT ![s] = {}]
    /\ UNCHANGED <<panel, fleet, noted, held>>

ReportLate(s) ==
    /\ late[s] # None
    /\ noted' = [noted EXCEPT ![s] = late[s]]
    /\ late' = [late EXCEPT ![s] = None]
    /\ UNCHANGED <<panel, fleet, held, phase, told, trouble>>

\* A node was not heard of for NodeOnlineWindow, or says that its Xray is down.
Forget(s) ==
    /\ s # Local /\ noted[s] # {} /\ Trouble
    /\ noted' = [noted EXCEPT ![s] = {}]
    /\ UNCHANGED <<panel, fleet, held, phase, told, late>>

\* What the panel held in memory is gone, with the requests it held.  An answer that has
\* left arrives.
PanelRestarts ==
    /\ Trouble
    /\ look' = None
    /\ noted' = [s \in Servers |-> {}]
    /\ phase' = [s \in Servers |-> IF s # Local /\ phase[s] = "told" THEN "told" ELSE "asking"]
    /\ told' = [s \in Servers |-> IF s # Local THEN told[s] ELSE {}]
    /\ UNCHANGED <<row, revisions, fleet, held, late>>

\* A pass of the loop, and what a server does by itself.
Pass == Look \/ PlaceNext \/ SwitchEntry \/ Promote \/ Wait
Works(s) == Report(s) \/ Answer(s) \/ Apply(s) \/ Reconcile(s)

Next ==
    \/ \E r \in Routes : Create(r) \/ KeepLive(r) \/ Deploy(r) \/ Disable(r)
    \/ Delete
    \/ Pass
    \/ PanelRestarts
    \/ \E s \in Servers : \/ Works(s)
                          \/ Move(s) \/ Switch(s)
                          \/ GiveUp(s) \/ ReportLate(s) \/ Forget(s)

Spec == Init /\ [][Next]_vars

\* The loop ticks, nodes ask, apply and ask again, and the master reconciles what has
\* changed.  Of the steps of a pass, and of a server, one is enabled at a time.
FairSpec == Spec /\ WF_vars(Pass) /\ \A s \in Servers : WF_vars(Works(s))

(* What it is for *)

IsRow(r) ==
    /\ r \in [on : BOOLEAN, live : Path, pend : {r.pend}]
    /\ r.pend = None \/ r.pend \in Pending

IsHop(h) ==
    /\ DOMAIN h = {"path", "pos", "peers"}
    /\ h.path \in Path /\ h.pos \in Positions(h.path)
    /\ h.peers \in [Peers(h.path, h.pos) -> Nat]

TypeOK ==
    /\ row = None \/ IsRow(row)
    /\ look = None \/ (DOMAIN look = {"row", "place"} /\ IsRow(look.row) /\ look.place \in [Servers -> Nat])
    /\ revisions \in Nat
    /\ place \in [Servers -> Nat] /\ serves \in [Servers -> BOOLEAN]
    /\ \A f \in {noted, held, told, late} : DOMAIN f = Servers
    /\ \A s \in Servers :
           /\ \A h \in noted[s] \cup held[s] \cup told[s] : IsHop(h)
           /\ late[s] = None \/ \A h \in late[s] : IsHop(h)
    /\ phase \in [Servers -> {"asking", "held", "told"}]
    /\ switched \in BOOLEAN /\ trouble \in Nat /\ revisions + trouble <= MaxEvents

\* A path all of whose hops behind the entry are there.
Whole(path) ==
    \A p \in Positions(path) \ {1} :
        \E h \in held[path.chain[p]] : h.path = path /\ h.pos = p

\* A protected link that follows a protected one of the same entry is added behind it.  An
\* entry that holds both goes on sending its clients along the older, until it drops it.
Takes(path) == row.live.guarded /\ path.guarded /\ row.live.chain[1] = path.chain[1]

Outgoing(h) ==
    /\ h.path # row.live /\ Takes(h.path)
    /\ \E g \in held[row.live.chain[1]] : g.pos = 1 /\ g.path = row.live

\* The entry of a published route always has a link to send its clients along, and the way
\* behind it is whole: before, during and after a change of the chain.  Only the protected
\* path that a published one has just followed may be taken apart too early.
PathIsWhole ==
    Published /\ ~switched =>
        /\ Serving(row.live.chain[1]) # {}
        /\ \A h \in Serving(row.live.chain[1]) : Whole(h.path) \/ Outgoing(h)

\* Whatever a server still runs of an older deployment, it is never a part of another chain.
OneChain ==
    \A s, t \in Servers : \A h \in held[s], g \in held[t] :
        h.path.rev = g.path.rev => h.path = g.path

\* The hop at position p of a path, which knows its peers as they were then, or later.
Knows(h, path, p, then) ==
    /\ h.path = path /\ h.pos = p
    /\ \A q \in Peers(path, p) : then[path.chain[q]] <= h.peers[q]

\* What is published is held already by all its servers, with their peers as the loop saw
\* them, and served by the entry, unless it takes over from a protected path of that entry.
PublishesWhatServes ==
    [][Promote /\ row = look.row /\ ~switched =>
        LET path == look.row.pend.path
        IN  /\ \A p \in Positions(path) : \E h \in held[path.chain[p]] : Knows(h, path, p, look.place)
            /\ \/ ~Provisioning /\ Takes(path)
               \/ \E h \in Serving(path.chain[1]) : Knows(h, path, 1, look.place)]_vars

\* A deployment comes to an end while its servers are there.
Completes == <>[](Deploying => ~Usable(row.pend.path))
=============================================================================
