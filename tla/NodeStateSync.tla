----------------------------- MODULE NodeStateSync -----------------------------
(***************************************************************************)
(* How a node comes to hold the state the panel's database describes.  A   *)
(* state is a structure (the settings and the node's own row), one row per *)
(* user and the blocked addresses.  Rows and addresses are read once for   *)
(* the whole fleet; every read that finds them different is given the next *)
(* version, and a journal remembers which users each version touched.  A   *)
(* node names the state it holds by a tag - the panel's process, the       *)
(* version, the structure - and is sent what changed since, or the whole   *)
(* state, or nothing, in which case its request is held until a wake.      *)
(*                                                                         *)
(* The panel's handlers are modelled from the request to the answer; an    *)
(* answer may be lost, a node may give up while its handler goes on, and   *)
(* the panel and the node may restart.                                     *)
(***************************************************************************)
EXTENDS Naturals, Sequences, FiniteSets

CONSTANTS
    Users,
    Requests,       \* bound: requests of the node being handled at a time
    JournalMax,     \* journalMaxEntries
    MaxChanges,     \* bound: changes of the database
    MaxTrouble,     \* bound: failures, lost answers and restarts
    None

ASSUME BoundsAssumption == /\ JournalMax \in Nat \ {0}
                           /\ MaxChanges \in Nat /\ MaxTrouble \in Nat

VARIABLES
    db,             \* what the database says
    says,           \* what each version of the inputs said, in this panel process
    cache,          \* the version of nodeInputsCache, 0 for none
    fresh,          \* the cache is of the latest wake and within its TTL
    journal,        \* inputsJournal: log[i] is the entry of version floor + i
    memo,           \* nodeSplits: the structure last checked whole, or None
    life,           \* bootID
    registered,     \* the node has a wake channel
    loop,           \* the manager's reconcile loop
    ask,            \* what the reconcile loop has still to do
    due,            \* a change is written, and its wake still to come
    held, saved,    \* what the node holds, and its state.json
    waits,          \* the request the node waits for an answer to, or None
    req,            \* the panel's handlers
    changes, trouble

inputs == <<says, cache, fresh, journal>>
panel == <<memo, life, registered>>
wakes == <<loop, ask, due>>
node == <<held, saved, waits>>
bounds == <<changes, trouble>>
vars == <<db, inputs, panel, wakes, node, req, bounds>>

Row == {"out", "in", "capped"}
Structure == [settings: BOOLEAN, node: BOOLEAN]
Inputs == [who: [Users -> Row], blocked: BOOLEAN]
Content == [structure: Structure, who: [Users -> Row], blocked: BOOLEAN]
Tag == [life: Nat, version: Nat \ {0}, structure: Structure]
Held == [tag: Tag \cup {None}, content: Content \cup {None}]
Read == [settings: BOOLEAN, version: Nat, who: [Users -> Row], blocked: BOOLEAN]
Push == [kind: {"none", "rename", "delta", "split"}, from: Tag \cup {None},
         tag: Tag \cup {None}, content: Content, touched: SUBSET Users]
Handler == [at: {"looked", "hooked", "read", "parked", "woke", "answer"},
            node: BOOLEAN, has: Held, woken: BOOLEAN, again: BOOLEAN,
            x: Read \cup {None}, push: Push \cup {None}]

ASSUME NoneAssumption == None \notin Content /\ None \notin Tag /\ None \notin Read
                         /\ None \notin Push /\ None \notin Requests
                         /\ None \notin Handler /\ None \notin Structure
                         /\ None \notin [Users -> Row]

Built(structure, in) == [structure |-> structure, who |-> in.who, blocked |-> in.blocked]
Desired == Built([settings |-> db.settings, node |-> db.node], db)
Members(who) == {u \in Users : who[u] # "out"}
Version == Len(says)
At(step) == [at |-> step, ws |-> [u \in Users |-> "out"], fresh |-> FALSE]

Init ==
    /\ db \in [settings: {FALSE}, node: {FALSE}, who: [Users -> {"out"}], blocked: {FALSE}]
    /\ says = <<>> /\ cache = 0 /\ fresh = FALSE
    /\ journal = [floor |-> 0, log |-> <<>>]
    /\ memo = None /\ life = 0 /\ registered = FALSE
    /\ loop = At("idle")
    /\ ask = "no" /\ due = FALSE
    /\ held = [tag |-> None, content |-> None] /\ saved = held
    /\ waits = None
    /\ req = [r \in Requests |-> None]
    /\ changes = 0 /\ trouble = 0

Trouble == trouble < MaxTrouble /\ trouble' = trouble + 1 /\ UNCHANGED changes
Change == changes < MaxChanges /\ changes' = changes + 1 /\ UNCHANGED trouble

(* The shared inputs *)

DiffWithoutCaps(a, b) ==
    {u \in Users : (a.who[u] = "out") # (b.who[u] = "out")}

\* The users whose part of a state differs between two reads.
DiffNodeInputs(a, b) == {u \in Users : a.who[u] # b.who[u]}

\* The version next was just given; the oldest entries leave a journal that is full.
Recorded(next) ==
    IF says = <<>> THEN [floor |-> 1, log |-> <<>>]
    ELSE LET log == Append(journal.log, DiffNodeInputs(says[Version], next))
         IN IF Len(log) > JournalMax THEN [floor |-> journal.floor + 1, log |-> Tail(log)]
                                     ELSE [floor |-> journal.floor, log |-> log]

\* A read of the working set ws taken a moment ago: with the same members the last
\* read's users are used again, and their caps are those of ws either way.
Reading(ws) ==
    LET members == IF cache # 0 /\ Members(says[cache].who) = Members(ws)
                   THEN Members(ws) ELSE Members(db.who)
    IN [who |-> [u \in Users |-> IF u \notin members THEN "out"
                                 ELSE IF ws[u] = "capped" THEN "capped" ELSE "in"],
        blocked |-> db.blocked]

\* readNodeInputsLocked, when it succeeds: the same inputs keep their version.
Keep(in, isFresh) ==
    /\ fresh' = isFresh
    /\ IF Version # 0 /\ says[Version] = in
       THEN cache' = Version /\ UNCHANGED <<says, journal>>
       ELSE says' = Append(says, in) /\ cache' = Version + 1 /\ journal' = Recorded(in)

\* The inputs for one state: the cached ones, or a read afresh, which may fail softly and
\* is then not kept.
Kept == IF cache # 0 /\ fresh
        THEN UNCHANGED inputs
        ELSE Keep(Reading(db.who), TRUE)

TakesKept(r) ==
    /\ Kept
    /\ req' = [req EXCEPT ![r].at = "read",
                          ![r].x = [settings |-> db.settings, version |-> cache',
                                    who |-> says'[cache'].who, blocked |-> says'[cache'].blocked]]
    /\ UNCHANGED bounds

TakesDegraded(r) ==
    /\ ~(cache # 0 /\ fresh)
    /\ Trouble
    /\ req' = [req EXCEPT ![r].at = "read",
                          ![r].x = [settings |-> db.settings, version |-> 0,
                                    who |-> Reading(db.who).who, blocked |-> FALSE]]
    /\ UNCHANGED inputs

\* The config viewer, the health report, another node: someone else reads them.
View ==
    /\ ~(cache # 0 /\ fresh)
    /\ Kept
    /\ UNCHANGED <<db, panel, wakes, node, req, bounds>>

\* nodeInputsTTL runs out.
AgeCache ==
    /\ fresh
    /\ fresh' = FALSE
    /\ UNCHANGED <<db, says, cache, journal, panel, wakes, node, req, bounds>>

(* Changes and wakes *)

WakesParked ==
    /\ fresh' = FALSE
    /\ req' = [r \in Requests |-> IF req[r] # None /\ req[r].at = "parked"
                                  THEN [req[r] EXCEPT !.woken = TRUE] ELSE req[r]]

\* A wake makes every read before it stale and reaches every handler that has taken the
\* node's channel.
Wakes ==
    /\ fresh' = FALSE
    /\ req' = [r \in Requests |-> IF req[r] = None \/ req[r].at = "looked" THEN req[r]
                                  ELSE [req[r] EXCEPT !.woken = TRUE]]

ChangeUsers ==
    /\ Change
    /\ \E u \in Users, row \in Row : row # db.who[u] /\ db' = [db EXCEPT !.who[u] = row]
    /\ ask' = IF ask = "full" THEN "full" ELSE "users"
    /\ UNCHANGED <<inputs, panel, loop, due, node, req>>

\* An address is blocked, or lifted by hand; or its block runs out, which no wake tells.
ChangeBlocked ==
    /\ Change
    /\ db' = [db EXCEPT !.blocked = ~db.blocked]
    /\ due' \in {TRUE, due}
    /\ UNCHANGED <<inputs, panel, loop, ask, node, req>>

ChangeSettings ==
    /\ Change
    /\ db' = [db EXCEPT !.settings = ~db.settings]
    /\ ask' = "full"
    /\ UNCHANGED <<inputs, panel, loop, due, node, req>>

EditNode ==
    /\ Change
    /\ db' = [db EXCEPT !.node = ~db.node]
    /\ due' = TRUE
    /\ UNCHANGED <<inputs, panel, loop, ask, node, req>>

Announce ==
    /\ due
    /\ due' = FALSE
    /\ Wakes
    /\ loop' = [loop EXCEPT !.fresh = FALSE]
    /\ UNCHANGED <<db, says, cache, journal, panel, ask, node, bounds>>

(* The reconcile loop *)

\* A full reconcile of the master, after which every node is woken.
LoopFull ==
    /\ loop.at = "idle" /\ ask = "full"
    /\ ask' = "no" /\ loop' = At("notify")
    /\ UNCHANGED <<db, inputs, panel, due, node, req, bounds>>

\* A sync of users begins with one read of the working set when a node has a channel.
LoopUsers ==
    /\ loop.at = "idle" /\ ask = "users"
    /\ ask' = "no"
    /\ loop' = IF registered THEN [at |-> "sync", ws |-> db.who, fresh |-> TRUE] ELSE At("alone")
    /\ UNCHANGED <<db, inputs, panel, due, node, req, bounds>>

\* The master's own sync changed something, or failed: the nodes are woken.
LoopSynced ==
    /\ loop.at \in {"sync", "alone"}
    /\ loop' = At("notify")
    /\ UNCHANGED <<db, inputs, panel, ask, due, node, req, bounds>>

LoopAlone ==
    /\ loop.at = "alone"
    /\ loop' = At("idle")
    /\ UNCHANGED <<db, inputs, panel, ask, due, node, req, bounds>>

\* It changed nothing: the inputs are read on the working set from before it, and the
\* nodes are woken when they have moved since the last read.
FleetChanged ==
    /\ loop.at = "sync"
    /\ \/ /\ Keep(Reading(loop.ws), loop.fresh)
          /\ loop' = At(IF cache # cache' THEN "notify" ELSE "idle")
          /\ UNCHANGED bounds
       \/ /\ Trouble
          /\ loop' = At("notify")
          /\ UNCHANGED inputs
    /\ UNCHANGED <<db, panel, ask, due, node, req>>

Notify ==
    /\ loop.at = "notify"
    /\ loop' = At("idle")
    /\ Wakes
    /\ UNCHANGED <<db, says, cache, journal, panel, ask, due, node, bounds>>

(* The panel's handler of a request *)

\* The agent asks again as soon as the last request is over; the panel looks up its row
\* by the token.
Send(r) ==
    /\ waits = None /\ req[r] = None
    /\ waits' = r
    /\ req' = [req EXCEPT ![r] = [at |-> "looked", node |-> db.node, has |-> held, woken |-> FALSE,
                                  again |-> FALSE, x |-> None, push |-> None]]
    /\ UNCHANGED <<db, inputs, panel, wakes, held, saved, bounds>>

\* The wake channel is taken before the state is worked out.
TakeChan(r) ==
    /\ req[r] # None /\ req[r].at = "looked"
    /\ req' = [req EXCEPT ![r].at = "hooked"]
    /\ registered' = TRUE
    /\ UNCHANGED <<db, inputs, memo, life, wakes, node, bounds>>

ReadInputs(r) ==
    /\ req[r] # None /\ req[r].at \in {"hooked", "woke"}
    /\ TakesKept(r) \/ TakesDegraded(r)
    /\ UNCHANGED <<db, panel, wakes, node>>

StructureOf(r) == [settings |-> req[r].x.settings, node |-> req[r].node]
Keyed(r) == req[r].x.version # 0
TagOfAlways(r) == [life |-> life, version |-> req[r].x.version, structure |-> StructureOf(r)]

\* A degraded state is not one a change can follow.
TagOf(r) == IF Keyed(r)
            THEN [life |-> life, version |-> req[r].x.version, structure |-> StructureOf(r)]
            ELSE None
ContentOf(r) == Built(StructureOf(r), req[r].x)
VerifiedOnce(r) == Keyed(r) /\ memo # None

Verified(r) == Keyed(r) /\ memo = StructureOf(r)

\* A push goes out at once; a handler with nothing to push holds its request, once.
Pushes(r, push) ==
    LET holds == push.kind = "none" /\ ~req[r].again
    IN req' = [req EXCEPT ![r].push = IF holds THEN None ELSE push, ![r].x = None,
                          ![r].at = IF holds THEN "parked" ELSE "answer"]

NoPush(r) == [kind |-> "none", from |-> None, tag |-> TagOf(r), content |-> ContentOf(r),
              touched |-> {}]

\* The journal covers the versions after its floor up to its last entry.
Covers(base, cur) ==
    /\ journal.floor <= base /\ base <= cur
    /\ cur <= journal.floor + Len(journal.log)

TouchedSince(base, cur) ==
    UNION {journal.log[v - journal.floor] : v \in (base + 1)..cur}

CanDelta(r) ==
    /\ Verified(r)
    /\ req[r].has.tag # None /\ req[r].has.tag.life = life
    /\ req[r].has.tag.structure = memo
    /\ Covers(req[r].has.tag.version, req[r].x.version)

\* The node's state was checked whole a short while ago, and the tag it names is the
\* one it should have.
Unchanged(r) ==
    /\ req[r] # None /\ req[r].at = "read"
    /\ Verified(r) /\ req[r].has.tag = TagOf(r)
    /\ Pushes(r, NoPush(r))
    /\ UNCHANGED <<db, inputs, panel, wakes, node, bounds>>

Delta(r) ==
    /\ req[r] # None /\ req[r].at = "read"
    /\ CanDelta(r) /\ req[r].has.tag # TagOf(r)
    /\ Pushes(r, [NoPush(r) EXCEPT !.kind = "delta", !.from = req[r].has.tag,
                                   !.touched = TouchedSince(req[r].has.tag.version, req[r].x.version)])
    /\ UNCHANGED <<db, inputs, panel, wakes, node, bounds>>

\* The state is built whole, and compared with what the node says it holds: sent, or
\* only named anew.  So it is too when nodeStateMemoAge has passed since it last was, and
\* when a change touches too many users.
Whole(r) ==
    /\ req[r] # None /\ req[r].at = "read"
    /\ memo' = IF Keyed(r) THEN StructureOf(r) ELSE memo
    /\ Pushes(r, [NoPush(r) EXCEPT
            !.from = req[r].has.tag,
            !.kind = IF req[r].has.content # ContentOf(r) THEN "split"
                     ELSE IF req[r].has.tag = TagOf(r) THEN "none" ELSE "rename"])
    /\ UNCHANGED <<db, inputs, life, registered, wakes, node, bounds>>

\* The wake, or the end of the hold: the node's row is read again.
WakeUp(r) ==
    /\ req[r] # None /\ req[r].at = "parked" /\ waits = r
    /\ req' = [req EXCEPT ![r].at = "woke", ![r].node = db.node, ![r].again = TRUE]
    /\ UNCHANGED <<db, inputs, panel, wakes, node, bounds>>

\* A handler whose client hung up ends at its hold, or when it would write the answer.
HungUp(r) ==
    /\ req[r] # None /\ req[r].at \in {"parked", "answer"} /\ waits # r
    /\ req' = [req EXCEPT ![r] = None]
    /\ UNCHANGED <<db, inputs, panel, wakes, node, bounds>>

(* The node *)

\* state.json is written after every change of what is held; a failure is only logged.
Saves(new) ==
    /\ held' = new
    /\ \/ saved' = new /\ UNCHANGED bounds
       \/ saved' = saved /\ saved # new /\ Trouble

Answered(r) ==
    /\ req[r] # None /\ req[r].at = "answer" /\ waits = r
    /\ waits' = None
    /\ req' = [req EXCEPT ![r] = None]

Forgotten == [held EXCEPT !.tag = None]

\* nodestate.Apply: the change's rows in place of the held ones, and its addresses.
Applied(p) ==
    [tag |-> p.tag,
     content |-> [held.content EXCEPT
        !.who = [u \in Users |-> IF u \in p.touched THEN p.content.who[u] ELSE held.content.who[u]],
        !.blocked = IF p.kind = "rename" THEN held.content.blocked ELSE p.content.blocked]]

NothingToApply(r) ==
    /\ Answered(r)
    /\ req[r].push.kind = "none"
    /\ UNCHANGED <<db, inputs, panel, wakes, held, saved, bounds>>

ApplySplit(r) ==
    /\ Answered(r)
    /\ req[r].push.kind = "split"
    /\ Saves([tag |-> req[r].push.tag, content |-> req[r].push.content])
    /\ UNCHANGED <<db, inputs, panel, wakes>>

\* A change of a state the node does not hold is not taken: the node forgets its tag.
ApplyDelta(r) ==
    /\ Answered(r)
    /\ req[r].push.kind \in {"rename", "delta"}
    /\ Saves(IF held.content = None \/ req[r].push.from # held.tag THEN Forgotten
             ELSE Applied(req[r].push))
    /\ UNCHANGED <<db, inputs, panel, wakes>>

\* The node's Xray refuses the state, or its answer is lost, or cut short.
Refuses(r) ==
    /\ Answered(r)
    /\ Trouble
    /\ UNCHANGED <<db, inputs, panel, wakes, held, saved>>

\* The node gives up a request; its handler goes on.
GivesUp ==
    /\ waits # None
    /\ Trouble
    /\ waits' = None
    /\ UNCHANGED <<db, inputs, panel, wakes, held, saved, req>>

NodeRestart ==
    /\ Trouble
    /\ waits' = None
    /\ held' = saved
    /\ UNCHANGED <<db, inputs, panel, wakes, saved, req>>

PanelRestart ==
    /\ Trouble
    /\ life' = life + 1 /\ memo' = None /\ registered' = FALSE
    /\ says' = <<>> /\ cache' = 0 /\ fresh' = FALSE
    /\ journal' = [floor |-> 0, log |-> <<>>]
    /\ loop' = At("idle")
    /\ ask' = "no" /\ due' = FALSE
    /\ req' = [r \in Requests |-> None]
    /\ waits' = None
    /\ UNCHANGED <<db, held, saved>>

Handles(r) == \/ TakeChan(r) \/ ReadInputs(r) \/ Unchanged(r) \/ Delta(r) \/ Whole(r)
              \/ WakeUp(r) \/ HungUp(r)
Applies(r) == NothingToApply(r) \/ ApplySplit(r) \/ ApplyDelta(r) \/ Refuses(r)
Database == ChangeUsers \/ ChangeBlocked \/ ChangeSettings \/ EditNode
Loop == LoopFull \/ LoopUsers \/ LoopSynced \/ LoopAlone \/ FleetChanged \/ Notify

Next == \/ \E r \in Requests : Send(r) \/ Handles(r) \/ Applies(r)
        \/ Database \/ Announce \/ Loop \/ View \/ AgeCache
        \/ GivesUp \/ NodeRestart \/ PanelRestart

Spec == Init /\ [][Next]_vars

\* The agent polls, handlers and the reconcile loop go on, holds end and caches age.
FairSpec ==
    /\ Spec
    /\ \A r \in Requests : WF_vars(Send(r)) /\ WF_vars(Handles(r)) /\ WF_vars(Applies(r))
    /\ WF_vars(Announce) /\ WF_vars(Loop) /\ WF_vars(AgeCache)

TypeOK ==
    /\ db \in [settings: BOOLEAN, node: BOOLEAN, who: [Users -> Row], blocked: BOOLEAN]
    /\ says \in Seq(Inputs) /\ cache \in 0..Len(says) /\ fresh \in BOOLEAN
    /\ journal \in [floor: Nat, log: Seq(SUBSET Users)]
    /\ memo \in Structure \cup {None} /\ life \in Nat /\ registered \in BOOLEAN
    /\ loop \in [at: {"idle", "sync", "alone", "notify"}, ws: [Users -> Row], fresh: BOOLEAN]
    /\ ask \in {"no", "users", "full"} /\ due \in BOOLEAN
    /\ held \in Held /\ saved \in Held
    /\ waits \in Requests \cup {None}
    /\ req \in [Requests -> Handler \cup {None}]
    /\ changes \in 0..MaxChanges /\ trouble \in 0..MaxTrouble

\* What a state is called is what it is: a node that names a version and a structure of
\* this panel process holds exactly the rows and addresses that version had, whichever
\* changes, whole states and bare names got it there, and whatever was lost on the way.
\* Every "nothing changed" and every change sent rests on it, and nothing checks it.
TagSaysContent ==
    held.tag # None /\ held.tag.life = life =>
        /\ held.tag.version \in 1..Version
        /\ held.content = Built(held.tag.structure, says[held.tag.version])

\* "No lost wakeup" (handleNodeSync): while a request that found nothing new is held and
\* no wake has reached it, the settings its node runs on are those of the database, unless
\* the wake for them is still to come.
NoLostWakeup ==
    \A r \in Requests :
        req[r] # None /\ req[r].at = "parked" /\ waits = r /\ ~req[r].woken
        /\ ask # "full" /\ loop.at # "notify"
            => held.content.structure.settings = db.settings

\* Once nothing changes and nothing fails any more, the node comes to hold what the
\* database describes, and keeps it.
Converges == <>[](held.content = Desired)

\* The same of the node's own row: an edit that is announced reaches a held request.
NoLostEdit ==
    \A r \in Requests :
        req[r] # None /\ req[r].at = "parked" /\ waits = r /\ ~req[r].woken /\ ~due
            => held.content.structure.node = db.node
=============================================================================
