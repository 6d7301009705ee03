---------------------------- MODULE NodeTraffic ------------------------------
(***************************************************************************)
(* Traffic accounting between one node's agent and the panel.              *)
(*                                                                         *)
(* The agent (internal/nodeagent) samples Xray's counters into `pending`,  *)
(* promotes them to a report that keeps its id until it is acknowledged    *)
(* (`inflight`), and writes what is unacknowledged to carry.json when it   *)
(* stops.  The panel (internal/core, internal/store) books a report in one *)
(* transaction with the watermark last_report_id that makes a resend a     *)
(* no-op.  A report may be lost, answered after the agent gave up on it,   *)
(* or overtaken by its own resend; either side may restart at any point;   *)
(* the node may be switched off and on while a report is on its way.       *)
(*                                                                         *)
(* Traffic is a set of units, each consumed once: what the panel adds up   *)
(* is the number of units it books, so "counted exactly once" is a         *)
(* statement about single units.                                           *)
(***************************************************************************)
EXTENDS Naturals, FiniteSets

CONSTANTS
    Units,      \* units of traffic
    Users,      \* users of the node
    Lane,       \* the owner of per-protocol ("lane") traffic, not a user
    OwnerOf,    \* OwnerOf[u]: the user, or Lane, that unit u belongs to
    ChunkMax,   \* trafficChunkMax: most users one report carries
    Slots,      \* requests of this node that can be open at the panel at once
    NoSlot,     \* no request open
    DiskFaults  \* whether the agent's disk may fail

ASSUME NodeTrafficAssumption ==
    /\ Lane \notin Users
    /\ OwnerOf \in [Units -> Users \cup {Lane}]
    /\ ChunkMax \in Nat \ {0}
    /\ NoSlot \notin Slots
    /\ DiskFaults \in BOOLEAN

VARIABLES
    (* the agent's memory *)
    pc,             \* where syncLoop is: see PCs
    pending,        \* Agent.pending and pendingLanes
    inflight,       \* Agent.inflight and inflightLanes
    inflightID,     \* Agent.inflightID, 0 for no report in flight
    reportSeq,      \* Agent.reportSeq
    conn,           \* the slot whose answer the agent waits for, or NoSlot
    (* the agent's disk *)
    lastSent,       \* state.json: last_report_id
    carry,          \* carry.json, or NoCarry
    revoked,        \* Agent.revoked, in state.json too: the panel switched the node off
    (* requests on the wire and in the panel's handlers *)
    slot,
    (* the panel's database *)
    enabled,        \* nodes.enabled
    lastReportID,   \* nodes.last_report_id
    books,          \* how often each unit was added to its user's traffic
    (* observation only *)
    used,           \* units consumed and seen by a sample
    refused,        \* units of a taken report whose user the node does not serve
    lost            \* units that died in the agent's memory, or were acknowledged unread

agentVars == <<pc, pending, inflight, inflightID, reportSeq, conn>>
diskVars  == <<lastSent, carry, revoked>>
panelVars == <<enabled, lastReportID, books, refused>>
obsVars   == <<used, lost>>
vars == <<agentVars, diskVars, slot, panelVars, obsVars>>

Free ==
    [st |-> "free", rid |-> 0, batch |-> {}, knows |-> FALSE, ack |-> 0,
     off |-> FALSE, revoked |-> FALSE]
NoCarry == [kept |-> FALSE, inflightID |-> 0, inflight |-> {}, pending |-> {}]

PCs == {"stopped", "idle", "persist", "send", "wait"}

\* "sent": not read yet; "read": the node row was read, switched on; "held": what
\* IngestNodeSync answers is known; "answered": the response is on its way. knows is the
\* request's Revoked: the node knows it is switched off; off, that IngestNodeSync found
\* it switched off; revoked, the verdict of the response.
Request ==
    [st : {"free", "sent", "read", "held", "answered"},
     rid : Nat, batch : SUBSET Units, knows : BOOLEAN, ack : Nat,
     off : BOOLEAN, revoked : BOOLEAN]

Carry ==
    [kept : BOOLEAN, inflightID : Nat, inflight : SUBSET Units, pending : SUBSET Units]

\* Types, and how the agent's fields hang together: a report in flight has an id and some
\* traffic, and an answer is waited for exactly in the middle of a sync.
TypeOK ==
    /\ pc \in PCs
    /\ pending \subseteq Units
    /\ inflight \subseteq Units
    /\ inflightID \in Nat
    /\ reportSeq \in Nat
    /\ conn \in Slots \cup {NoSlot}
    /\ lastSent \in Nat
    /\ carry \in Carry
    /\ revoked \in BOOLEAN
    /\ slot \in [Slots -> Request]
    /\ enabled \in BOOLEAN
    /\ lastReportID \in Nat
    /\ books \in [Units -> Nat]
    /\ used \subseteq Units
    /\ refused \subseteq Units
    /\ lost \subseteq Units
    /\ inflightID = 0 <=> inflight = {}
    /\ conn = NoSlot <=> pc # "wait"

Init ==
    /\ pc = "idle"
    /\ pending = {} /\ inflight = {} /\ inflightID = 0
    /\ reportSeq = 0 /\ conn = NoSlot
    /\ lastSent = 0 /\ carry = NoCarry /\ revoked = FALSE
    /\ slot = [s \in Slots |-> Free]
    /\ enabled = TRUE /\ lastReportID = 0
    /\ books = [u \in Units |-> 0]
    /\ used = {} /\ refused = {} /\ lost = {}

-----------------------------------------------------------------------------
(* The agent *)

OwnedBy(us, units) == {u \in units : OwnerOf[u] \in us}

PendingUsers == {OwnerOf[u] : u \in pending} \ {Lane}

\* takeTrafficChunk: all the users waiting, or any ChunkMax of them.
Chunks ==
    IF Cardinality(PendingUsers) <= ChunkMax
    THEN {PendingUsers}
    ELSE {us \in SUBSET PendingUsers : Cardinality(us) = ChunkMax}

\* sampleStats: traffic moved since the last sample joins what is pending. It runs on
\* its own timer, before a restart and at the stop, whatever the sync is doing.
Sample(u) ==
    /\ pc # "stopped"
    /\ u \in Units \ used
    /\ used' = used \cup {u}
    /\ pending' = pending \cup {u}
    /\ UNCHANGED <<pc, inflight, inflightID, reportSeq, conn, diskVars, slot,
                   panelVars, lost>>

\* buildSyncRequest with nothing in flight: a chunk of the users' traffic, and all the
\* lanes', becomes the report of the next id. Lane traffic alone goes out when its five
\* minutes are up.
BuildFresh ==
    /\ pc = "idle"
    /\ inflightID = 0
    /\ pending # {}
    /\ \E us \in Chunks :
          LET batch == OwnedBy(us \cup {Lane}, pending)
          IN /\ inflight' = batch
             /\ pending' = pending \ batch
    /\ reportSeq' = reportSeq + 1
    /\ inflightID' = reportSeq + 1
    /\ pc' = "persist"
    /\ UNCHANGED <<conn, diskVars, slot, panelVars, obsVars>>

\* (mutant) an unanswered report is not sent again
BuildAgainEmptyOnly ==
    /\ pc = "idle" /\ inflightID = 0 /\ PendingUsers = {}
    /\ pc' = "send"
    /\ UNCHANGED <<pending, inflight, inflightID, reportSeq, conn, diskVars, slot,
                   panelVars, obsVars>>

\* buildSyncRequest otherwise: the report in flight goes out again as it was, or the
\* request carries none.
BuildAgain ==
    /\ pc = "idle"
    /\ inflightID # 0 \/ PendingUsers = {}
    /\ pc' = "send"
    /\ UNCHANGED <<pending, inflight, inflightID, reportSeq, conn, diskVars, slot,
                   panelVars, obsVars>>

\* noteReportID: the id reaches the disk before the report leaves. A write that fails is
\* only logged.
NoteReportID ==
    /\ pc = "persist"
    /\ pc' = "send"
    /\ lastSent' = inflightID \/ (DiskFaults /\ lastSent' = lastSent)
    /\ UNCHANGED <<pending, inflight, inflightID, reportSeq, conn, carry, revoked, slot,
                   panelVars, obsVars>>

\* syncOnce: the request goes out.
Send(s) ==
    /\ pc = "send"
    /\ slot[s] = Free
    /\ slot' = [slot EXCEPT ![s] = [st |-> "sent", rid |-> inflightID,
                                    batch |-> inflight, knows |-> revoked,
                                    ack |-> 0, off |-> FALSE, revoked |-> FALSE]]
    /\ conn' = s
    /\ pc' = "wait"
    /\ UNCHANGED <<pending, inflight, inflightID, reportSeq, diskVars, panelVars,
                   obsVars>>

\* A request whose agent has stopped waiting for it. It may still be booked, but what is
\* answered to it no longer matters.
Unheard(req) ==
    IF req.st \in {"held", "answered"} THEN Free ELSE [req EXCEPT !.knows = FALSE]

HangUp == slot' = [s \in Slots |-> IF s = conn THEN Unheard(slot[s]) ELSE slot[s]]

\* syncOnce returns an error: a timeout, a cut connection, the node's own interrupt.
\* Whether the panel has the request, nobody on this side knows.
GiveUp ==
    /\ pc = "wait"
    /\ HangUp
    /\ conn' = NoSlot
    /\ pc' = "idle"
    /\ UNCHANGED <<pending, inflight, inflightID, reportSeq, diskVars, panelVars, obsVars>>

\* ackReportLocked
Acknowledges(ack) == ack > 0 /\ inflightID # 0 /\ ack >= inflightID

\* (mutant) the ack of a revoked answer is believed
SettlesRevoked(resp) == Acknowledges(resp.ack)

\* What syncLoop does with an answer. A revoked one is left before settleReport: its ack
\* settles nothing.
Settles(resp) == ~resp.revoked /\ Acknowledges(resp.ack)

\* A revoked answer is remembered on disk; the next other one starts Xray again, which
\* may fail.
HearRevoked(resp) ==
    \/ revoked' = resp.revoked
    \/ ~resp.revoked /\ revoked' = revoked

\* (mutant) the acknowledged report keeps its traffic
ReceiveKeepsTraffic ==
    /\ pc = "wait" /\ slot[conn].st = "answered"
    /\ HearRevoked(slot[conn])
    /\ inflightID' = IF Settles(slot[conn]) THEN 0 ELSE inflightID
    /\ lost' = lost
    /\ slot' = [slot EXCEPT ![conn] = Free]
    /\ conn' = NoSlot /\ pc' = "idle"
    /\ UNCHANGED <<pending, inflight, reportSeq, lastSent, carry, panelVars, used>>

Receive ==
    /\ pc = "wait"
    /\ slot[conn].st = "answered"
    /\ HearRevoked(slot[conn])
    /\ IF Settles(slot[conn])
       THEN /\ inflight' = {} /\ inflightID' = 0
            /\ lost' = IF slot[conn].off THEN lost \cup inflight ELSE lost
       ELSE UNCHANGED <<inflight, inflightID, lost>>
    /\ slot' = [slot EXCEPT ![conn] = Free]
    /\ conn' = NoSlot
    /\ pc' = "idle"
    /\ UNCHANGED <<pending, reportSeq, lastSent, carry, panelVars, used>>

Forget ==
    /\ HangUp
    /\ pc' = "stopped"
    /\ pending' = {} /\ inflight' = {} /\ inflightID' = 0
    /\ reportSeq' = 0 /\ conn' = NoSlot

\* (mutant) only what was never sent is kept
KeptPending ==
    IF pending = {} THEN carry
    ELSE [kept |-> TRUE, inflightID |-> 0, inflight |-> {}, pending |-> pending]

\* keepTrafficOnStop: what the panel has not acknowledged is written to carry.json. With
\* nothing to keep no file is written, and one already there stays.
Kept ==
    IF pending \cup inflight = {} THEN carry
    ELSE [kept |-> TRUE, inflightID |-> inflightID, inflight |-> inflight,
          pending |-> pending]

\* shutdown, and selfUpdate: a request being built is finished first.
Stop ==
    /\ pc \notin {"stopped", "persist"}
    /\ Forget
    /\ \/ carry' = Kept /\ lost' = lost
       \/ DiskFaults /\ carry' = carry /\ lost' = lost \cup pending \cup inflight
    /\ UNCHANGED <<lastSent, revoked, panelVars, used>>

\* The process dies: nothing is written.
Crash ==
    /\ pc # "stopped"
    /\ Forget
    /\ lost' = lost \cup pending \cup inflight
    /\ UNCHANGED <<diskVars, panelVars, used>>

\* (mutant) the file stays after it is restored
RestoreLeavesFile(seq) ==
    LET restored == carry.inflightID # 0 /\ carry.inflight # {}
        id == IF restored THEN carry.inflightID ELSE 0
    IN /\ pending' = carry.pending
       /\ inflight' = IF restored THEN carry.inflight ELSE {}
       /\ inflightID' = id
       /\ reportSeq' = IF id > seq THEN id ELSE seq
       /\ lastSent' = IF id > seq THEN id ELSE lastSent
       /\ carry' = carry

\* restoreCarry: the file is removed before it is used.
Restore(seq) ==
    LET restored == carry.inflightID # 0 /\ carry.inflight # {}
        id == IF restored THEN carry.inflightID ELSE 0
    IN /\ pending' = carry.pending
       /\ inflight' = IF restored THEN carry.inflight ELSE {}
       /\ inflightID' = id
       /\ reportSeq' = IF id > seq THEN id ELSE seq
       /\ lastSent' = IF id > seq THEN id ELSE lastSent
       /\ carry' = NoCarry

\* A file that cannot be removed is dropped, not restored; it may be there, and
\* removable, at the next start.
DropCarry(seq) ==
    /\ pending' = {} /\ inflight' = {} /\ inflightID' = 0
    /\ reportSeq' = seq
    /\ UNCHANGED <<lastSent, carry>>

\* newAgent: state.json, empty when it cannot be read, gives the last id used; carry.json
\* what was left unacknowledged.
Start ==
    /\ pc = "stopped"
    /\ pc' = "idle"
    /\ conn' = NoSlot
    /\ \/ Restore(lastSent) /\ UNCHANGED revoked
       \/ DiskFaults /\ Restore(0) /\ revoked' = FALSE
       \/ DiskFaults /\ carry.kept /\ DropCarry(lastSent) /\ UNCHANGED revoked
    /\ UNCHANGED <<slot, panelVars, obsVars>>

-----------------------------------------------------------------------------
(* The panel and the wire *)

\* IngestNodeSync's answer is known, to whoever still waits for it.
Decided(s, req) == IF conn = s THEN [req EXCEPT !.st = "held"] ELSE Free

\* handleNodeSync looks the node up. For one that is switched off IngestNodeSync takes
\* nothing of the report, and answers that it is revoked with the report's id as the ack.
ReadNode(s) ==
    /\ slot[s].st = "sent"
    /\ slot' = [slot EXCEPT ![s] =
          IF enabled THEN [@ EXCEPT !.st = "read"]
          ELSE Decided(s, [@ EXCEPT !.ack = slot[s].rid, !.off = TRUE])]
    /\ UNCHANGED <<agentVars, diskVars, panelVars, obsVars>>

\* (mutant) a report at the watermark is taken for a new one
ClaimsAtWatermark(rid) == rid >= lastReportID /\ rid > 0

\* claimNodeReportOn: the watermark moves forward only.
Claims(rid) == rid > lastReportID

\* ApplyNodeReport: claim and traffic in one transaction.
Book(rid, batch, foreign) ==
    IF Claims(rid)
    THEN LET believed == {u \in batch : OwnerOf[u] \notin foreign}
         IN /\ lastReportID' = rid
            /\ books' = [u \in Units |-> IF u \in believed THEN books[u] + 1
                                                           ELSE books[u]]
            /\ refused' = refused \cup (batch \ believed)
    ELSE UNCHANGED <<lastReportID, books, refused>>

\* IngestNodeSync: the report is booked, or found counted already; either is
\* acknowledged. The rows of users the node does not serve are dropped.
Ingest(s) ==
    /\ slot[s].st = "read"
    /\ \E foreign \in SUBSET Users : Book(slot[s].rid, slot[s].batch, foreign)
    /\ slot' = [slot EXCEPT ![s] = Decided(s, [@ EXCEPT !.ack = slot[s].rid])]
    /\ UNCHANGED <<agentVars, diskVars, enabled, obsVars>>

\* IngestNodeSync when the served users cannot be told, or the transaction fails:
\* nothing is committed and nothing acknowledged.
IngestFails(s) ==
    /\ slot[s].st = "read"
    /\ slot[s].rid > 0
    /\ slot' = [slot EXCEPT ![s] = Decided(s, @)]
    /\ UNCHANGED <<agentVars, diskVars, panelVars, obsVars>>

\* Answered on the spot, as ingested; or held while the node's belief and ours agree, and
\* answered as the node is switched at the end of the hold, with the ack from before it.
Verdicts(req) == {req.off} \cup (IF req.off = req.knows THEN {~enabled} ELSE {})

Answer(s) ==
    /\ slot[s].st = "held"
    /\ \E verdict \in Verdicts(slot[s]) :
          slot' = [slot EXCEPT ![s] = [@ EXCEPT !.st = "answered", !.revoked = verdict]]
    /\ UNCHANGED <<agentVars, diskVars, panelVars, obsVars>>

\* A request or its answer is lost, or its handler dies with the panel.
Lose(s) ==
    /\ slot[s] # Free
    /\ slot' = [slot EXCEPT ![s] = Free]
    /\ conn' = IF conn = s THEN NoSlot ELSE conn
    /\ pc' = IF conn = s THEN "idle" ELSE pc
    /\ UNCHANGED <<pending, inflight, inflightID, reportSeq, diskVars, panelVars,
                   obsVars>>

\* The operator switches the node off (or deletes it) or on.
SetEnabled ==
    /\ enabled' = ~enabled
    /\ UNCHANGED <<agentVars, diskVars, slot, lastReportID, books, refused, used,
                   lost>>

AgentNext ==
    \/ \E u \in Units : Sample(u)
    \/ BuildFresh \/ BuildAgain \/ NoteReportID
    \/ \E s \in Slots : Send(s)
    \/ GiveUp \/ Receive
    \/ Stop \/ Crash \/ Start

PanelNext ==
    \/ \E s \in Slots : ReadNode(s) \/ Ingest(s) \/ IngestFails(s) \/ Answer(s) \/ Lose(s)
    \/ SetEnabled

Next == AgentNext \/ PanelNext

Spec == Init /\ [][Next]_vars

-----------------------------------------------------------------------------
(* Properties *)

\* Where a unit may still be counted from: the reports, with their ids, that hold it.
HoldsInFlight(u, r) == inflightID = r /\ u \in inflight
HoldsCarry(u, r)    == carry.inflightID = r /\ u \in carry.inflight
HoldsSlot(s, u, r)  == slot[s].rid = r /\ u \in slot[s].batch
Holds(u, r) == HoldsInFlight(u, r) \/ HoldsCarry(u, r) \/ \E s \in Slots : HoldsSlot(s, u, r)

Booked == {u \in used : books[u] > 0}
Settled == Booked \cup refused

\* A unit of traffic is booked at most once, whatever is lost, resent, delayed or
\* restarted, and whatever the agent's disk does to its files (ApplyNodeReport, carry.go).
ExactlyOnce == \A u \in Units : books[u] <= 1

\* What the agent's comments say of every answer: an acknowledged report was ingested.
AckAlwaysMeansSettled ==
    ~DiskFaults /\ conn \in Slots /\ slot[conn].st = "answered" /\ Settles(slot[conn]) =>
        inflight \subseteq Settled

\* The report the agent waits on is acknowledged only once every unit of it is booked or
\* refused, so that settleReport may forget it: ackReport "clears the in-flight batch once
\* the panel confirms it ingested it". A node switched on again under a held request is the
\* exception the code makes (off); a disk that loses the report ids is the other.
AckMeansSettled ==
    conn \in Slots /\ (slot[conn].off => slot[conn].revoked) => AckAlwaysMeansSettled

\* One id, one report: two requests of the same id carry the same traffic, so taking
\* either for the other's resend (claimNodeReportOn) loses nothing.
OneReportPerId ==
    ~DiskFaults =>
        \A s, t \in Slots :
            slot[s].rid = slot[t].rid /\ slot[s].rid # 0 => slot[s].batch = slot[t].batch

\* Every unit consumed is counted, or somewhere it will be counted from, or died in the
\* memory of an agent that did not stop properly (or was acknowledged unread): none slips
\* between pending, a report, carry.json and the panel's transaction, and no restart
\* makes a new report pass for an old one.
Accounted ==
    ~DiskFaults =>
        used = pending \cup inflight \cup carry.pending \cup carry.inflight
               \cup Settled \cup lost

\* The ledger the panel keeps is the abstract one: a report settles units that were
\* outstanding, each once.
Ledger == INSTANCE TrafficLedger
ImplementsLedger == Ledger!Spec

\* The panel's watermark never moves back, and never passes an id the node has not sent:
\* a node cannot find its next report already "counted".
WatermarkMonotone == [][lastReportID' >= lastReportID]_vars
WatermarkBehind == ~DiskFaults => lastReportID <= lastSent

-----------------------------------------------------------------------------
(* Fairness: each loop and handler the code runs keeps running.  syncLoop retries for    *)
(* ever and lane traffic goes out when it is due, systemd starts a stopped agent, and a   *)
(* handler always ends: answered, or with its connection gone.                            *)

Fairness ==
    /\ WF_vars(Start)
    /\ WF_vars(BuildAgain) /\ SF_vars(BuildFresh) /\ WF_vars(NoteReportID)
    /\ \A s \in Slots : WF_vars(Send(s)) /\ WF_vars(ReadNode(s)) /\ WF_vars(Ingest(s))
                       /\ WF_vars(Answer(s)) /\ WF_vars(Lose(s) /\ conn # s)
    /\ WF_vars(Receive)

FairSpec == Spec /\ Fairness

\* What may go wrong with a request or its agent, short of losing traffic for good.
Trouble ==
    \/ GiveUp \/ Stop \/ Crash \/ SetEnabled
    \/ \E s \in Slots : IngestFails(s) \/ (Lose(s) /\ conn = s)

\* Once the trouble ends with the node switched on, traffic carried at any time before is
\* settled: no report stays stuck behind a lost answer, a failed transaction, a revoked
\* answer or a restart. Not what died in the agent's memory, or was acknowledged unread.
EventuallySettled ==
    ~DiskFaults /\ <>[]enabled /\ <>[][~Trouble]_vars =>
        \A u \in Units : [](u \in used => <>(u \in Settled \cup lost))
=============================================================================
