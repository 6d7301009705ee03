-------------------------- MODULE NodeTrafficProofs --------------------------
(***************************************************************************)
(* Proofs about NodeTraffic, for any users, units, chunk size and number   *)
(* of open requests.  Whatever the agent's disk does: its types, that no   *)
(* unit is booked twice, and that it implements TrafficLedger.  With a     *)
(* disk that works: that nothing slips between agent and panel, that acks  *)
(* mean what they say, and that an id means one report.                    *)
(*                                                                         *)
(* The invariant behind the first part: a unit waits in one place or       *)
(* travels under one report id, and once it is booked or refused every     *)
(* report that still holds it has an id the watermark has passed.  Behind  *)
(* the second (Whole): the state file knows every id that has left, the    *)
(* report in flight is the latest, and one id means one batch.             *)
(***************************************************************************)
EXTENDS NodeTraffic, FiniteSetTheorems, TLAPS

Waiting == pending \cup carry.pending

Done(u) == books[u] > 0 \/ u \in refused

\* What is waiting or reported was consumed.
HeldIsUsed ==
    /\ Waiting \cup inflight \cup carry.inflight \subseteq used
    /\ \A s \in Slots : slot[s].batch \subseteq used

\* A unit that waits is in no report, and waits once.
WaitsOnce ==
    /\ pending \cap carry.pending = {}
    /\ Waiting \cap inflight = {}
    /\ Waiting \cap carry.inflight = {}
    /\ \A s \in Slots : Waiting \cap slot[s].batch = {}

\* All the reports that hold a unit have one id.
OneId ==
    /\ \A u \in inflight \cap carry.inflight : inflightID = carry.inflightID
    /\ \A s \in Slots :
          /\ \A u \in inflight \cap slot[s].batch : inflightID = slot[s].rid
          /\ \A u \in carry.inflight \cap slot[s].batch : carry.inflightID = slot[s].rid
    /\ \A s, t \in Slots : \A u \in slot[s].batch \cap slot[t].batch :
          slot[s].rid = slot[t].rid

\* What is settled waits nowhere, and the reports that hold it are behind the watermark.
DoneIsPassed ==
    \A u \in Units : Done(u) =>
        /\ u \in used
        /\ u \notin Waiting
        /\ u \in inflight => inflightID <= lastReportID
        /\ u \in carry.inflight => carry.inflightID <= lastReportID
        /\ \A s \in Slots : u \in slot[s].batch => slot[s].rid <= lastReportID

\* Nothing is booked twice, nor booked and refused.
DoneOnce == \A u \in Units : books[u] <= 1 /\ (u \in refused => books[u] = 0)

IInv == TypeOK /\ HeldIsUsed /\ WaitsOnce /\ OneId /\ DoneIsPassed /\ DoneOnce

-----------------------------------------------------------------------------
(* Types *)

\* A chunk of pending traffic is some of it, and never none.
LEMMA ChunkTakesSome ==
    ASSUME NodeTrafficAssumption, pending \subseteq Units, pending # {}, NEW us \in Chunks
    PROVE  OwnedBy(us \cup {Lane}, pending) # {}
<1>1. CASE PendingUsers = {}
    BY <1>1 DEF OwnedBy, PendingUsers
<1>2. CASE PendingUsers # {}
    <2>1. us # {}
        BY <1>2, FS_EmptySet DEF Chunks, NodeTrafficAssumption
    <2>2. us \subseteq PendingUsers
        BY DEF Chunks
    <2> QED
        BY <2>1, <2>2 DEF OwnedBy, PendingUsers
<1> QED
    BY <1>1, <1>2

\* A request that changes hands, or is gone, is still a request.
LEMMA UnheardTypes ==
    ASSUME NEW req \in Request
    PROVE  Unheard(req) \in Request
BY DEF Unheard, Request, Free

LEMMA DecidedTypes ==
    ASSUME NEW s \in Slots, NEW req \in Request
    PROVE  Decided(s, req) \in Request
BY DEF Decided, Request, Free

LEMMA HangUpTypes ==
    ASSUME TypeOK, HangUp
    PROVE  slot' \in [Slots -> Request]
BY UnheardTypes DEF TypeOK, HangUp

LEMMA ForgetTypes ==
    ASSUME TypeOK, Forget, NodeTrafficAssumption
    PROVE  /\ slot' \in [Slots -> Request]
           /\ pc' = "stopped" /\ pending' = {} /\ inflight' = {} /\ inflightID' = 0
           /\ reportSeq' = 0 /\ conn' = NoSlot
BY HangUpTypes DEF Forget

\* The types hold in every reachable state.
LEMMA TypeInit == NodeTrafficAssumption /\ Init => TypeOK
<1> SUFFICES ASSUME NodeTrafficAssumption, Init PROVE TypeOK
    OBVIOUS
<1>1. Free \in Request /\ NoCarry \in Carry
    BY DEF Free, Request, NoCarry, Carry
<1>2. slot \in [Slots -> Request] /\ carry \in Carry /\ books \in [Units -> Nat]
    BY <1>1 DEF Init
<1> QED
    BY <1>2 DEF Init, TypeOK, PCs

LEMMA TypeNext == NodeTrafficAssumption /\ TypeOK /\ [Next]_vars => TypeOK'
<1> SUFFICES ASSUME NodeTrafficAssumption, TypeOK, [Next]_vars
             PROVE  TypeOK'
    OBVIOUS
<1>1. ASSUME NEW u \in Units, Sample(u)
      PROVE  TypeOK'
    BY <1>1 DEF Sample, TypeOK, diskVars, panelVars
<1>2. CASE BuildFresh
    <2>1. PICK us \in Chunks :
             /\ inflight' = OwnedBy(us \cup {Lane}, pending)
             /\ pending' = pending \ OwnedBy(us \cup {Lane}, pending)
        BY <1>2 DEF BuildFresh
    <2>2. inflight' \subseteq Units /\ pending' \subseteq Units /\ inflight' # {}
        BY <1>2, <2>1, ChunkTakesSome DEF TypeOK, OwnedBy, BuildFresh
    <2>3. inflightID' \in Nat /\ inflightID' # 0 /\ reportSeq' \in Nat
        BY <1>2 DEF BuildFresh, TypeOK
    <2> QED
        BY <1>2, <2>2, <2>3 DEF BuildFresh, TypeOK, PCs, diskVars, panelVars, obsVars
<1>3. CASE BuildAgain
    BY <1>3 DEF BuildAgain, TypeOK, PCs, diskVars, panelVars, obsVars
<1>4. CASE NoteReportID
    BY <1>4 DEF NoteReportID, TypeOK, PCs, panelVars, obsVars
<1>5. ASSUME NEW s \in Slots, Send(s)
      PROVE  TypeOK'
    <2>1. slot' \in [Slots -> Request]
        BY <1>5 DEF Send, TypeOK, Request
    <2> QED
        BY <1>5, <2>1 DEF Send, TypeOK, PCs, diskVars, panelVars, obsVars,
           NodeTrafficAssumption
<1>6. CASE GiveUp
    BY <1>6, HangUpTypes DEF GiveUp, TypeOK, PCs, diskVars, panelVars, obsVars
<1>7. CASE Receive
    <2>1. slot' \in [Slots -> Request]
        BY <1>7 DEF Receive, TypeOK, Request, Free
    <2>2. revoked' \in BOOLEAN
        <3>1. conn \in Slots
            BY <1>7 DEF Receive, TypeOK
        <3> QED
            BY <1>7, <3>1 DEF Receive, HearRevoked, TypeOK, Request
    <2>3. /\ inflight' \subseteq Units /\ inflightID' \in Nat /\ lost' \subseteq Units
          /\ inflightID' = 0 <=> inflight' = {}
        BY <1>7 DEF Receive, TypeOK
    <2> QED
        BY <1>7, <2>1, <2>2, <2>3 DEF Receive, TypeOK, PCs, panelVars
<1>8. CASE Stop
    <2>1. carry' \in Carry /\ lost' \subseteq Units
        <3>1. Kept \in Carry
            BY DEF Kept, TypeOK, Carry
        <3> QED
            BY <1>8, <3>1 DEF Stop, TypeOK
    <2> QED
        BY <1>8, <2>1, ForgetTypes DEF Stop, TypeOK, PCs, panelVars
<1>9. CASE Crash
    BY <1>9, ForgetTypes DEF Crash, TypeOK, PCs, diskVars, panelVars
<1>10. CASE Start
    <2>1. ASSUME NEW seq \in Nat, Restore(seq)
          PROVE  /\ pending' \subseteq Units /\ inflight' \subseteq Units
                 /\ inflightID' \in Nat /\ reportSeq' \in Nat /\ lastSent' \in Nat
                 /\ carry' \in Carry
                 /\ inflightID' = 0 <=> inflight' = {}
        BY <2>1 DEF Restore, TypeOK, Carry, NoCarry
    <2>2. ASSUME DropCarry(lastSent)
          PROVE  /\ pending' \subseteq Units /\ inflight' \subseteq Units
                 /\ inflightID' \in Nat /\ reportSeq' \in Nat /\ lastSent' \in Nat
                 /\ carry' \in Carry
                 /\ inflightID' = 0 <=> inflight' = {}
        BY <2>2 DEF DropCarry, TypeOK
    <2>3. lastSent \in Nat /\ 0 \in Nat
        BY DEF TypeOK
    <2> QED
        BY <1>10, <2>1, <2>2, <2>3 DEF Start, TypeOK, PCs, panelVars, obsVars
<1>11. ASSUME NEW s \in Slots, ReadNode(s)
       PROVE  TypeOK'
    <2>1. slot' \in [Slots -> Request]
        <3> DEFINE read == [slot[s] EXCEPT !.st = "read"]
                   off  == [slot[s] EXCEPT !.ack = slot[s].rid, !.off = TRUE]
        <3> slot[s] \in Request
            BY DEF TypeOK
        <3>1. read \in Request /\ off \in Request
            BY DEF Request
        <3>2. Decided(s, off) \in Request
            BY <3>1, DecidedTypes
        <3>3. slot' = [slot EXCEPT ![s] = IF enabled THEN read ELSE Decided(s, off)]
            BY <1>11 DEF ReadNode
        <3> QED
            BY <3>1, <3>2, <3>3 DEF TypeOK
    <2> QED
        BY <1>11, <2>1 DEF ReadNode, TypeOK, agentVars, diskVars, panelVars, obsVars
<1>12. ASSUME NEW s \in Slots, Ingest(s)
       PROVE  TypeOK'
    <2>1. slot' \in [Slots -> Request]
        BY <1>12, DecidedTypes DEF Ingest, TypeOK, Request
    <2>2. PICK foreign \in SUBSET Users : Book(slot[s].rid, slot[s].batch, foreign)
        BY <1>12 DEF Ingest
    <2>3. slot[s].rid \in Nat /\ slot[s].batch \subseteq Units
        BY DEF TypeOK, Request
    <2>4. lastReportID' \in Nat /\ books' \in [Units -> Nat] /\ refused' \subseteq Units
        BY <2>2, <2>3 DEF Book, TypeOK
    <2> QED
        BY <1>12, <2>1, <2>4 DEF Ingest, TypeOK, agentVars, diskVars, obsVars
<1>13. ASSUME NEW s \in Slots, IngestFails(s)
       PROVE  TypeOK'
    <2>1. slot' \in [Slots -> Request]
        BY <1>13, DecidedTypes DEF IngestFails, TypeOK
    <2> QED
        BY <1>13, <2>1 DEF IngestFails, TypeOK, agentVars, diskVars, panelVars, obsVars
<1>14. ASSUME NEW s \in Slots, Answer(s)
       PROVE  TypeOK'
    <2>1. PICK verdict \in Verdicts(slot[s]) :
             slot' = [slot EXCEPT ![s] = [@ EXCEPT !.st = "answered", !.revoked = verdict]]
        BY <1>14 DEF Answer
    <2>2. verdict \in BOOLEAN
        BY DEF Verdicts, TypeOK, Request
    <2>3. slot' \in [Slots -> Request]
        <3> DEFINE answer == [slot[s] EXCEPT !.st = "answered", !.revoked = verdict]
        <3> slot[s] \in Request
            BY DEF TypeOK
        <3>1. answer \in Request
            BY <2>2 DEF Request
        <3> QED
            BY <2>1, <3>1 DEF TypeOK
    <2> QED
        BY <1>14, <2>3 DEF Answer, TypeOK, agentVars, diskVars, panelVars, obsVars
<1>15. ASSUME NEW s \in Slots, Lose(s)
       PROVE  TypeOK'
    <2>1. slot' \in [Slots -> Request]
        BY <1>15 DEF Lose, TypeOK, Request, Free
    <2> QED
        BY <1>15, <2>1 DEF Lose, TypeOK, PCs, diskVars, panelVars, obsVars,
           NodeTrafficAssumption
<1>16. CASE SetEnabled
    BY <1>16 DEF SetEnabled, TypeOK, agentVars, diskVars, obsVars
<1>17. CASE UNCHANGED vars
    BY <1>17 DEF vars, TypeOK, agentVars, diskVars, panelVars, obsVars
<1> QED
    BY <1>1, <1>2, <1>3, <1>4, <1>5, <1>6, <1>7, <1>8, <1>9, <1>10, <1>11, <1>12, <1>13,
       <1>14, <1>15, <1>16, <1>17 DEF Next, AgentNext, PanelNext

\* The agent's and the panel's fields keep their types, and a report in flight always has
\* an id and some traffic (buildSyncRequest, ackReportLocked, restoreCarry).
THEOREM TypeCorrect == Spec => []TypeOK
<1>1. NodeTrafficAssumption
    BY NodeTrafficAssumption
<1> QED
    BY <1>1, TypeInit, TypeNext, PTL DEF Spec

-----------------------------------------------------------------------------
(* No unit is booked twice *)

\* The request table after a step that answers, ends or forgets requests: each carries
\* what it did, or nothing.
SlotsShrink ==
    \A s \in Slots :
        \/ slot'[s].batch = {}
        \/ slot'[s].batch = slot[s].batch /\ slot'[s].rid = slot[s].rid

\* A step that books nothing and moves no unit, though it may forget some.
Shrinks ==
    /\ UNCHANGED <<used, lastReportID, books, refused, carry>>
    /\ pending' \subseteq pending
    /\ inflight' = {} \/ (inflight' = inflight /\ inflightID' = inflightID)
    /\ SlotsShrink

LEMMA ShrinkKeeps ==
    ASSUME IInv, TypeOK', Shrinks
    PROVE  IInv'
<1>1. HeldIsUsed'
    BY DEF IInv, HeldIsUsed, Waiting, Shrinks, SlotsShrink
<1>2. WaitsOnce'
    BY DEF IInv, WaitsOnce, Waiting, Shrinks, SlotsShrink
<1>3. OneId'
    <2>1. \A u \in (inflight \cap carry.inflight)' : inflightID' = carry'.inflightID
        BY DEF IInv, OneId, Shrinks
    <2>2. ASSUME NEW s \in Slots
          PROVE  /\ \A u \in inflight' \cap slot'[s].batch : inflightID' = slot'[s].rid
                 /\ \A u \in carry'.inflight \cap slot'[s].batch :
                       carry'.inflightID = slot'[s].rid
        BY DEF IInv, OneId, Shrinks, SlotsShrink
    <2>3. ASSUME NEW s \in Slots, NEW q \in Slots
          PROVE  \A u \in slot'[s].batch \cap slot'[q].batch : slot'[s].rid = slot'[q].rid
        BY DEF IInv, OneId, Shrinks, SlotsShrink
    <2> QED
        BY <2>1, <2>2, <2>3 DEF OneId
<1>4. DoneIsPassed'
    BY DEF IInv, DoneIsPassed, Done, Waiting, Shrinks, SlotsShrink
<1>5. DoneOnce'
    BY DEF IInv, DoneOnce, Shrinks
<1> QED
    BY <1>1, <1>2, <1>3, <1>4, <1>5 DEF IInv

LEMMA HangUpShrinks ==
    ASSUME TypeOK, HangUp
    PROVE  SlotsShrink
<1>1. ASSUME NEW req \in Request
      PROVE  \/ Unheard(req).batch = {}
             \/ Unheard(req).batch = req.batch /\ Unheard(req).rid = req.rid
    BY DEF Unheard, Request, Free
<1> QED
    BY <1>1 DEF SlotsShrink, HangUp, TypeOK

\* A request the panel has decided about carries what it did, or nothing.
LEMMA DecidingShrinks ==
    ASSUME TypeOK, NEW s \in Slots, NEW req \in Request,
           req.batch = slot[s].batch, req.rid = slot[s].rid,
           slot' = [slot EXCEPT ![s] = Decided(s, req)]
    PROVE  SlotsShrink
<1>1. \/ Decided(s, req).batch = {}
      \/ Decided(s, req).batch = slot[s].batch /\ Decided(s, req).rid = slot[s].rid
    BY DEF Decided, Free, Request
<1> QED
    BY <1>1 DEF SlotsShrink, TypeOK

\* A new report takes units from pending.
LEMMA BuildFreshKeeps ==
    ASSUME IInv, TypeOK', BuildFresh
    PROVE  IInv'
<1> USE DEF IInv
<1>1. PICK batch \in SUBSET pending : inflight' = batch /\ pending' = pending \ batch
    BY DEF BuildFresh, OwnedBy
<1>2. UNCHANGED <<slot, carry, used, lastReportID, books, refused>>
    BY DEF BuildFresh, diskVars, panelVars, obsVars
<1>3. HeldIsUsed'
    BY <1>1, <1>2 DEF HeldIsUsed, Waiting
<1>4. WaitsOnce'
    BY <1>1, <1>2, inflight = {} DEF WaitsOnce, Waiting, TypeOK, BuildFresh
<1>5. OneId'
    BY <1>1, <1>2 DEF OneId, WaitsOnce, Waiting
<1>6. DoneIsPassed'
    BY <1>1, <1>2 DEF DoneIsPassed, Done, Waiting
<1>7. DoneOnce'
    BY <1>2 DEF DoneOnce
<1> QED
    BY <1>3, <1>4, <1>5, <1>6, <1>7

\* A request carries the report in flight.
LEMMA SendKeeps ==
    ASSUME IInv, TypeOK', NEW s \in Slots, Send(s)
    PROVE  IInv'
<1> USE DEF IInv
<1>1. /\ slot'[s].rid = inflightID /\ slot'[s].batch = inflight
      /\ \A q \in Slots \ {s} : slot'[q] = slot[q]
    BY DEF Send, TypeOK
<1>2. UNCHANGED <<pending, inflight, inflightID, carry, used, lastReportID, books, refused>>
    BY DEF Send, diskVars, panelVars, obsVars
<1>3. HeldIsUsed'
    BY <1>1, <1>2 DEF HeldIsUsed, Waiting
<1>4. WaitsOnce'
    BY <1>1, <1>2 DEF WaitsOnce, Waiting
<1>5. OneId'
    <2>1. ASSUME NEW q \in Slots
          PROVE  /\ \A u \in inflight \cap slot'[q].batch : inflightID = slot'[q].rid
                 /\ \A u \in carry.inflight \cap slot'[q].batch :
                       carry.inflightID = slot'[q].rid
        BY <1>1 DEF OneId
    <2>2. ASSUME NEW q \in Slots, NEW r \in Slots
          PROVE  \A u \in slot'[q].batch \cap slot'[r].batch : slot'[q].rid = slot'[r].rid
        BY <1>1 DEF OneId
    <2> QED
        BY <1>2, <2>1, <2>2 DEF OneId
<1>6. DoneIsPassed'
    BY <1>1, <1>2 DEF DoneIsPassed, Done, Waiting
<1>7. DoneOnce'
    BY <1>2 DEF DoneOnce
<1> QED
    BY <1>3, <1>4, <1>5, <1>6, <1>7

\* What the agent had goes to carry.json.
LEMMA StopKeeps ==
    ASSUME IInv, TypeOK', Stop
    PROVE  IInv'
<1> USE DEF IInv
<1>1. SlotsShrink
    BY HangUpShrinks DEF Stop, Forget
<1>2. /\ UNCHANGED <<used, lastReportID, books, refused>>
      /\ pending' = {} /\ inflight' = {} /\ inflightID' = 0
    BY DEF Stop, Forget, panelVars
<1>3. CASE carry' = carry
    <2>1. Shrinks
        BY <1>1, <1>2, <1>3 DEF Shrinks
    <2> QED
        BY <2>1, ShrinkKeeps
<1>4. CASE /\ carry'.inflightID = inflightID
           /\ carry'.inflight = inflight /\ carry'.pending = pending
    <2>1. HeldIsUsed'
        BY <1>1, <1>2, <1>4 DEF HeldIsUsed, Waiting, SlotsShrink
    <2>2. WaitsOnce'
        BY <1>1, <1>2, <1>4 DEF WaitsOnce, Waiting, SlotsShrink
    <2>3. OneId'
        <3>1. ASSUME NEW s \in Slots
              PROVE  \A u \in carry'.inflight \cap slot'[s].batch :
                        carry'.inflightID = slot'[s].rid
            BY <1>1, <1>4 DEF OneId, SlotsShrink
        <3>2. ASSUME NEW s \in Slots, NEW q \in Slots
              PROVE  \A u \in slot'[s].batch \cap slot'[q].batch : slot'[s].rid = slot'[q].rid
            BY <1>1 DEF OneId, SlotsShrink
        <3> QED
            BY <1>2, <3>1, <3>2 DEF OneId
    <2>4. DoneIsPassed'
        BY <1>1, <1>2, <1>4 DEF DoneIsPassed, Done, Waiting, SlotsShrink
    <2>5. DoneOnce'
        BY <1>2 DEF DoneOnce
    <2> QED
        BY <2>1, <2>2, <2>3, <2>4, <2>5
<1> QED
    BY <1>3, <1>4 DEF Stop, Kept

\* What carry.json held comes back to the agent.
LEMMA RestoreKeeps ==
    ASSUME IInv, TypeOK', NEW seq \in Nat, Restore(seq),
           UNCHANGED <<slot, used, lastReportID, books, refused>>
    PROVE  IInv'
<1> USE DEF IInv
<1>1. /\ carry'.pending = {} /\ carry'.inflight = {}
      /\ pending' = carry.pending
      /\ inflight' = {} \/ (inflight' = carry.inflight /\ inflightID' = carry.inflightID)
    BY DEF Restore, NoCarry
<1>2. HeldIsUsed'
    BY <1>1 DEF HeldIsUsed, Waiting
<1>3. WaitsOnce'
    BY <1>1 DEF WaitsOnce, Waiting
<1>4. OneId'
    BY <1>1 DEF OneId
<1>5. DoneIsPassed'
    BY <1>1 DEF DoneIsPassed, Done, Waiting
<1>6. DoneOnce'
    BY DEF DoneOnce
<1> QED
    BY <1>2, <1>3, <1>4, <1>5, <1>6

\* A report the panel claims is all of it outstanding.
LEMMA ClaimedIsOutstanding ==
    ASSUME IInv, NEW s \in Slots, Claims(slot[s].rid)
    PROVE  slot[s].batch \subseteq {u \in used \ refused : books[u] = 0}
<1>1. slot[s].batch \subseteq used /\ slot[s].rid \in Nat /\ lastReportID \in Nat
    BY DEF IInv, HeldIsUsed, TypeOK, Request
<1>2. ASSUME NEW u \in slot[s].batch
      PROVE  ~Done(u) /\ u \in Units
    BY <1>1 DEF IInv, DoneIsPassed, Claims, TypeOK
<1>3. \A u \in Units : books[u] \in Nat
    BY DEF IInv, TypeOK
<1> QED
    BY <1>1, <1>2, <1>3 DEF Done

\* The panel books a report, or finds it counted.
LEMMA IngestKeeps ==
    ASSUME IInv, TypeOK', NEW s \in Slots, Ingest(s)
    PROVE  IInv'
<1> USE DEF IInv
<1>1. SlotsShrink
    <2> DEFINE req == [slot[s] EXCEPT !.ack = slot[s].rid]
    <2>1. req \in Request /\ req.batch = slot[s].batch /\ req.rid = slot[s].rid
        BY DEF TypeOK, Request
    <2>2. slot' = [slot EXCEPT ![s] = Decided(s, req)]
        BY DEF Ingest
    <2> QED
        BY <2>1, <2>2, DecidingShrinks
<1>2. UNCHANGED <<pending, inflight, inflightID, carry, used>>
    BY DEF Ingest, agentVars, diskVars, obsVars
<1>3. CASE UNCHANGED <<lastReportID, books, refused>>
    <2>1. Shrinks
        BY <1>1, <1>2, <1>3 DEF Shrinks
    <2> QED
        BY <2>1, ShrinkKeeps
<1>4. ASSUME Claims(slot[s].rid), NEW foreign \in SUBSET Users,
             Book(slot[s].rid, slot[s].batch, foreign)
      PROVE  IInv'
    <2> DEFINE batch == slot[s].batch
               believed == {u \in batch : OwnerOf[u] \notin foreign}
    <2>1. /\ lastReportID' = slot[s].rid
          /\ books' = [u \in Units |-> IF u \in believed THEN books[u] + 1 ELSE books[u]]
          /\ refused' = refused \cup (batch \ believed)
        BY <1>4 DEF Book
    <2>2. batch \subseteq {u \in used \ refused : books[u] = 0}
        BY <1>4, ClaimedIsOutstanding
    <2>3. /\ lastReportID < lastReportID' /\ lastReportID \in Nat /\ lastReportID' \in Nat
          /\ inflightID \in Nat /\ carry.inflightID \in Nat
          /\ \A q \in Slots : slot[q].rid \in Nat
        BY <1>4, <2>1 DEF Claims, TypeOK, Carry, Request
    <2>4. HeldIsUsed'
        BY <1>1, <1>2 DEF HeldIsUsed, Waiting, SlotsShrink
    <2>5. WaitsOnce'
        BY <1>1, <1>2 DEF WaitsOnce, Waiting, SlotsShrink
    <2>6. OneId'
        <3>1. ASSUME NEW q \in Slots
              PROVE  /\ \A u \in inflight \cap slot'[q].batch : inflightID = slot'[q].rid
                     /\ \A u \in carry.inflight \cap slot'[q].batch :
                           carry.inflightID = slot'[q].rid
            BY <1>1 DEF OneId, SlotsShrink
        <3>2. ASSUME NEW q \in Slots, NEW r \in Slots
              PROVE  \A u \in slot'[q].batch \cap slot'[r].batch : slot'[q].rid = slot'[r].rid
            BY <1>1 DEF OneId, SlotsShrink
        <3> QED
            BY <1>2, <3>1, <3>2 DEF OneId
    <2>7. DoneIsPassed'
        <3>1. ASSUME NEW u \in Units, Done(u)', u \notin batch
              PROVE  Done(u)
            BY <2>1, <3>1 DEF Done
        <3>2. ASSUME NEW u \in Units, NEW q \in Slots, u \in slot'[q].batch
              PROVE  u \in slot[q].batch /\ slot'[q].rid = slot[q].rid
            BY <1>1, <3>2 DEF SlotsShrink
        <3>3. ASSUME NEW u \in Units, Done(u)
              PROVE  /\ u \in used' /\ u \notin Waiting'
                     /\ u \in inflight' => inflightID' <= lastReportID'
                     /\ u \in carry'.inflight => carry'.inflightID <= lastReportID'
                     /\ \A q \in Slots : u \in slot'[q].batch => slot'[q].rid <= lastReportID'
            BY <1>2, <2>3, <3>2, <3>3 DEF DoneIsPassed, Waiting
        <3>4. ASSUME NEW u \in batch
              PROVE  /\ u \in used' /\ u \notin Waiting'
                     /\ u \in inflight' => inflightID' <= lastReportID'
                     /\ u \in carry'.inflight => carry'.inflightID <= lastReportID'
                     /\ \A q \in Slots : u \in slot'[q].batch => slot'[q].rid <= lastReportID'
            <4>1. u \in Units /\ u \in used /\ u \notin Waiting
                BY <2>2 DEF WaitsOnce, TypeOK
            <4>2. /\ u \in inflight => inflightID = slot[s].rid
                  /\ u \in carry.inflight => carry.inflightID = slot[s].rid
                  /\ \A q \in Slots : u \in slot[q].batch => slot[q].rid = slot[s].rid
                BY DEF OneId
            <4> QED
                BY <1>2, <2>1, <2>3, <3>2, <4>1, <4>2 DEF Waiting
        <3> QED
            BY <3>1, <3>3, <3>4 DEF DoneIsPassed
    <2>8. DoneOnce'
        <3>1. ASSUME NEW u \in Units
              PROVE  books'[u] <= 1 /\ (u \in refused' => books'[u] = 0)
            BY <2>1, <2>2 DEF DoneOnce, TypeOK
        <3> QED
            BY <3>1 DEF DoneOnce
    <2> QED
        BY <2>4, <2>5, <2>6, <2>7, <2>8
<1> QED
    BY <1>3, <1>4 DEF Ingest, Book

LEMMA IInvInit == NodeTrafficAssumption /\ Init => IInv
<1> SUFFICES ASSUME NodeTrafficAssumption, Init PROVE IInv
    OBVIOUS
<1>1. TypeOK
    BY TypeInit
<1>2. HeldIsUsed /\ WaitsOnce /\ OneId
    BY DEF Init, HeldIsUsed, WaitsOnce, OneId, Waiting, Free, NoCarry
<1>3. DoneIsPassed /\ DoneOnce
    BY DEF Init, DoneIsPassed, DoneOnce, Done
<1> QED
    BY <1>1, <1>2, <1>3 DEF IInv

LEMMA IInvNext == NodeTrafficAssumption /\ IInv /\ [Next]_vars => IInv'
<1> SUFFICES ASSUME NodeTrafficAssumption, IInv, [Next]_vars
             PROVE  IInv'
    OBVIOUS
<1>0. TypeOK /\ TypeOK'
    BY TypeNext DEF IInv
<1>1. ASSUME NEW u \in Units, Sample(u)
      PROVE  IInv'
    <2> USE <1>1 DEF IInv
    <2>1. /\ u \in Units \ used
          /\ used' = used \cup {u} /\ pending' = pending \cup {u}
          /\ UNCHANGED <<inflight, inflightID, slot, carry, lastReportID, books, refused>>
        BY DEF Sample, diskVars, panelVars
    <2>2. HeldIsUsed' /\ WaitsOnce'
        BY <2>1 DEF HeldIsUsed, WaitsOnce, Waiting
    <2>3. OneId' /\ DoneOnce'
        BY <2>1 DEF OneId, DoneOnce
    <2>4. DoneIsPassed'
        BY <2>1 DEF DoneIsPassed, Done, Waiting
    <2> QED
        BY <1>0, <2>2, <2>3, <2>4
<1>2. CASE BuildFresh
    BY <1>0, <1>2, BuildFreshKeeps
<1>3. ASSUME NEW s \in Slots, Send(s)
      PROVE  IInv'
    BY <1>0, <1>3, SendKeeps
<1>4. CASE Stop
    BY <1>0, <1>4, StopKeeps
<1>5. CASE Start
    <2>1. lastSent \in Nat /\ 0 \in Nat /\ UNCHANGED <<slot, used, lastReportID, books, refused>>
        BY <1>0, <1>5 DEF Start, TypeOK, panelVars, obsVars
    <2>2. ASSUME NEW seq \in Nat, Restore(seq)
          PROVE  IInv'
        BY <1>0, <2>1, <2>2, RestoreKeeps
    <2>3. ASSUME DropCarry(lastSent)
          PROVE  IInv'
        <3>1. Shrinks
            BY <2>1, <2>3 DEF DropCarry, Shrinks, SlotsShrink
        <3> QED
            BY <1>0, <3>1, ShrinkKeeps
    <2> QED
        BY <1>5, <2>1, <2>2, <2>3 DEF Start
<1>6. ASSUME NEW s \in Slots, Ingest(s)
      PROVE  IInv'
    BY <1>0, <1>6, IngestKeeps
<1>7. CASE GiveUp \/ Crash
    <2>1. SlotsShrink
        BY <1>0, <1>7, HangUpShrinks DEF GiveUp, Crash, Forget
    <2>2. Shrinks
        BY <1>7, <2>1 DEF GiveUp, Crash, Forget, Shrinks, diskVars, panelVars, obsVars
    <2> QED
        BY <1>0, <2>2, ShrinkKeeps
<1>8. CASE BuildAgain \/ NoteReportID \/ SetEnabled \/ UNCHANGED vars
    <2>1. Shrinks
        BY <1>8 DEF BuildAgain, NoteReportID, SetEnabled, vars, Shrinks, SlotsShrink,
           agentVars, diskVars, panelVars, obsVars
    <2> QED
        BY <1>0, <2>1, ShrinkKeeps
<1>9. CASE Receive
    <2>1. SlotsShrink
        BY <1>0, <1>9 DEF Receive, SlotsShrink, Free, TypeOK
    <2>2. Shrinks
        BY <1>9, <2>1 DEF Receive, Shrinks, panelVars
    <2> QED
        BY <1>0, <2>2, ShrinkKeeps
<1>10. ASSUME NEW s \in Slots, ReadNode(s)
       PROVE  IInv'
    <2> DEFINE req == [slot[s] EXCEPT !.ack = slot[s].rid, !.off = TRUE]
    <2>1. slot[s] \in Request /\ slot \in [Slots -> Request]
        BY <1>0 DEF TypeOK
    <2>2. req \in Request /\ req.batch = slot[s].batch /\ req.rid = slot[s].rid
        BY <2>1 DEF Request
    <2>3. CASE enabled
        <3>1. slot' = [slot EXCEPT ![s] = [slot[s] EXCEPT !.st = "read"]]
            BY <1>10, <2>3 DEF ReadNode
        <3>2. Shrinks
            BY <1>10, <2>1, <3>1 DEF ReadNode, Shrinks, SlotsShrink, Request, agentVars,
               diskVars, panelVars, obsVars
        <3> QED
            BY <1>0, <3>2, ShrinkKeeps
    <2>4. CASE ~enabled
        <3>1. slot' = [slot EXCEPT ![s] = Decided(s, req)]
            BY <1>10, <2>4 DEF ReadNode
        <3>2. SlotsShrink
            BY <1>0, <2>2, <3>1, DecidingShrinks
        <3>3. Shrinks
            BY <1>10, <3>2 DEF ReadNode, Shrinks, agentVars, diskVars, panelVars, obsVars
        <3> QED
            BY <1>0, <3>3, ShrinkKeeps
    <2> QED
        BY <2>3, <2>4
<1>11. ASSUME NEW s \in Slots, IngestFails(s)
       PROVE  IInv'
    <2>1. SlotsShrink
        BY <1>0, <1>11, DecidingShrinks DEF IngestFails, TypeOK
    <2>2. Shrinks
        BY <1>11, <2>1 DEF IngestFails, Shrinks, agentVars, diskVars, panelVars, obsVars
    <2> QED
        BY <1>0, <2>2, ShrinkKeeps
<1>12. ASSUME NEW s \in Slots, Answer(s) \/ Lose(s)
       PROVE  IInv'
    <2>1. SlotsShrink
        <3>1. slot \in [Slots -> Request]
            BY <1>0 DEF TypeOK
        <3>2. CASE Lose(s)
            BY <3>1, <3>2 DEF Lose, SlotsShrink, Free
        <3>3. ASSUME NEW verdict, 
                     slot' = [slot EXCEPT ![s] = [@ EXCEPT !.st = "answered", !.revoked = verdict]]
              PROVE  SlotsShrink
            BY <3>1, <3>3 DEF SlotsShrink, Request
        <3> QED
            BY <1>12, <3>2, <3>3 DEF Answer
    <2>2. Shrinks
        BY <1>12, <2>1 DEF Answer, Lose, Shrinks, agentVars, diskVars, panelVars, obsVars
    <2> QED
        BY <1>0, <2>2, ShrinkKeeps
<1> QED
    BY <1>1, <1>2, <1>3, <1>4, <1>5, <1>6, <1>7, <1>8, <1>9, <1>10, <1>11, <1>12
       DEF Next, AgentNext, PanelNext

LEMMA IInvAlways == Spec => []IInv
<1>1. NodeTrafficAssumption
    BY NodeTrafficAssumption
<1> QED
    BY <1>1, IInvInit, IInvNext, PTL DEF Spec

\* No unit of traffic is booked twice, with any number of requests open, lost, resent or
\* overtaken, whatever restarts and whatever the agent's disk does (claimNodeReportOn,
\* ApplyNodeReport, keepTrafficOnStop, restoreCarry).
THEOREM BookedOnce == Spec => []ExactlyOnce
<1>1. IInv => ExactlyOnce
    BY DEF IInv, DoneOnce, ExactlyOnce
<1> QED
    BY <1>1, IInvAlways, PTL

\* The panel's watermark never moves back (claimNodeReportOn).
THEOREM WatermarkOnlyAdvances == Spec => WatermarkMonotone
<1>1. ASSUME NodeTrafficAssumption, IInv, [Next]_vars
      PROVE  [lastReportID' >= lastReportID]_vars
    <2>1. lastReportID \in Nat
        BY <1>1 DEF IInv, TypeOK
    <2>2. ASSUME NEW s \in Slots, Ingest(s)
          PROVE  lastReportID' >= lastReportID
        BY <1>1, <2>1, <2>2 DEF Ingest, Book, Claims, IInv, TypeOK, Request
    <2>3. ASSUME ~ \E s \in Slots : Ingest(s)
          PROVE  lastReportID' = lastReportID
        BY <1>1, <2>3 DEF Next, AgentNext, PanelNext, Sample, BuildFresh, BuildAgain,
           NoteReportID, Send, GiveUp, Receive, Stop, Crash, Start, ReadNode, IngestFails,
           Answer, Lose, SetEnabled, vars, panelVars
    <2> QED
        BY <2>1, <2>2, <2>3
<1>2. NodeTrafficAssumption
    BY NodeTrafficAssumption
<1> QED
    BY <1>1, <1>2, IInvAlways, PTL DEF Spec, WatermarkMonotone

-----------------------------------------------------------------------------
(* The panel's books implement the abstract ledger *)

LEMMA LedgerStep ==
    ASSUME NodeTrafficAssumption, IInv, [Next]_vars
    PROVE  [Ledger!Next]_(Ledger!vars)
<1>1. ASSUME NEW u \in Units, Sample(u)
      PROVE  Ledger!Use(u)
    BY <1>1 DEF Sample, Ledger!Use, panelVars
<1>2. ASSUME NEW s \in Slots, Ingest(s)
      PROVE  Ledger!Next \/ UNCHANGED Ledger!vars
    <2>1. PICK foreign \in SUBSET Users : Book(slot[s].rid, slot[s].batch, foreign)
        BY <1>2 DEF Ingest
    <2>2. CASE ~Claims(slot[s].rid)
        BY <1>2, <2>1, <2>2 DEF Book, Ingest, obsVars, Ledger!vars
    <2>3. CASE Claims(slot[s].rid)
        <3> DEFINE believed == {u \in slot[s].batch : OwnerOf[u] \notin foreign}
                   other    == slot[s].batch \ believed
        <3>1. slot[s].batch \subseteq Ledger!Outstanding
            BY <2>3, ClaimedIsOutstanding DEF Ledger!Outstanding
        <3>2. Ledger!Settle(believed, other)
            BY <1>2, <2>1, <2>3 DEF Book, Ingest, obsVars, Ledger!Settle
        <3>3. believed \in SUBSET Ledger!Outstanding /\ other \in SUBSET Ledger!Outstanding
            BY <3>1
        <3> QED
            BY <3>2, <3>3 DEF Ledger!Next
    <2> QED
        BY <2>2, <2>3
<1>3. ASSUME ~ \E u \in Units : Sample(u), ~ \E s \in Slots : Ingest(s)
      PROVE  UNCHANGED Ledger!vars
    BY <1>3 DEF Next, AgentNext, PanelNext, BuildFresh, BuildAgain, NoteReportID, Send,
       GiveUp, Receive, Stop, Crash, Start, ReadNode, IngestFails, Answer, Lose,
       SetEnabled, vars, panelVars, obsVars, Ledger!vars
<1> QED
    BY <1>1, <1>2, <1>3 DEF Ledger!Next

\* Every step of the agents, the wire and the panel is a step of the ledger or changes
\* nothing of it.
THEOREM LedgerImplemented == Spec => ImplementsLedger
<1>1. Init => Ledger!Init
    BY DEF Init, Ledger!Init
<1>2. NodeTrafficAssumption
    BY NodeTrafficAssumption
<1> QED
    BY <1>1, <1>2, LedgerStep, IInvAlways, PTL DEF Spec, ImplementsLedger, Ledger!Spec

-----------------------------------------------------------------------------
(* With a disk that works: nothing is acknowledged unread, nothing slips *)

\* The report in flight is the latest, and so is a carried one; the state file knows every id
\* that has left, and nothing is carried while the agent runs.
Ids ==
    /\ pc \notin {"stopped", "persist"} => reportSeq = lastSent
    /\ pc = "persist" => reportSeq = lastSent + 1 /\ inflightID # 0
    /\ pc = "stopped" => inflightID = 0 /\ pending = {}
    /\ inflightID # 0 => inflightID = reportSeq
    /\ pc # "stopped" => carry = NoCarry
    /\ carry.inflightID # 0 => carry.inflightID = lastSent
    /\ carry.inflightID = 0 <=> carry.inflight = {}
    /\ lastReportID <= lastSent
    /\ \A s \in Slots : slot[s].rid <= lastSent

\* A request with the id of the report in flight, or of the carried one, is that report.
SameReport ==
    /\ \A s \in Slots : slot[s].rid # 0 =>
          /\ slot[s].rid = inflightID => slot[s].batch = inflight
          /\ slot[s].rid = carry.inflightID => slot[s].batch = carry.inflight
    /\ OneReportPerId

\* A report at the watermark is settled.
PassedIsSettled ==
    /\ inflightID # 0 /\ inflightID <= lastReportID => inflight \subseteq Settled
    /\ carry.inflightID # 0 /\ carry.inflightID <= lastReportID => carry.inflight \subseteq Settled

\* The request that is waited for carries the report in flight, and what is acknowledged was
\* ingested, unless the node was found switched off.
AcksMean ==
    /\ conn \in Slots => slot[conn].rid = inflightID
    /\ \A s \in Slots : slot[s].ack # 0 /\ ~slot[s].off =>
          slot[s].ack = slot[s].rid /\ slot[s].ack <= lastReportID

Whole == Ids /\ SameReport /\ PassedIsSettled /\ AcksMean /\ Accounted /\ lost \subseteq used

SettledIsKept == Settled \subseteq Settled'

\* What a step makes of a request: it is gone, or the same report with the answer it had,
\* found switched off, or ingested; or it has just left with the report in flight.
LEMMA RequestStep ==
    ASSUME TypeOK, [Next]_vars, NEW q \in Slots
    PROVE  \/ slot'[q].rid = 0 /\ slot'[q].ack = 0
           \/ /\ slot'[q].rid = slot[q].rid /\ slot'[q].batch = slot[q].batch
              /\ \/ slot'[q].ack = slot[q].ack /\ slot'[q].off = slot[q].off
                 \/ slot'[q].off
                 \/ Ingest(q) /\ slot'[q].ack = slot[q].rid
           \/ /\ Send(q)
              /\ slot'[q].rid = inflightID /\ slot'[q].batch = inflight /\ slot'[q].ack = 0
<1> DEFINE Same(a, b) == a.rid = b.rid /\ a.batch = b.batch /\ a.ack = b.ack /\ a.off = b.off
           Gone(a) == a.rid = 0 /\ a.ack = 0
<1>0. slot \in [Slots -> Request]
    BY DEF TypeOK
<1>1. ASSUME NEW req \in Request
      PROVE  Gone(Unheard(req)) \/ Same(Unheard(req), req)
    BY DEF Unheard, Request, Free
<1>2. ASSUME NEW s \in Slots, NEW req \in Request
      PROVE  \/ Gone(Decided(s, req))
             \/ Same(Decided(s, req), req)
    BY DEF Decided, Request, Free
<1>3. CASE HangUp
    BY <1>0, <1>1, <1>3 DEF HangUp
<1>4. CASE UNCHANGED slot
    BY <1>4
<1>5. ASSUME NEW s \in Slots, Send(s)
      PROVE  \/ s = q /\ slot'[q].rid = inflightID /\ slot'[q].batch = inflight /\ slot'[q].ack = 0
             \/ s # q /\ Same(slot'[q], slot[q])
    BY <1>0, <1>5 DEF Send
<1>6. CASE Receive
    BY <1>0, <1>6 DEF Receive, Free
<1>7. ASSUME NEW s \in Slots, ReadNode(s)
      PROVE  \/ Gone(slot'[q])
             \/ slot'[q].rid = slot[q].rid /\ slot'[q].batch = slot[q].batch
                /\ (slot'[q].off \/ Same(slot'[q], slot[q]))
    <2> DEFINE off == [slot[s] EXCEPT !.ack = slot[s].rid, !.off = TRUE]
               read == [slot[s] EXCEPT !.st = "read"]
    <2>1. off \in Request /\ off.rid = slot[s].rid /\ off.batch = slot[s].batch /\ off.off
        BY <1>0 DEF Request
    <2>2. Same(read, slot[s])
        BY <1>0 DEF Request
    <2>3. slot' = [slot EXCEPT ![s] = IF enabled THEN read ELSE Decided(s, off)]
        BY <1>7 DEF ReadNode
    <2>4. Gone(Decided(s, off)) \/ Same(Decided(s, off), off)
        BY <1>2, <2>1
    <2> QED
        BY <1>0, <2>1, <2>2, <2>3, <2>4
<1>8. ASSUME NEW s \in Slots, Ingest(s)
      PROVE  \/ Gone(slot'[q]) \/ Same(slot'[q], slot[q])
             \/ s = q /\ slot'[q].rid = slot[q].rid /\ slot'[q].batch = slot[q].batch
                      /\ slot'[q].ack = slot[q].rid
    <2> DEFINE taken == [slot[s] EXCEPT !.ack = slot[s].rid]
    <2>1. /\ taken \in Request /\ taken.rid = slot[s].rid /\ taken.batch = slot[s].batch
          /\ taken.ack = slot[s].rid
        BY <1>0 DEF Request
    <2>2. slot' = [slot EXCEPT ![s] = Decided(s, taken)]
        BY <1>8 DEF Ingest
    <2>3. Gone(Decided(s, taken)) \/ Same(Decided(s, taken), taken)
        BY <1>2, <2>1
    <2> QED
        BY <1>0, <2>1, <2>2, <2>3
<1>9. ASSUME NEW s \in Slots, IngestFails(s)
      PROVE  Gone(slot'[q]) \/ Same(slot'[q], slot[q])
    BY <1>0, <1>2, <1>9 DEF IngestFails
<1>10. ASSUME NEW s \in Slots, Answer(s)
       PROVE  Same(slot'[q], slot[q])
    <2>1. PICK verdict : slot' = [slot EXCEPT ![s] = [@ EXCEPT !.st = "answered", !.revoked = verdict]]
        BY <1>10 DEF Answer
    <2> QED
        BY <1>0, <2>1 DEF Request
<1>11. ASSUME NEW s \in Slots, Lose(s)
       PROVE  Gone(slot'[q]) \/ Same(slot'[q], slot[q])
    BY <1>0, <1>11 DEF Lose, Free
<1>12. \/ HangUp \/ UNCHANGED slot \/ Receive
       \/ \E s \in Slots : \/ Send(s) \/ ReadNode(s) \/ Ingest(s) \/ IngestFails(s) \/ Answer(s)
                           \/ Lose(s)
    BY DEF Next, AgentNext, PanelNext, vars, Sample, BuildFresh, BuildAgain, NoteReportID,
       GiveUp, Stop, Crash, Forget, Start, SetEnabled
<1> QED
    BY <1>3, <1>4, <1>5, <1>6, <1>7, <1>8, <1>9, <1>10, <1>11, <1>12

\* What a step makes of the report in flight and of the carried one, when the disk works.
ReportStep ==
    \/ UNCHANGED <<inflight, inflightID, carry>>
    \/ inflightID = 0 /\ inflightID' = lastSent + 1 /\ UNCHANGED <<carry, lastSent>>
    \/ inflight' = {} /\ inflightID' = 0 /\ UNCHANGED carry
    \/ /\ inflight' = {} /\ inflightID' = 0
       /\ carry'.inflight = inflight /\ carry'.inflightID = inflightID
    \/ /\ inflight' = carry.inflight /\ inflightID' = carry.inflightID
       /\ carry' = NoCarry

LEMMA ReportsStep ==
    ASSUME ~DiskFaults, TypeOK, Ids, [Next]_vars
    PROVE  ReportStep
<1>1. CASE BuildFresh
    BY <1>1 DEF BuildFresh, Ids, ReportStep, diskVars
<1>2. CASE Receive
    BY <1>2 DEF Receive, ReportStep
<1>3. CASE Stop
    <2>1. carry' = Kept /\ inflight' = {} /\ inflightID' = 0 /\ carry = NoCarry
        BY <1>3 DEF Stop, Forget, Ids
    <2>2. Kept.inflight = inflight /\ Kept.inflightID = inflightID
        BY <2>1 DEF Kept, NoCarry, TypeOK
    <2> QED
        BY <2>1, <2>2 DEF ReportStep
<1>4. CASE Crash
    BY <1>4 DEF Crash, Forget, ReportStep, diskVars
<1>5. CASE Start
    BY <1>5 DEF Start, Restore, Ids, ReportStep
<1>6. CASE \/ \E u \in Units : Sample(u)
           \/ \E s \in Slots : Send(s)
           \/ BuildAgain \/ NoteReportID \/ GiveUp
           \/ PanelNext \/ UNCHANGED vars
    BY <1>6 DEF Sample, Send, BuildAgain, NoteReportID, GiveUp, PanelNext, ReadNode, Ingest,
       IngestFails, Answer, Lose, SetEnabled, vars, agentVars, diskVars, ReportStep
<1> QED
    BY <1>1, <1>2, <1>3, <1>4, <1>5, <1>6 DEF Next, AgentNext

\* What it makes of the watermark: only a report that is ingested moves it, and settles what
\* it holds.
LEMMA WatermarkStep ==
    ASSUME NodeTrafficAssumption, IInv, [Next]_vars
    PROVE  /\ SettledIsKept
           /\ lastReportID' >= lastReportID
           /\ \/ UNCHANGED lastReportID
              \/ \E s \in Slots : /\ slot[s].rid > lastReportID /\ lastReportID' = slot[s].rid
                                  /\ slot[s].batch \subseteq Settled'
           /\ \A s \in Slots : Ingest(s) => slot[s].rid <= lastReportID'
<1>0. TypeOK /\ used \subseteq used'
    BY DEF IInv, Next, AgentNext, PanelNext, Sample, BuildFresh, BuildAgain, NoteReportID, Send,
       GiveUp, Receive, Stop, Crash, Start, ReadNode, Ingest, IngestFails, Answer, Lose,
       SetEnabled, vars, obsVars
<1>1. lastReportID \in Nat /\ \A s \in Slots : slot[s].rid \in Nat
    BY <1>0 DEF TypeOK, Request
<1>2. ASSUME NEW s \in Slots, Ingest(s)
      PROVE  /\ SettledIsKept
             /\ \/ UNCHANGED lastReportID
                \/ /\ slot[s].rid > lastReportID /\ lastReportID' = slot[s].rid
                   /\ slot[s].batch \subseteq Settled'
             /\ slot[s].rid <= lastReportID'
    <2>1. PICK foreign \in SUBSET Users : Book(slot[s].rid, slot[s].batch, foreign)
        BY <1>2 DEF Ingest
    <2>2. UNCHANGED used
        BY <1>2 DEF Ingest, obsVars
    <2>3. CASE ~Claims(slot[s].rid)
        BY <1>1, <2>1, <2>2, <2>3 DEF Book, Claims, SettledIsKept, Settled, Booked
    <2>4. CASE Claims(slot[s].rid)
        <3> DEFINE batch == slot[s].batch
                   believed == {u \in batch : OwnerOf[u] \notin foreign}
        <3>1. /\ lastReportID' = slot[s].rid
              /\ books' = [u \in Units |-> IF u \in believed THEN books[u] + 1 ELSE books[u]]
              /\ refused' = refused \cup (batch \ believed)
            BY <2>1, <2>4 DEF Book
        <3>2. batch \subseteq used /\ batch \subseteq Units
            BY <1>0 DEF IInv, HeldIsUsed, TypeOK
        <3>3. books \in [Units -> Nat] /\ used \subseteq Units
            BY <1>0 DEF TypeOK
        <3>4. \A u \in used : books[u] > 0 => books'[u] > 0
            BY <3>1, <3>3
        <3>5. \A u \in believed : books'[u] > 0
            BY <3>1, <3>2, <3>3
        <3> QED
            BY <1>1, <2>2, <2>4, <3>1, <3>2, <3>4, <3>5 DEF Claims, SettledIsKept, Settled, Booked
    <2> QED
        BY <2>3, <2>4
<1>3. CASE ~ \E s \in Slots : Ingest(s)
    <2>1. UNCHANGED <<lastReportID, books, refused>>
        BY <1>3 DEF Next, AgentNext, PanelNext, Sample, BuildFresh, BuildAgain, NoteReportID, Send,
           GiveUp, Receive, Stop, Crash, Start, ReadNode, IngestFails, Answer, Lose,
           SetEnabled, vars, panelVars
    <2> QED
        BY <1>0, <1>1, <1>3, <2>1 DEF SettledIsKept, Settled, Booked
<1> QED
    BY <1>1, <1>2, <1>3

\* The ids: a report gets one that no report has had.
LEMMA IdsStep ==
    ASSUME NodeTrafficAssumption, ~DiskFaults, IInv, Ids, [Next]_vars
    PROVE  Ids'
<1>0. TypeOK
    BY DEF IInv
<1>a. lastSent \in Nat /\ lastReportID \in Nat /\ reportSeq \in Nat /\ inflightID \in Nat
      /\ \A s \in Slots : slot[s].rid \in Nat
    BY <1>0 DEF TypeOK, Request
<1>b. inflightID # 0 /\ pc # "persist" => inflightID = lastSent
    BY DEF Ids
<1> DEFINE Agent ==
       /\ pc' \notin {"stopped", "persist"} => reportSeq' = lastSent'
       /\ pc' = "persist" => reportSeq' = lastSent' + 1 /\ inflightID' # 0
       /\ pc' = "stopped" => inflightID' = 0 /\ pending' = {}
       /\ inflightID' # 0 => inflightID' = reportSeq'
       /\ pc' # "stopped" => carry' = NoCarry
       /\ carry'.inflightID # 0 => carry'.inflightID = lastSent'
       /\ carry'.inflightID = 0 <=> carry'.inflight = {}
       /\ lastSent' >= lastSent
<1>1. Agent
    <2> USE <1>0, <1>a DEF Ids
    <2>1. CASE BuildFresh
        BY <2>1 DEF BuildFresh, diskVars
    <2>2. CASE NoteReportID
        BY <2>2 DEF NoteReportID, NoCarry
    <2>3. CASE Receive
        BY <2>3 DEF Receive, TypeOK
    <2>4. CASE Stop
        <3>1. carry' = Kept /\ carry = NoCarry /\ lastSent' = lastSent
            BY <2>4 DEF Stop
        <3>2. Kept.inflight = inflight /\ Kept.inflightID = inflightID
            BY <3>1 DEF Kept, NoCarry, TypeOK
        <3> QED
            BY <1>b, <2>4, <3>1, <3>2 DEF Stop, Forget, TypeOK
    <2>5. CASE Crash
        <3>1. UNCHANGED <<lastSent, carry>>
            BY <2>5 DEF Crash, diskVars
        <3> QED
            BY <2>5, <3>1 DEF Crash, Forget, NoCarry
    <2>6. CASE Start
        <3>1. Restore(lastSent)
            BY <2>6 DEF Start
        <3> QED
            BY <2>6, <3>1 DEF Start, Restore, NoCarry
    <2>7. CASE \/ \E u \in Units : Sample(u)
               \/ \E s \in Slots : Send(s)
               \/ BuildAgain \/ GiveUp \/ PanelNext \/ UNCHANGED vars
        <3>1. UNCHANGED <<inflightID, reportSeq, lastSent, carry>> /\ (pc' = pc \/ pc # "stopped")
            BY <2>7 DEF Sample, Send, BuildAgain, GiveUp, PanelNext, ReadNode, Ingest,
               IngestFails, Answer, Lose, SetEnabled, vars, agentVars, diskVars, TypeOK,
               NodeTrafficAssumption
        <3>2. pc' = pc \/ (pc \notin {"stopped", "persist"} /\ pc' \notin {"stopped", "persist"})
            BY <2>7 DEF Sample, Send, BuildAgain, GiveUp, PanelNext, ReadNode, Ingest,
               IngestFails, Answer, Lose, SetEnabled, vars, agentVars, diskVars, TypeOK,
               NodeTrafficAssumption
        <3>3. pc = "stopped" => pending' = pending
            BY <2>7 DEF Sample, Send, BuildAgain, GiveUp, PanelNext, ReadNode, Ingest,
               IngestFails, Answer, Lose, SetEnabled, vars, agentVars, diskVars
        <3> QED
            BY <3>1, <3>2, <3>3
    <2> QED
        BY <2>1, <2>2, <2>3, <2>4, <2>5, <2>6, <2>7 DEF Next, AgentNext
<1>2. lastReportID' <= lastSent'
    <2>1. lastSent' \in Nat /\ lastReportID' \in Nat
        BY <1>0, TypeNext DEF TypeOK
    <2> QED
        BY <1>1, <1>a, <2>1, WatermarkStep DEF Ids
<1>3. ASSUME NEW q \in Slots
      PROVE  slot'[q].rid <= lastSent'
    <2>1. lastSent' \in Nat
        BY <1>0, TypeNext DEF TypeOK
    <2>2. Send(q) => inflightID <= lastSent
        BY <1>a, <1>b DEF Send
    <2> QED
        BY <1>0, <1>1, <1>a, <2>1, <2>2, RequestStep DEF Ids
<1> QED
    BY <1>1, <1>2, <1>3 DEF Ids

LEMMA SameReportStep ==
    ASSUME NodeTrafficAssumption, ~DiskFaults, IInv, Ids, SameReport, [Next]_vars
    PROVE  SameReport'
<1>0. TypeOK /\ ReportStep
    BY ReportsStep DEF IInv
<1>a. lastSent \in Nat /\ inflightID \in Nat /\ \A s \in Slots : slot[s].rid \in Nat
    BY <1>0 DEF TypeOK, Request
<1>b. ASSUME NEW q \in Slots, slot'[q].rid # 0
      PROVE  \/ ~Send(q) /\ slot'[q].rid = slot[q].rid /\ slot'[q].batch = slot[q].batch
             \/ /\ Send(q) /\ slot'[q].rid = inflightID /\ slot'[q].batch = inflight
                /\ UNCHANGED <<inflight, inflightID, carry>>
    BY <1>0, <1>b, RequestStep DEF Send, diskVars, TypeOK
<1>c. \A q \in Slots : Send(q) => carry = NoCarry
    BY DEF Send, Ids
<1>1. ASSUME NEW q \in Slots, slot'[q].rid # 0
      PROVE  /\ slot'[q].rid = inflightID' => slot'[q].batch = inflight'
             /\ slot'[q].rid = carry'.inflightID => slot'[q].batch = carry'.inflight
    <2>1. CASE Send(q)
        BY <1>1, <1>b, <1>c, <2>1 DEF NoCarry
    <2>2. CASE slot'[q].rid = slot[q].rid /\ slot'[q].batch = slot[q].batch
        BY <1>0, <1>1, <1>a, <2>2 DEF SameReport, Ids, ReportStep, NoCarry
    <2> QED
        BY <1>1, <1>b, <2>1, <2>2
<1>2. ASSUME NEW q \in Slots, NEW r \in Slots, slot'[q].rid = slot'[r].rid, slot'[q].rid # 0
      PROVE  slot'[q].batch = slot'[r].batch
    BY <1>2, <1>b DEF SameReport, OneReportPerId
<1> QED
    BY <1>1, <1>2 DEF SameReport, OneReportPerId

LEMMA PassedStep ==
    ASSUME NodeTrafficAssumption, ~DiskFaults, IInv, Ids, SameReport, PassedIsSettled, [Next]_vars
    PROVE  PassedIsSettled'
<1>0. TypeOK /\ ReportStep
    BY ReportsStep DEF IInv
<1>a. /\ lastSent \in Nat /\ inflightID \in Nat /\ reportSeq \in Nat /\ lastReportID \in Nat
      /\ carry.inflightID \in Nat
      /\ \A s \in Slots : slot[s].rid \in Nat
    BY <1>0 DEF TypeOK, Request, Carry
<1>1. ASSUME NEW id \in Nat, NEW batch, id # 0, id >= lastSent, id <= lastReportID',
             id <= lastReportID => batch \subseteq Settled,
             \A s \in Slots : slot[s].rid # 0 /\ slot[s].rid = id => slot[s].batch = batch
      PROVE  batch \subseteq Settled'
    BY <1>1, <1>a, WatermarkStep DEF Ids, SettledIsKept
<1>2. inflightID # 0 => inflightID >= lastSent
    BY <1>a DEF Ids
<1>3. carry.inflightID # 0 => carry.inflightID >= lastSent
    BY <1>a DEF Ids
<1>4. inflightID # 0 /\ inflightID <= lastReportID' => inflight \subseteq Settled'
    BY <1>1, <1>2, <1>a DEF PassedIsSettled, SameReport
<1>5. carry.inflightID # 0 /\ carry.inflightID <= lastReportID' => carry.inflight \subseteq Settled'
    BY <1>1, <1>3, <1>a DEF PassedIsSettled, SameReport
<1>6. lastReportID' <= lastSent
    BY <1>a, WatermarkStep DEF Ids
<1>7. lastReportID' \in Nat
    BY <1>0, TypeNext DEF TypeOK
<1> QED
    BY <1>0, <1>a, <1>4, <1>5, <1>6, <1>7 DEF ReportStep, PassedIsSettled, NoCarry

LEMMA AcksStep ==
    ASSUME NodeTrafficAssumption, IInv, AcksMean, [Next]_vars
    PROVE  AcksMean'
<1>0. TypeOK /\ slot \in [Slots -> Request] /\ NoSlot \notin Slots
    BY DEF IInv, TypeOK, NodeTrafficAssumption
<1>1. ASSUME conn' \in Slots
      PROVE  slot'[conn'].rid = inflightID'
    <2>1. ASSUME NEW s \in Slots, Send(s)
          PROVE  slot'[conn'].rid = inflightID'
        BY <1>0, <2>1 DEF Send
    <2>2. CASE BuildFresh \/ BuildAgain \/ NoteReportID \/ GiveUp \/ Receive \/ Stop \/ Crash \/ Start
        BY <1>0, <1>1, <2>2 DEF BuildFresh, BuildAgain, NoteReportID, GiveUp, Receive, Stop, Crash,
           Start, Forget, TypeOK
    <2>3. ASSUME UNCHANGED <<conn, inflightID>>, slot'[conn].rid = slot[conn].rid
          PROVE  slot'[conn'].rid = inflightID'
        BY <1>1, <2>3 DEF AcksMean
    <2>4. CASE (\E u \in Units : Sample(u)) \/ SetEnabled \/ UNCHANGED vars
        BY <2>3, <2>4 DEF Sample, SetEnabled, vars, agentVars
    <2>5. ASSUME NEW s \in Slots, ReadNode(s) \/ Ingest(s) \/ IngestFails(s) \/ Answer(s)
          PROVE  slot'[conn'].rid = inflightID'
        <3>1. UNCHANGED <<conn, inflightID>>
            BY <2>5 DEF ReadNode, Ingest, IngestFails, Answer, agentVars
        <3>2. conn \in Slots
            BY <1>1, <3>1
        <3>3. ASSUME NEW req \in Request, req.rid = slot[s].rid,
                     slot' = [slot EXCEPT ![s] = Decided(s, req)]
              PROVE  slot'[conn].rid = slot[conn].rid
            BY <1>0, <3>2, <3>3 DEF Decided, Request
        <3>4. ASSUME NEW req \in Request, req.rid = slot[s].rid,
                     slot' = [slot EXCEPT ![s] = req]
              PROVE  slot'[conn].rid = slot[conn].rid
            BY <1>0, <3>2, <3>4
        <3>5. CASE ReadNode(s)
            <4> DEFINE off == [slot[s] EXCEPT !.ack = slot[s].rid, !.off = TRUE]
                       read == [slot[s] EXCEPT !.st = "read"]
            <4>1. off \in Request /\ off.rid = slot[s].rid /\ read \in Request /\ read.rid = slot[s].rid
                BY <1>0 DEF Request
            <4>2. \/ slot' = [slot EXCEPT ![s] = read]
                  \/ slot' = [slot EXCEPT ![s] = Decided(s, off)]
                BY <3>5 DEF ReadNode
            <4> QED
                BY <2>3, <3>1, <3>3, <3>4, <4>1, <4>2
        <3>6. CASE Ingest(s)
            <4> DEFINE taken == [slot[s] EXCEPT !.ack = slot[s].rid]
            <4>1. taken \in Request /\ taken.rid = slot[s].rid
                BY <1>0 DEF Request
            <4>2. slot' = [slot EXCEPT ![s] = Decided(s, taken)]
                BY <3>6 DEF Ingest
            <4> QED
                BY <2>3, <3>1, <3>3, <4>1, <4>2
        <3>7. CASE IngestFails(s)
            BY <1>0, <2>3, <3>1, <3>3, <3>7 DEF IngestFails
        <3>8. CASE Answer(s)
            BY <1>0, <1>1, <2>3, <3>1, <3>8 DEF Answer, Request
        <3> QED
            BY <2>5, <3>5, <3>6, <3>7, <3>8
    <2>6. ASSUME NEW s \in Slots, Lose(s)
          PROVE  slot'[conn'].rid = inflightID'
        BY <1>0, <1>1, <2>3, <2>6 DEF Lose
    <2> QED
        BY <2>1, <2>2, <2>4, <2>5, <2>6 DEF Next, AgentNext, PanelNext
<1>2. ASSUME NEW q \in Slots, slot'[q].ack # 0, ~slot'[q].off
      PROVE  slot'[q].ack = slot'[q].rid /\ slot'[q].ack <= lastReportID'
    <2>1. /\ lastReportID \in Nat /\ lastReportID' \in Nat /\ slot[q].rid \in Nat
        BY <1>0, TypeNext DEF TypeOK, Request
    <2> QED
        BY <1>0, <1>2, <2>1, RequestStep, WatermarkStep DEF AcksMean
<1> QED
    BY <1>1, <1>2 DEF AcksMean

\* A report that is settled may be forgotten.
LEMMA SettlingMeans ==
    ASSUME NodeTrafficAssumption, TypeOK, Ids, PassedIsSettled, AcksMean, NEW s \in Slots,
           conn = s, Settles(slot[s]), ~slot[s].off
    PROVE  inflight \subseteq Settled
<1>1. /\ slot[s].ack > 0 /\ inflightID # 0 /\ slot[s].ack >= inflightID
      /\ inflightID \in Nat /\ slot[s].ack \in Nat /\ lastReportID \in Nat
    BY DEF Settles, Acknowledges, TypeOK, Request
<1>2. slot[s].ack = slot[s].rid /\ slot[s].rid = inflightID /\ slot[s].ack <= lastReportID
    BY <1>1 DEF AcksMean
<1> QED
    BY <1>1, <1>2 DEF PassedIsSettled

LEMMA AccountedStep ==
    ASSUME NodeTrafficAssumption, ~DiskFaults, IInv, Whole, [Next]_vars
    PROVE  Accounted' /\ lost' \subseteq used'
<1>0. TypeOK /\ Ids
    BY DEF IInv, Whole
<1>a. IInv'
    BY IInvNext
<1>b. Settled' \subseteq used'
    BY <1>a DEF IInv, DoneIsPassed, Done, Settled, Booked, TypeOK
<1>c. SettledIsKept
    BY WatermarkStep
<1>d. pending' \cup inflight' \cup carry'.pending \cup carry'.inflight \subseteq used'
    BY <1>a DEF IInv, HeldIsUsed, Waiting
<1> DEFINE Held == pending \cup inflight \cup carry.pending \cup carry.inflight
<1>e. used = Held \cup Settled \cup lost
    BY DEF Whole, Accounted
<1>1. ASSUME lost' \subseteq used', used' \subseteq Held' \cup Settled' \cup lost'
      PROVE  Accounted' /\ lost' \subseteq used'
    BY <1>1, <1>b, <1>d DEF Accounted
<1>2. ASSUME UNCHANGED used, lost \subseteq lost', lost' \subseteq lost \cup Held,
             Held \subseteq Held' \cup Settled' \cup lost'
      PROVE  Accounted' /\ lost' \subseteq used'
    BY <1>1, <1>2, <1>c, <1>e DEF SettledIsKept
<1>3. ASSUME NEW u \in Units, Sample(u)
      PROVE  Accounted' /\ lost' \subseteq used'
    BY <1>1, <1>3, <1>c, <1>e DEF Sample, diskVars, SettledIsKept
<1>4. CASE BuildFresh
    <2>1. PICK batch : inflight' = batch /\ pending' = pending \ batch
        BY <1>4 DEF BuildFresh
    <2>2. inflight = {} /\ UNCHANGED <<carry, used, lost>>
        BY <1>0, <1>4 DEF BuildFresh, diskVars, obsVars, TypeOK
    <2> QED
        BY <1>2, <2>1, <2>2
<1>5. CASE Receive
    <2>1. conn \in Slots
        BY <1>0, <1>5 DEF Receive, TypeOK
    <2>2. inflight \subseteq inflight' \cup Settled' \cup lost'
        BY <1>0, <1>5, <1>c, <2>1, SettlingMeans DEF Receive, Whole, SettledIsKept
    <2>3. UNCHANGED <<pending, carry, used>> /\ lost \subseteq lost' /\ lost' \subseteq lost \cup inflight
        BY <1>5 DEF Receive
    <2> QED
        BY <1>2, <2>2, <2>3
<1>6. CASE Stop
    <2>1. carry' = Kept /\ UNCHANGED <<lost, used>> /\ carry = NoCarry
        BY <1>0, <1>6 DEF Stop, Ids
    <2>2. pending \cup inflight \subseteq Kept.pending \cup Kept.inflight
        BY DEF Kept
    <2> QED
        BY <1>2, <2>1, <2>2 DEF NoCarry
<1>7. CASE Crash
    BY <1>2, <1>7 DEF Crash, diskVars
<1>8. CASE Start
    <2>1. Restore(lastSent) /\ UNCHANGED <<lost, used>>
        BY <1>8 DEF Start, obsVars
    <2>2. pending' = carry.pending /\ inflight' = carry.inflight
        BY <1>0, <2>1 DEF Restore, Ids
    <2>3. pending = {} /\ inflight = {}
        BY <1>0, <1>8 DEF Start, Ids, TypeOK
    <2> QED
        BY <1>2, <2>1, <2>2, <2>3
<1>9. CASE \/ \E s \in Slots : Send(s)
           \/ BuildAgain \/ NoteReportID \/ GiveUp \/ PanelNext \/ UNCHANGED vars
    <2>1. UNCHANGED <<pending, inflight, carry, used, lost>>
        BY <1>9 DEF Send, BuildAgain, NoteReportID, GiveUp, PanelNext, ReadNode, Ingest,
           IngestFails, Answer, Lose, SetEnabled, vars, agentVars, diskVars, obsVars
    <2> QED
        BY <1>2, <2>1
<1> QED
    BY <1>3, <1>4, <1>5, <1>6, <1>7, <1>8, <1>9 DEF Next, AgentNext

LEMMA WholeInit == NodeTrafficAssumption /\ Init => Whole
<1> SUFFICES ASSUME NodeTrafficAssumption, Init PROVE Whole
    OBVIOUS
<1>1. Ids /\ AcksMean
    BY DEF Init, Ids, AcksMean, NoCarry, Free, NodeTrafficAssumption
<1>2. SameReport /\ PassedIsSettled
    BY DEF Init, SameReport, OneReportPerId, PassedIsSettled, Free, NoCarry
<1>3. Accounted /\ lost \subseteq used
    BY DEF Init, Accounted, Settled, Booked, NoCarry
<1> QED
    BY <1>1, <1>2, <1>3 DEF Whole

LEMMA WholeAlways ==
    ASSUME ~DiskFaults
    PROVE  Spec => [](IInv /\ Whole)
<1>1. NodeTrafficAssumption
    BY NodeTrafficAssumption
<1>2. Init => IInv /\ Whole
    BY <1>1, IInvInit, WholeInit
<1>3. IInv /\ Whole /\ [Next]_vars => (IInv /\ Whole)'
    BY <1>1, IInvNext, IdsStep, SameReportStep, PassedStep, AcksStep, AccountedStep DEF Whole
<1> QED
    BY <1>2, <1>3, PTL DEF Spec

\* With a disk that works every unit consumed is counted, or held somewhere it will be
\* counted from, or died in the memory of an agent that did not stop properly or that was
\* told a report of a switched-off node is settled (keepTrafficOnStop, restoreCarry,
\* settleReport).
THEOREM NothingSlips ==
    ASSUME ~DiskFaults
    PROVE  Spec => []Accounted
BY WholeAlways, PTL DEF Whole

\* And the report the agent waits on is acknowledged only once the panel has ingested it
\* (IngestNodeSync, ackReportLocked).
THEOREM AcksAreTrue == Spec => []AckMeansSettled
<1>1. CASE DiskFaults
    <2>1. AckMeansSettled
        BY <1>1 DEF AckMeansSettled, AckAlwaysMeansSettled
    <2> QED
        BY <2>1, PTL
<1>2. CASE ~DiskFaults
    <2>1. ASSUME IInv, Whole
          PROVE  AckMeansSettled
        <3>1. NodeTrafficAssumption /\ TypeOK /\ Ids /\ PassedIsSettled /\ AcksMean
            BY <2>1, NodeTrafficAssumption DEF IInv, Whole
        <3>2. conn \in Slots /\ (slot[conn].off => slot[conn].revoked) /\ Settles(slot[conn])
              => inflight \subseteq Settled
            BY <3>1, SettlingMeans DEF Settles
        <3> QED
            BY <3>2 DEF AckMeansSettled, AckAlwaysMeansSettled
    <2> QED
        BY <1>2, <2>1, WholeAlways, PTL
<1> QED
    BY <1>1, <1>2

\* One id names one report, and the panel's watermark is never ahead of the ids the node
\* has used (noteReportID before the report leaves).
THEOREM IdsAreUnique ==
    ASSUME ~DiskFaults
    PROVE  Spec => [](OneReportPerId /\ WatermarkBehind)
<1>1. Whole => OneReportPerId /\ WatermarkBehind
    BY DEF Whole, SameReport, Ids, WatermarkBehind
<1> QED
    BY <1>1, WholeAlways, PTL
=============================================================================
