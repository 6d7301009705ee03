--------------------------- MODULE MasterMigration ---------------------------
(***************************************************************************)
(* Moving the master to another server (internal/migration,                *)
(* internal/server/panel_migration.go, cmd/rospanel/candidate.go).         *)
(*                                                                         *)
(* The old master starts a migration to a candidate, the operator installs *)
(* the candidate with the migration's pairing token, verifies it and has   *)
(* the old master switch over: fence itself, take a snapshot, push it,     *)
(* have the candidate promoted, step aside.  The candidate is passive      *)
(* until it is promoted and then runs as a full master.                    *)
(*                                                                         *)
(* Either process may die between any two saves of its state; a request    *)
(* may fail before or after it was handled, and one that the old master    *)
(* has given up may be handled later still.  Verifying, switching, rolling *)
(* back and decommissioning are requests of their own and may overlap; the *)
(* coordinator's mutex is held by starting, by rolling back and by the     *)
(* switch until the old master has stepped aside.                          *)
(***************************************************************************)
EXTENDS Integers, FiniteSets

CONSTANTS
    Candidates,     \* servers to move to
    None,           \* no candidate chosen, no request under way
    MaxSessions,    \* bound: migrations started
    MaxWrites,      \* bound: changes the old master accepts
    MaxTrouble      \* bound: requests given up and processes that die

ASSUME MasterMigrationAssumption ==
    /\ None \notin Candidates
    /\ {MaxSessions, MaxWrites, MaxTrouble} \subseteq Nat

VARIABLES
    (* the old master: its saved session and its process *)
    sess,       \* migration_state.json
    up,         \* whether the process runs
    fenced,     \* Manager.fenced
    db,         \* its database: how many changes it accepted
    (* its requests under way *)
    switch,     \* where the switch is
    attempt,    \* what the switch read when it began
    call,       \* the request of the switch to a candidate, and what became of it
    rollback,   \* where the rollback is
    verifying,  \* a verification that passed has its phase to write
    retiring,   \* where a decommission is
    asked,      \* the migration it was checked in
    (* the other servers *)
    cand,       \* their saved session, pairing token, data and process
    late,       \* requests given up that may still be handled
    trouble,    \* requests given up and processes that died, so far
    (* history: what went past the checks, for the properties only *)
    astray,     \* the session is decommissioned by a request checked in another migration
    undone,     \* candidates of this migration that took a snapshot after their promotion
    reverted    \* candidates that took an older snapshot after a newer one, in this attempt

history == <<astray, undone, reverted>>
others == <<rollback, verifying, retiring, asked>>
oldVars == <<sess, up, fenced, db, switch, attempt, others>>
vars == <<oldVars, call, cand, late, trouble, history>>

Phases == {"idle", "prepare", "candidate_ready", "switching", "standby", "completed",
           "error", "rolled_back"}
Roles == {"master", "candidate", "standby", "decommissioned"}

\* The pairing token of a migration is its number; 0 is none.
Session ==
    [id : Nat, phase : Phases, role : Roles, fenced : BOOLEAN, token : Nat,
     cand : Candidates \cup {None}]

NoData == -1

\* "halfway": the promotion has one of its two saves to do; "leaving": it is promoted, and
\* its passive server is being shut down.
Modes == {"absent", "down", "passive", "halfway", "leaving", "server"}
Candidate ==
    [role : Roles, phase : Phases, pair : Nat, data : Nat \cup {NoData}, mode : Modes]

Request == [kind : {"push", "promote"}, to : Candidates, token : Nat, snap : Nat]
NoAttempt == [token |-> 0, db |-> 0]
NoCall == [req |-> None, at |-> "none"]

TypeOK ==
    /\ sess \in Session
    /\ up \in BOOLEAN /\ fenced \in BOOLEAN
    /\ db \in Nat
    /\ switch \in {"idle", "fenced", "switching", "push", "pushed", "promote", "promoted",
                   "aside", "ending"}
    /\ attempt \in [token : Nat, db : Nat]
    /\ call \in [req : Request, at : {"sent", "begun", "answered", "refused"}] \cup {NoCall}
    /\ rollback \in {"idle", "role", "unfence"}
    /\ verifying \in BOOLEAN
    /\ retiring \in {"no", "checked", "role"} /\ asked \in Nat
    /\ cand \in [Candidates -> Candidate]
    /\ late \subseteq Request
    /\ trouble \in Nat
    /\ astray \in BOOLEAN
    /\ undone \subseteq Candidates /\ reverted \subseteq Candidates

Init ==
    /\ sess = [id |-> 0, phase |-> "idle", role |-> "master", fenced |-> FALSE,
               token |-> 0, cand |-> None]
    /\ up = TRUE /\ fenced = FALSE
    /\ db = 0
    /\ switch = "idle" /\ attempt = NoAttempt /\ call = NoCall
    /\ rollback = "idle" /\ verifying = FALSE /\ retiring = "no" /\ asked = 0
    /\ cand = [c \in Candidates |->
                  [role |-> "master", phase |-> "idle", pair |-> 0, data |-> NoData,
                   mode |-> "absent"]]
    /\ late = {}
    /\ trouble = 0
    /\ astray = FALSE /\ undone = {} /\ reverted = {}

\* What leaves the candidates and the wire alone.
AtHome == UNCHANGED <<call, cand, late, trouble, undone, reverted>>

-----------------------------------------------------------------------------
(* Starting, verifying *)

\* A coordinator without the mutex.
MuFreeUnlocked == TRUE

\* Coordinator.mu is free.
MuFree == switch \in {"idle", "ending"} /\ rollback # "role"

StartMigration(c) ==
    /\ up /\ MuFree
    /\ sess.id < MaxSessions
    /\ sess.phase \in {"idle", "completed", "rolled_back", "error"}
    /\ sess' = [id |-> sess.id + 1, phase |-> "prepare", role |-> "master", fenced |-> FALSE,
                token |-> sess.id + 1, cand |-> c]
    /\ astray' = FALSE /\ undone' = {}
    /\ UNCHANGED <<up, fenced, db, switch, attempt, others, call, cand, late, trouble, reverted>>

\* The passive server of a candidate answers: from its start until it is closed, some time
\* after the promotion.
Open(c) == cand[c].mode \in {"passive", "halfway", "leaving"}

\* RunVerification, which holds no lock: the checks pass ...
Verify ==
    /\ up /\ ~verifying
    /\ sess.phase # "idle"
    /\ sess.token # 0 /\ Open(sess.cand) /\ cand[sess.cand].pair = sess.token
    /\ verifying' = TRUE
    /\ UNCHANGED <<sess, up, fenced, db, switch, attempt, rollback, retiring, asked, astray>> /\ AtHome

\* ... and the phase is set, whatever it has become.
Verified ==
    /\ verifying
    /\ verifying' = FALSE
    /\ sess' = [sess EXCEPT !.phase = "candidate_ready"]
    /\ UNCHANGED <<up, fenced, db, switch, attempt, rollback, retiring, asked, astray>> /\ AtHome

-----------------------------------------------------------------------------
(* ExecuteSwitchover, holding the mutex *)

At(from, to) == switch = from /\ switch' = to

SwitchRest == UNCHANGED <<up, fenced, db, others, cand, late, trouble, undone, reverted>>

RaiseFence ==
    /\ up /\ MuFree /\ At("idle", "fenced")
    /\ sess.phase = "candidate_ready"
    /\ sess' = [sess EXCEPT !.fenced = TRUE]
    /\ attempt' = [token |-> sess.token, db |-> db]
    /\ reverted' = {}
    /\ UNCHANGED <<up, fenced, db, others, call, cand, late, trouble, astray, undone>>

SetSwitching ==
    /\ At("fenced", "switching")
    /\ sess' = [sess EXCEPT !.phase = "switching"]
    /\ UNCHANGED <<attempt, call, astray>> /\ SwitchRest

Sends(kind, snap) ==
    call' = [req |-> [kind |-> kind, to |-> sess.cand, token |-> attempt.token, snap |-> snap],
             at |-> "sent"]

\* CreateConsistentSnapshot, and its push.
Push ==
    /\ At("switching", "push")
    /\ Sends("push", db)
    /\ UNCHANGED <<sess, attempt, astray>> /\ SwitchRest

\* An answer nobody checks.
AnsweredOrNot == TRUE

\* The candidate responded with HTTP 200.
Answered == call.at = "answered"

Pushed ==
    /\ At("push", "pushed")
    /\ Answered /\ call' = NoCall
    /\ UNCHANGED <<sess, attempt, astray>> /\ SwitchRest

Promote ==
    /\ At("pushed", "promote")
    /\ Sends("promote", 0)
    /\ UNCHANGED <<sess, attempt, astray>> /\ SwitchRest

Promoted ==
    /\ At("promote", "promoted")
    /\ Answered /\ call' = NoCall
    /\ UNCHANGED <<sess, attempt, astray>> /\ SwitchRest

\* The DNS record is switched, and the old master steps aside.
StepAside ==
    /\ At("promoted", "aside")
    /\ sess' = [sess EXCEPT !.role = "standby"] /\ astray' = FALSE
    /\ UNCHANGED <<attempt, call>> /\ SwitchRest

Demoted ==
    /\ At("aside", "ending")
    /\ sess' = [sess EXCEPT !.phase = "standby"]
    /\ UNCHANGED <<attempt, call, astray>> /\ SwitchRest

\* handleMigrationSwitch, after the switch.
SyncFence ==
    /\ At("ending", "idle")
    /\ fenced' = TRUE
    /\ attempt' = NoAttempt
    /\ UNCHANGED <<sess, up, db, others, astray>> /\ AtHome

Refused ==
    \/ call.at = "refused"
    \/ /\ call.at = "sent"
       /\ ~Open(call.req.to) \/ cand[call.req.to].pair # call.req.token

\* The switch ends and no longer waits for its request, which may be handled nonetheless.
GiveUp ==
    /\ switch' = "idle" /\ attempt' = NoAttempt
    /\ call' = NoCall
    /\ late' = IF call.at = "sent" /\ ~Refused THEN late \cup {call.req} ELSE late

\* A snapshot or a request fails, or is not answered in time: SetError.
SwitchFails ==
    /\ switch \in {"switching", "push", "promote"}
    /\ sess' = [sess EXCEPT !.phase = "error", !.fenced = FALSE]
    /\ GiveUp
    /\ \/ Refused /\ UNCHANGED trouble
       \/ trouble < MaxTrouble /\ trouble' = trouble + 1
    /\ UNCHANGED <<up, fenced, db, others, cand, history>>

Switch ==
    \/ RaiseFence \/ SetSwitching \/ Push \/ Pushed \/ Promote \/ Promoted
    \/ StepAside \/ Demoted \/ SyncFence \/ SwitchFails

-----------------------------------------------------------------------------
(* Rolling back, decommissioning *)

\* CancelRollback, holding the mutex, in two saves ...
RollBack ==
    /\ up /\ MuFree /\ rollback = "idle" /\ rollback' = "role"
    /\ sess.phase # "completed"
    /\ sess' = [sess EXCEPT !.role = "master"] /\ astray' = FALSE
    /\ UNCHANGED <<up, fenced, db, switch, attempt, verifying, retiring, asked>> /\ AtHome

\* A rollback that forgets the candidate as well as its token.
RolledBackForgets ==
    /\ rollback = "role" /\ rollback' = "unfence"
    /\ sess' = [sess EXCEPT !.phase = "rolled_back", !.fenced = FALSE, !.token = 0, !.cand = None]
    /\ UNCHANGED <<up, fenced, db, switch, attempt, verifying, retiring, asked, astray>> /\ AtHome

RolledBack ==
    /\ rollback = "role" /\ rollback' = "unfence"
    /\ sess' = [sess EXCEPT !.phase = "rolled_back", !.fenced = FALSE, !.token = 0]
    /\ UNCHANGED <<up, fenced, db, switch, attempt, verifying, retiring, asked, astray>> /\ AtHome

\* ... and the manager's fence after it.
Unfence ==
    /\ rollback = "unfence" /\ rollback' = "idle"
    /\ fenced' = FALSE
    /\ UNCHANGED <<sess, up, db, switch, attempt, verifying, retiring, asked, astray>> /\ AtHome

\* handleMigrationDecommission holds no lock: the role is checked ...
AskDecommission ==
    /\ up /\ retiring = "no" /\ retiring' = "checked"
    /\ sess.role = "standby"
    /\ asked' = sess.id
    /\ UNCHANGED <<sess, up, fenced, db, switch, attempt, rollback, verifying, astray>> /\ AtHome

\* ... then set, in whatever migration it finds, ...
Decommission ==
    /\ retiring = "checked" /\ retiring' = "role"
    /\ sess' = [sess EXCEPT !.role = "decommissioned"]
    /\ astray' = (asked # sess.id)
    /\ UNCHANGED <<up, fenced, db, switch, attempt, rollback, verifying, asked>> /\ AtHome

\* ... and the session closed.
Complete ==
    /\ retiring = "role" /\ retiring' = "no"
    /\ sess' = [sess EXCEPT !.phase = "completed", !.fenced = FALSE, !.token = 0]
    /\ asked' = 0
    /\ UNCHANGED <<up, fenced, db, switch, attempt, rollback, verifying, astray>> /\ AtHome

-----------------------------------------------------------------------------
(* The old master's process *)

\* Requests that change anything are served by a master that is not fenced; a standby
\* hands them to the new one.
Serves == up /\ sess.role # "standby" /\ ~fenced

Write ==
    /\ Serves
    /\ db < MaxWrites /\ db' = db + 1
    /\ UNCHANGED <<sess, up, fenced, switch, attempt, others, astray>> /\ AtHome

Stops ==
    /\ up /\ up' = FALSE
    /\ trouble < MaxTrouble /\ trouble' = trouble + 1
    /\ fenced' = FALSE
    /\ rollback' = "idle" /\ verifying' = FALSE /\ retiring' = "no" /\ asked' = 0
    /\ GiveUp
    /\ UNCHANGED <<sess, db, cand, history>>

\* InitMigration takes the fence up again.
Starts ==
    /\ ~up /\ up' = TRUE
    /\ fenced' = sess.fenced
    /\ UNCHANGED <<sess, db, switch, attempt, others, astray>> /\ AtHome

-----------------------------------------------------------------------------
(* The candidate *)

\* A candidate that does not look whether it was promoted.
BootAsCandidate(r) == [r EXCEPT !.role = "candidate", !.phase = "prepare", !.mode = "passive"]

\* runCandidate: a promoted one runs as the master it is, any other starts over.
Boot(r) ==
    IF r.role = "master" /\ r.phase = "completed"
    THEN [r EXCEPT !.mode = "server"]
    ELSE [r EXCEPT !.role = "candidate", !.phase = "prepare", !.mode = "passive"]

\* What a candidate has begun to handle, or has not, is lost when its process ends.
Disconnects(c) ==
    /\ call' = IF call.at \in {"sent", "begun"} /\ call.req.to = c
               THEN [call EXCEPT !.at = "refused"] ELSE call
    /\ late' = {r \in late : r.to # c}

\* The operator runs the install command of the current migration there.
Install(c) ==
    /\ sess.cand = c /\ sess.token # 0 /\ cand[c].pair # sess.token
    /\ cand' = [cand EXCEPT ![c] = Boot([cand[c] EXCEPT !.pair = sess.token])]
    /\ Disconnects(c)
    /\ UNCHANGED <<oldVars, trouble, history>>

CandidateStops(c) ==
    /\ cand[c].mode \notin {"absent", "down"}
    /\ trouble < MaxTrouble /\ trouble' = trouble + 1
    /\ cand' = [cand EXCEPT ![c].mode = "down"]
    /\ Disconnects(c)
    /\ UNCHANGED <<oldVars, history>>

CandidateStarts(c) ==
    /\ cand[c].mode = "down"
    /\ cand' = [cand EXCEPT ![c] = Boot(cand[c])]
    /\ UNCHANGED <<oldVars, call, late, trouble, history>>

\* The candidate takes a request with its token: that of the switch, or a late one.
Takes(c, r, kind, next) ==
    /\ r.kind = kind /\ r.to = c /\ r.token = cand[c].pair /\ Open(c)
    /\ \/ call.req = r /\ call.at = "sent" /\ call' = [call EXCEPT !.at = next]
          /\ UNCHANGED late
       \/ r \in late /\ late' = late \ {r} /\ UNCHANGED call

Requests == late \cup (IF call = NoCall THEN {} ELSE {call.req})

\* /migration/apply-snapshot
ApplySnapshot(c) ==
    \E r \in Requests :
        /\ Takes(c, r, "push", "answered")
        /\ cand' = [cand EXCEPT ![c].data = r.snap, ![c].phase = "candidate_ready"]
        /\ undone' = IF cand[c].mode = "passive" THEN undone ELSE undone \cup {c}
        /\ reverted' = IF r.snap < cand[c].data THEN reverted \cup {c} ELSE reverted
        /\ UNCHANGED <<oldVars, trouble, astray>>

\* /migration/promote, in two saves
PromoteRole(c) ==
    /\ cand[c].mode # "leaving"
    /\ \E r \in Requests :
          /\ Takes(c, r, "promote", "begun")
          /\ cand' = [cand EXCEPT ![c].role = "master", ![c].mode = "halfway"]
          /\ UNCHANGED <<oldVars, trouble, history>>

PromotePhase(c) ==
    /\ cand[c].mode = "halfway"
    /\ cand' = [cand EXCEPT ![c].phase = "completed", ![c].mode = "leaving"]
    /\ call' = IF call.at = "begun" /\ call.req.to = c
               THEN [call EXCEPT !.at = "answered"] ELSE call
    /\ undone' = undone \ {c}
    /\ UNCHANGED <<oldVars, late, trouble, astray, reverted>>

\* A promotion of one that is promoted and still listens.
PromoteAgain(c) ==
    /\ cand[c].mode = "leaving"
    /\ \E r \in Requests :
          /\ Takes(c, r, "promote", "answered")
          /\ cand' = [cand EXCEPT ![c].phase = "completed"]
          /\ undone' = undone \ {c}
          /\ UNCHANGED <<oldVars, trouble, astray, reverted>>

\* The passive server is shut down, and the master runs.
Serve(c) ==
    /\ cand[c].mode = "leaving"
    /\ cand' = [cand EXCEPT ![c].mode = "server"]
    /\ Disconnects(c)
    /\ UNCHANGED <<oldVars, trouble, history>>

Next ==
    \/ \E c \in Candidates : StartMigration(c)
    \/ Verify \/ Verified \/ Switch
    \/ RollBack \/ RolledBack \/ Unfence \/ AskDecommission \/ Decommission \/ Complete
    \/ Write \/ Stops \/ Starts
    \/ \E c \in Candidates :
          \/ Install(c) \/ CandidateStops(c) \/ CandidateStarts(c)
          \/ ApplySnapshot(c) \/ PromoteRole(c) \/ PromotePhase(c)
          \/ PromoteAgain(c) \/ Serve(c)

Spec == Init /\ [][Next]_vars

-----------------------------------------------------------------------------
(* Properties *)

IsPromoted(c) == cand[c].role = "master" /\ cand[c].phase = "completed"

\* The old master has stepped aside.
IsAside == sess.role \in {"standby", "decommissioned"}

\* Somebody is the master: the old one steps aside, and stays aside, only for a candidate
\* that has its promotion on disk, however the switch, restarts, rollbacks, verifications,
\* late requests and further migrations interleave.  Two things go past it: a snapshot that
\* a promoted candidate still takes, and a decommission checked in an earlier migration.
NeverHeadless ==
    IsAside =>
        /\ sess.cand # None
        /\ IsPromoted(sess.cand) \/ sess.cand \in undone \/ astray

\* The old master hands over everything it had accepted when it raised the fence, in the
\* last of however many attempts it took, unless an older snapshot came after a newer one.
HandsOverAll ==
    [][StepAside => cand[sess.cand].data >= attempt.db \/ sess.cand \in reverted]_vars

\* Nobody becomes a master without the old one's data, however late a request arrives.
NoEmptyMaster == \A c \in Candidates : IsPromoted(c) => cand[c].data # NoData

\* Whoever steps aside leaves its data with somebody, however late a request arrives, unless
\* it was decommissioned by a request checked in an earlier migration.
HeirHasData ==
    IsAside =>
        sess.cand # None /\ (cand[sess.cand].data # NoData \/ astray)

\* However late requests are, only a snapshot takes a promotion back, and only until the
\* passive server has shut down.
OnlyLateSnapshotUndoes ==
    [][\A c \in Candidates : IsPromoted(c) =>
          IsPromoted(c)' \/ (ApplySnapshot(c) /\ cand[c].mode \in {"halfway", "leaving"})]_vars

\* ExecuteSwitchover: "Fencing: Stop ALL mutations on the old master".
FencedTakesNoWrites == [][db' # db => ~sess.fenced]_vars

\* StateManager: "ensuring only one active migration and single active master" - when no
\* switch or rollback is under way.
SingleActiveMaster ==
    switch = "idle" /\ rollback = "idle" /\ sess.role = "master"
        => \A c \in Candidates : ~IsPromoted(c)

-----------------------------------------------------------------------------
(* Fairness: systemd starts a candidate again that has stopped (Restart=always), and a     *)
(* promoted one leaves its passive mode by itself.                                         *)

Fairness == \A c \in Candidates : WF_vars(CandidateStarts(c) \/ Serve(c))

FairSpec == Spec /\ Fairness

\* Behind a master that has stepped aside there is, in the end, a new one that serves, or the
\* old one is called back; except where the promotion was undone by a snapshot taken after
\* it, or the decommission was checked in another migration.
StandbyIsServed ==
    IsAside ~> ~IsAside \/ cand[sess.cand].mode = "server" \/ sess.cand \in undone \/ astray
=============================================================================
