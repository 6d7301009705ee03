------------------------ MODULE MasterMigrationProofs ------------------------
(***************************************************************************)
(* Theorems about MasterMigration, for every set of candidates, any number *)
(* of migrations, of changes accepted, of requests given up and of         *)
(* processes that die.                                                     *)
(*                                                                         *)
(* All of them hold however late requests are handled.  The type invariant *)
(* needs that a candidate has been chosen whenever the session is one of a *)
(* migration (Chosen).  That a standby has a successor with everything is  *)
(* an argument of four invariants: the mode of a candidate goes with its   *)
(* role (ModesMean), the request of the switch is to its candidate and its *)
(* answer means what it says (CallMeans), what the switch has behind it    *)
(* holds (SwitchMeans), and so does what a decommission was checked for    *)
(* (RetiringMeans).  Who has the data is an invariant of its own (Backed). *)
(***************************************************************************)
EXTENDS MasterMigration, TLAPS

Chosen ==
    sess.cand = None =>
        /\ sess.phase \in {"idle", "rolled_back"} /\ sess.role = "master" /\ sess.token = 0
        /\ switch = "idle" /\ ~verifying /\ retiring = "no"

-----------------------------------------------------------------------------
(* Type correctness *)

Typed == TypeOK /\ Chosen

LEMMA InitTyped == Init => Typed
<1> SUFFICES ASSUME Init PROVE Typed
  OBVIOUS
<1>1. sess \in Session
  BY DEF Init, Session, Phases, Roles
<1>2. cand \in [Candidates -> Candidate]
  BY DEF Init, Candidate, Phases, Roles, Modes, NoData
<1> QED
  BY <1>1, <1>2 DEF Init, Typed, TypeOK, Chosen, NoAttempt

\* A candidate that is started again is well formed.
LEMMA BootTyped ==
  ASSUME NEW r \in Candidate
  PROVE  Boot(r) \in Candidate
  BY DEF Boot, Candidate, Roles, Phases, Modes

\* So is the switch's request when a connection is reset.
LEMMA DisconnectsTyped ==
  ASSUME TypeOK, NEW c \in Candidates, Disconnects(c)
  PROVE  /\ call' \in [req : Request, at : {"sent", "begun", "answered", "refused"}] \cup {NoCall}
         /\ late' \subseteq Request
  BY DEF TypeOK, Disconnects, NoCall

\* When a candidate takes it.
LEMMA TakesTyped ==
  ASSUME TypeOK, NEW c \in Candidates, NEW r, NEW kind, NEW next \in {"answered", "begun"},
         Takes(c, r, kind, next)
  PROVE  /\ call' \in [req : Request, at : {"sent", "begun", "answered", "refused"}] \cup {NoCall}
         /\ late' \subseteq Request
  BY DEF TypeOK, Takes, NoCall

\* And what it has given up.
LEMMA GiveUpTyped ==
  ASSUME TypeOK, GiveUp
  PROVE  /\ late' \subseteq Request
         /\ attempt' \in [token : Nat, db : Nat]
  BY DEF TypeOK, GiveUp, NoCall, NoAttempt

\* A step that writes nothing but the session.
LEMMA SessionTyped ==
  ASSUME TypeOK, sess' \in Session, verifying' \in BOOLEAN,
         UNCHANGED <<up, fenced, db, switch, attempt, rollback, retiring, asked, astray>>, AtHome
  PROVE  TypeOK'
  BY DEF TypeOK, AtHome

\* Steps of the old master outside its switch.
LEMMA HomeTyped ==
  ASSUME Typed,
         \/ \E c \in Candidates : StartMigration(c)
         \/ Verify \/ Verified \/ RollBack \/ RolledBack \/ Unfence \/ AskDecommission \/ Decommission \/ Complete
         \/ Write \/ Stops \/ Starts
  PROVE  Typed'
<1> USE MasterMigrationAssumption DEF Typed, TypeOK, Chosen, AtHome, others, history
<1>1. CASE \E c \in Candidates : StartMigration(c)
  <2>1. sess' \in Session
    BY <1>1 DEF StartMigration, Session, Phases, Roles
  <2>2. sess'.cand # None
    BY <1>1 DEF StartMigration
  <2>3. /\ astray' \in BOOLEAN /\ undone' \subseteq Candidates
        /\ UNCHANGED <<up, fenced, db, switch, attempt, others, call, cand, late, trouble, reverted>>
    BY <1>1 DEF StartMigration
  <2> QED
    BY <2>1, <2>2, <2>3
<1>2. CASE Verify
  BY <1>2 DEF Verify
<1>3. CASE Verified
  <2>1. sess' \in Session
    BY <1>3 DEF Verified, Session, Phases
  <2>2. sess'.cand # None
    BY <1>3 DEF Verified, Session
  <2> QED
    BY <1>3, <2>1, <2>2, SessionTyped DEF Verified
<1>4. CASE RollBack
  <2>1. sess' \in Session
    BY <1>4 DEF RollBack, Session, Roles
  <2> QED
    BY <1>4, <2>1 DEF RollBack, Session
<1>5. CASE RolledBack
  <2>1. sess' \in Session
    BY <1>5 DEF RolledBack, Session, Phases
  <2> QED
    BY <1>5, <2>1 DEF RolledBack, Session
<1>6. CASE Unfence
  BY <1>6 DEF Unfence
<1>12. CASE AskDecommission
  BY <1>12 DEF AskDecommission, Session
<1>7. CASE Decommission
  <2>1. sess' \in Session
    BY <1>7 DEF Decommission, Session, Roles
  <2> QED
    BY <1>7, <2>1 DEF Decommission, Session
<1>8. CASE Complete
  <2>1. sess' \in Session
    BY <1>8 DEF Complete, Session, Phases
  <2> QED
    BY <1>8, <2>1 DEF Complete, Session
<1>9. CASE Write
  BY <1>9 DEF Write
<1>10. CASE Stops
  <2>1. late' \subseteq Request /\ call' = NoCall
    BY <1>10, GiveUpTyped DEF Stops, GiveUp
  <2>3. attempt' \in [token : Nat, db : Nat] /\ switch' = "idle"
    BY <1>10, GiveUpTyped DEF Stops, GiveUp
  <2>2. trouble' \in Nat
    BY <1>10 DEF Stops
  <2> QED
    BY <1>10, <2>1, <2>2, <2>3 DEF Stops
<1>11. CASE Starts
  BY <1>11 DEF Starts, Session
<1> QED
  BY <1>1, <1>2, <1>3, <1>4, <1>5, <1>6, <1>7, <1>8, <1>9, <1>10, <1>11, <1>12

\* Steps of the switch: whoever switches has chosen a candidate.
LEMMA SwitchTyped ==
  ASSUME Typed, Switch
  PROVE  Typed'
<1> USE MasterMigrationAssumption DEF Typed, TypeOK, Chosen, SwitchRest, At, others, history
<1>1. CASE RaiseFence
  <2>1. sess' \in Session
    BY <1>1 DEF RaiseFence, Session
  <2> QED
    BY <1>1, <2>1 DEF RaiseFence, Session
<1>2. CASE SetSwitching
  <2>1. sess' \in Session
    BY <1>2 DEF SetSwitching, Session, Phases
  <2> QED
    BY <1>2, <2>1 DEF SetSwitching, Session
<1>3. CASE Push
  BY <1>3 DEF Push, Sends, Session, Request
<1>4. CASE Pushed
  BY <1>4 DEF Pushed
<1>5. CASE Promote
  BY <1>5 DEF Promote, Sends, Session, Request
<1>6. CASE Promoted
  BY <1>6 DEF Promoted
<1>7. CASE StepAside
  <2>1. sess' \in Session
    BY <1>7 DEF StepAside, Session, Roles
  <2> QED
    BY <1>7, <2>1 DEF StepAside, Session
<1>8. CASE Demoted
  <2>1. sess' \in Session
    BY <1>8 DEF Demoted, Session, Phases
  <2> QED
    BY <1>8, <2>1 DEF Demoted, Session
<1>9. CASE SyncFence
  BY <1>9 DEF SyncFence, AtHome, NoAttempt
<1>10. CASE SwitchFails
  <2>1. sess' \in Session
    BY <1>10 DEF SwitchFails, Session, Phases
  <2> QED
    BY <1>10, <2>1, GiveUpTyped DEF SwitchFails, GiveUp, Session
<1> QED
  BY <1>1, <1>2, <1>3, <1>4, <1>5, <1>6, <1>7, <1>8, <1>9, <1>10 DEF Switch

\* Steps of a candidate.
LEMMA CandidateTyped ==
  ASSUME Typed, NEW c \in Candidates,
         \/ Install(c) \/ CandidateStops(c) \/ CandidateStarts(c)
         \/ ApplySnapshot(c) \/ PromoteRole(c) \/ PromotePhase(c)
         \/ PromoteAgain(c) \/ Serve(c)
  PROVE  Typed'
<1> USE MasterMigrationAssumption DEF Typed, TypeOK, Chosen, oldVars, others, history
<1> DEFINE Calls == [req : Request, at : {"sent", "begun", "answered", "refused"}] \cup {NoCall}
<1>a. cand[c] \in Candidate
  OBVIOUS
<1>1. CASE Install(c)
  <2>1. [cand[c] EXCEPT !.pair = sess.token] \in Candidate
    BY <1>a DEF Candidate, Session
  <2> QED
    BY <1>1, <2>1, BootTyped, DisconnectsTyped DEF Install
<1>2. CASE CandidateStops(c)
  <2>1. [cand[c] EXCEPT !.mode = "down"] \in Candidate
    BY <1>a DEF Candidate, Modes
  <2> QED
    BY <1>2, <2>1, DisconnectsTyped DEF CandidateStops
<1>3. CASE CandidateStarts(c)
  BY <1>3, <1>a, BootTyped DEF CandidateStarts
<1>4. CASE ApplySnapshot(c)
  <2>1. PICK r \in Requests : /\ Takes(c, r, "push", "answered")
                             /\ cand' = [cand EXCEPT ![c].data = r.snap, ![c].phase = "candidate_ready"]
                             /\ undone' \subseteq Candidates /\ reverted' \subseteq Candidates
                             /\ UNCHANGED <<oldVars, trouble, astray>>
    BY <1>4 DEF ApplySnapshot
  <2>2. r \in Request
    BY DEF Requests
  <2>3. [cand[c] EXCEPT !.data = r.snap, !.phase = "candidate_ready"] \in Candidate
    BY <1>a, <2>2 DEF Candidate, Request, Phases
  <2>4. call' \in Calls /\ late' \subseteq Request
    BY <2>1, TakesTyped
  <2> QED
    BY <2>1, <2>3, <2>4
<1>5. CASE PromoteRole(c)
  <2>1. PICK r \in Requests : /\ Takes(c, r, "promote", "begun")
                             /\ cand' = [cand EXCEPT ![c].role = "master", ![c].mode = "halfway"]
                             /\ UNCHANGED <<oldVars, trouble, history>>
    BY <1>5 DEF PromoteRole
  <2>3. [cand[c] EXCEPT !.role = "master", !.mode = "halfway"] \in Candidate
    BY <1>a DEF Candidate, Roles, Modes
  <2>4. call' \in Calls /\ late' \subseteq Request
    BY <2>1, TakesTyped
  <2> QED
    BY <2>1, <2>3, <2>4
<1>6. CASE PromotePhase(c)
  <2>1. [cand[c] EXCEPT !.phase = "completed", !.mode = "leaving"] \in Candidate
    BY <1>a DEF Candidate, Phases, Modes
  <2>2. call' \in Calls
    BY <1>6 DEF PromotePhase, NoCall
  <2> QED
    BY <1>6, <2>1, <2>2 DEF PromotePhase
<1>7. CASE Serve(c)
  <2>1. [cand[c] EXCEPT !.mode = "server"] \in Candidate
    BY <1>a DEF Candidate, Modes
  <2> QED
    BY <1>7, <2>1, DisconnectsTyped DEF Serve
<1>8. CASE PromoteAgain(c)
  <2>1. PICK r \in Requests : /\ Takes(c, r, "promote", "answered")
                             /\ cand' = [cand EXCEPT ![c].phase = "completed"]
                             /\ undone' = undone \ {c} /\ UNCHANGED <<oldVars, trouble, astray, reverted>>
    BY <1>8 DEF PromoteAgain
  <2>3. [cand[c] EXCEPT !.phase = "completed"] \in Candidate
    BY <1>a DEF Candidate, Phases
  <2>4. call' \in Calls /\ late' \subseteq Request
    BY <2>1, TakesTyped
  <2> QED
    BY <2>1, <2>3, <2>4
<1> QED
  BY <1>1, <1>2, <1>3, <1>4, <1>5, <1>6, <1>7, <1>8

LEMMA NextTyped ==
  ASSUME Typed, [Next]_vars
  PROVE  Typed'
<1>1. CASE UNCHANGED vars
  BY <1>1 DEF Typed, TypeOK, Chosen, vars, oldVars, others, history
<1>2. CASE Next
  BY <1>2, HomeTyped, SwitchTyped, CandidateTyped DEF Next
<1> QED
  BY <1>1, <1>2

THEOREM TypedAlways == Spec => []Typed
  BY InitTyped, NextTyped, PTL DEF Spec

\* TypeOK: the session of the old master and of every candidate, their requests and their
\* data keep their types.
THEOREM TypeCorrect == Spec => []TypeOK
  BY TypedAlways, PTL DEF Typed

-----------------------------------------------------------------------------
(* Helpers *)

LEMMA BootData ==
  ASSUME NEW r \in Candidate
  PROVE  Boot(r).data = r.data
  BY DEF Boot, Candidate

\* Its data changes by a snapshot only.
LEMMA DataKept ==
  ASSUME Typed, NEW c \in Candidates,
         \/ Install(c) \/ CandidateStops(c) \/ CandidateStarts(c)
         \/ PromoteRole(c) \/ PromotePhase(c)
         \/ PromoteAgain(c) \/ Serve(c)
  PROVE  \A d \in Candidates : cand'[d].data = cand[d].data
<1>1. cand \in [Candidates -> Candidate]
  BY DEF Typed, TypeOK
<1>2. PICK r : cand' = [cand EXCEPT ![c] = r] /\ r.data = cand[c].data
  <2>1. cand[c] \in Candidate
    BY <1>1
  <2>2. CASE Install(c)
    <3> DEFINE q == [cand[c] EXCEPT !.pair = sess.token]
    <3>1. q \in Candidate /\ q.data = cand[c].data
      BY <2>1 DEF Candidate, Typed, TypeOK, Session
    <3>2. Boot(q).data = cand[c].data
      BY <3>1, BootData
    <3> QED
      BY <2>2, <3>2 DEF Install
  <2>3. CASE CandidateStarts(c)
    BY <2>1, <2>3, BootData DEF CandidateStarts
  <2>4. CASE CandidateStops(c)
    <3>1. [cand[c] EXCEPT !.mode = "down"].data = cand[c].data
      BY <2>1 DEF Candidate
    <3> QED
      BY <2>4, <3>1 DEF CandidateStops
  <2>5. CASE PromoteRole(c)
    <3>1. [cand[c] EXCEPT !.role = "master", !.mode = "halfway"].data = cand[c].data
      BY <2>1 DEF Candidate
    <3> QED
      BY <2>5, <3>1 DEF PromoteRole
  <2>6. CASE PromotePhase(c)
    <3>1. [cand[c] EXCEPT !.phase = "completed", !.mode = "leaving"].data = cand[c].data
      BY <2>1 DEF Candidate
    <3> QED
      BY <2>6, <3>1 DEF PromotePhase
  <2>7. CASE Serve(c)
    <3>1. [cand[c] EXCEPT !.mode = "server"].data = cand[c].data
      BY <2>1 DEF Candidate
    <3> QED
      BY <2>7, <3>1 DEF Serve
  <2>8. CASE PromoteAgain(c)
    <3>1. [cand[c] EXCEPT !.phase = "completed"].data = cand[c].data
      BY <2>1 DEF Candidate
    <3> QED
      BY <2>8, <3>1 DEF PromoteAgain
  <2> QED
    BY <2>2, <2>3, <2>4, <2>5, <2>6, <2>7, <2>8
<1> QED
  BY <1>1, <1>2

-----------------------------------------------------------------------------
(* The switch, the decommission and what they rest on *)

\* A candidate is promoted, or its promotion was undone.
Kept(c) == IsPromoted(c) \/ c \in undone

\* A candidate has the first n changes, or an older snapshot came after a newer one.
Full(c, n) == cand[c].data >= n \/ c \in reverted

ModesMean ==
    \A c \in Candidates :
        /\ cand[c].mode \in {"halfway", "leaving"} => cand[c].role = "master"
        /\ cand[c].mode = "passive" => cand[c].role # "master"

CallMeans ==
    call # NoCall =>
        /\ switch = call.req.kind
        /\ call.req.to = sess.cand
        /\ call.at = "begun" => call.req.kind = "promote"
        /\ call.req.kind = "push" => call.req.snap >= attempt.db
        /\ call.req.kind = "push" /\ call.at = "answered" => Full(call.req.to, attempt.db)
        /\ call.req.kind = "promote" /\ call.at = "answered" => Kept(call.req.to)

SwitchMeans ==
    /\ attempt.db <= db
    /\ switch \in {"pushed", "promote", "promoted"} => Full(sess.cand, attempt.db)
    /\ switch \in {"promoted", "aside"} => Kept(sess.cand)

\* A decommission that was checked in this migration has a successor.
RetiringMeans ==
    /\ asked <= sess.id
    /\ retiring = "checked" /\ asked = sess.id => Kept(sess.cand)
    /\ astray => sess.role = "decommissioned"

Strong == ModesMean /\ CallMeans /\ SwitchMeans /\ RetiringMeans /\ NeverHeadless

LEMMA InitStrong == Init => Strong
<1> SUFFICES ASSUME Init PROVE Strong
  OBVIOUS
<1>1. /\ call = NoCall /\ switch = "idle" /\ sess.role = "master" /\ sess.id = 0
      /\ attempt.db <= db /\ retiring = "no" /\ asked = 0 /\ ~astray
  BY DEF Init, NoAttempt
<1>2. ModesMean
  BY DEF Init, ModesMean
<1> QED
  BY <1>1, <1>2 DEF Strong, CallMeans, SwitchMeans, RetiringMeans, NeverHeadless, IsAside

\* The switch waits for a request in two places only.
LEMMA WaitsForCall ==
  ASSUME Typed, CallMeans
  PROVE  /\ call # NoCall => switch \in {"push", "promote"}
         /\ Answered => call # NoCall
  BY DEF Typed, TypeOK, CallMeans, Request, Answered, NoCall

LEMMA HomeStrong ==
  ASSUME Typed, Strong,
         \/ \E c \in Candidates : StartMigration(c)
         \/ Verify \/ Verified \/ RollBack \/ RolledBack \/ Unfence \/ AskDecommission \/ Decommission \/ Complete
         \/ Write \/ Stops \/ Starts
  PROVE  Strong'
<1> USE DEF Strong, AtHome, others
<1>1. UNCHANGED cand /\ ModesMean'
  BY DEF StartMigration, Verify, Verified, RollBack, RolledBack, Unfence, AskDecommission, Decommission, Complete,
     Write, Stops, Starts, ModesMean, history
<1>2. sess \in Session /\ sess.id \in Nat /\ db \in Nat /\ attempt.db \in Nat /\ asked \in Nat
  BY DEF Typed, TypeOK, Session
<1>a. CallMeans' /\ SwitchMeans' /\ RetiringMeans' /\ NeverHeadless'
  <2> USE <1>1, <1>2 DEF CallMeans, SwitchMeans, RetiringMeans, NeverHeadless, IsAside, Kept, Full, IsPromoted
  <2>1. CASE \E c \in Candidates : StartMigration(c)
    <3>1. call = NoCall /\ switch \in {"idle", "ending"}
      BY <2>1, WaitsForCall DEF StartMigration, MuFree
    <3> QED
      BY <2>1, <3>1 DEF StartMigration
  <2>2. CASE Verify
    BY <2>2 DEF Verify
  <2>3. CASE Verified
    BY <2>3 DEF Verified, Session
  <2>4. CASE RollBack
    BY <2>4 DEF RollBack, Session
  <2>5. CASE RolledBack
    BY <2>5 DEF RolledBack, Session
  <2>6. CASE Unfence
    BY <2>6 DEF Unfence
  <2>7. CASE AskDecommission
    BY <2>7 DEF AskDecommission
  <2>8. CASE Decommission
    <3>1. sess.cand # None
      BY <2>8 DEF Decommission, Typed, Chosen
    <3> QED
      BY <2>8, <3>1 DEF Decommission, Session
  <2>9. CASE Complete
    BY <2>9 DEF Complete, Session
  <2>10. CASE Write
    BY <2>10 DEF Write
  <2>11. CASE Stops
    BY <2>11 DEF Stops, GiveUp, NoAttempt, history
  <2>12. CASE Starts
    BY <2>12 DEF Starts
  <2> QED
    BY <2>1, <2>2, <2>3, <2>4, <2>5, <2>6, <2>7, <2>8, <2>9, <2>10, <2>11, <2>12
<1> QED
  BY <1>1, <1>a

LEMMA SwitchStrong ==
  ASSUME Typed, Strong, Switch
  PROVE  /\ Strong'
         /\ StepAside => Full(sess.cand, attempt.db)
<1> USE DEF Strong, SwitchRest, At, others
<1>1. UNCHANGED cand /\ ModesMean'
  BY DEF Switch, RaiseFence, SetSwitching, Push, Pushed, Promote, Promoted, StepAside, Demoted,
     SyncFence, SwitchFails, AtHome, ModesMean
<1>2. sess \in Session /\ sess.id \in Nat /\ db \in Nat /\ attempt.db \in Nat /\ asked \in Nat
  BY DEF Typed, TypeOK, Session
<1>3. StepAside => Full(sess.cand, attempt.db)
  BY DEF StepAside, SwitchMeans
<1>a. CallMeans' /\ SwitchMeans' /\ RetiringMeans' /\ NeverHeadless'
  <2> USE <1>1, <1>2 DEF CallMeans, SwitchMeans, RetiringMeans, NeverHeadless, IsAside, Kept, Full, IsPromoted
  <2>1. CASE RaiseFence
    BY <2>1, WaitsForCall DEF RaiseFence, Session, MuFree
  <2>2. CASE SetSwitching
    BY <2>2, WaitsForCall DEF SetSwitching, Session
  <2>3. CASE Push
    BY <2>3 DEF Push, Sends
  <2>4. CASE Pushed
    BY <2>4, WaitsForCall DEF Pushed, Answered
  <2>5. CASE Promote
    BY <2>5, WaitsForCall DEF Promote, Sends
  <2>6. CASE Promoted
    BY <2>6, WaitsForCall DEF Promoted, Answered
  <2>7. CASE StepAside
    BY <2>7, WaitsForCall DEF StepAside, Session, Typed, Chosen
  <2>8. CASE Demoted
    BY <2>8, WaitsForCall DEF Demoted, Session
  <2>9. CASE SyncFence
    BY <2>9, WaitsForCall DEF SyncFence, AtHome, NoAttempt
  <2>10. CASE SwitchFails
    BY <2>10, WaitsForCall DEF SwitchFails, GiveUp, NoAttempt, history, Session
  <2> QED
    BY <2>1, <2>2, <2>3, <2>4, <2>5, <2>6, <2>7, <2>8, <2>9, <2>10 DEF Switch
<1> QED
  BY <1>1, <1>3, <1>a

\* A candidate's step keeps a promotion or marks it undone, keeps its data or marks an older
\* snapshot, and keeps its mode and its role together.
LEMMA CandidateRecord ==
  ASSUME Typed, ModesMean, NEW c \in Candidates,
         \/ Install(c) \/ CandidateStops(c) \/ CandidateStarts(c)
         \/ ApplySnapshot(c) \/ PromoteRole(c) \/ PromotePhase(c)
         \/ PromoteAgain(c) \/ Serve(c)
  PROVE  /\ \A d \in Candidates : Kept(d) => Kept(d)'
         /\ \A d \in Candidates, n \in Int : Full(d, n) => Full(d, n)'
         /\ PromotePhase(c) \/ PromoteAgain(c) => Kept(c)'
         /\ ModesMean'
<1>a. cand \in [Candidates -> Candidate] /\ cand[c] \in Candidate
  BY DEF Typed, TypeOK
<1>b. \A d \in Candidates : cand[d].data \in Int
  BY <1>a DEF Candidate, NoData
<1> DEFINE Fine(r) == (r.mode \in {"halfway", "leaving"} => r.role = "master")
                      /\ (r.mode = "passive" => r.role # "master")
           Same(r) == /\ IsPromoted(c) => r.role = "master" /\ r.phase = "completed"
                      /\ r.data = cand[c].data
<1>e. ASSUME NEW r, cand' = [cand EXCEPT ![c] = r], Same(r), Fine(r), undone' = undone, reverted' = reverted
      PROVE  /\ \A d \in Candidates : Kept(d) => Kept(d)'
             /\ \A d \in Candidates, n \in Int : Full(d, n) => Full(d, n)'
             /\ ModesMean'
  <2>1. cand'[c] = r /\ \A d \in Candidates \ {c} : cand'[d] = cand[d]
    BY <1>a, <1>e
  <2> QED
    BY <1>e, <2>1 DEF Kept, Full, ModesMean, IsPromoted
<1>p. PromotePhase(c) \/ PromoteAgain(c) => Kept(c)'
  BY <1>a DEF PromotePhase, PromoteAgain, ModesMean, Kept, IsPromoted, Candidate
<1>1. CASE Install(c)
  <2> DEFINE q == [cand[c] EXCEPT !.pair = sess.token]
  <2>1. q \in Candidate /\ q.role = cand[c].role /\ q.phase = cand[c].phase /\ q.data = cand[c].data
    BY <1>a DEF Candidate, Typed, TypeOK, Session
  <2>2. Same(Boot(q)) /\ Fine(Boot(q))
    BY <2>1 DEF Boot, IsPromoted, Candidate
  <2> QED
    BY <1>1, <1>e, <1>p, <2>2 DEF Install, history
<1>2. CASE CandidateStops(c)
  <2>1. Same([cand[c] EXCEPT !.mode = "down"]) /\ Fine([cand[c] EXCEPT !.mode = "down"])
    BY <1>a DEF IsPromoted, Candidate
  <2> QED
    BY <1>2, <1>e, <1>p, <2>1 DEF CandidateStops, history
<1>3. CASE CandidateStarts(c)
  <2>1. Same(Boot(cand[c])) /\ Fine(Boot(cand[c]))
    BY <1>a DEF Boot, IsPromoted, Candidate
  <2> QED
    BY <1>3, <1>e, <1>p, <2>1 DEF CandidateStarts, history
<1>4. CASE ApplySnapshot(c)
  <2>1. PICK q \in Requests :
            /\ Takes(c, q, "push", "answered")
            /\ cand' = [cand EXCEPT ![c].data = q.snap, ![c].phase = "candidate_ready"]
            /\ undone' = IF cand[c].mode = "passive" THEN undone ELSE undone \cup {c}
            /\ reverted' = IF q.snap < cand[c].data THEN reverted \cup {c} ELSE reverted
    BY <1>4 DEF ApplySnapshot
  <2>2. q.snap \in Int
    BY <2>1 DEF Requests, Typed, TypeOK, Request, NoCall
  <2>3. /\ cand'[c].data = q.snap /\ cand'[c].mode = cand[c].mode /\ cand'[c].role = cand[c].role
        /\ \A d \in Candidates \ {c} : cand'[d] = cand[d]
    BY <1>a, <2>1 DEF Candidate
  <2>4. Kept(c) => Kept(c)'
    BY <2>1 DEF Kept, ModesMean, IsPromoted
  <2>5. \A n \in Int : Full(c, n) => Full(c, n)'
    BY <1>b, <2>1, <2>2, <2>3 DEF Full
  <2>a. undone \subseteq undone' /\ reverted \subseteq reverted'
    BY <2>1
  <2>6. ASSUME NEW d \in Candidates \ {c}
        PROVE  /\ Kept(d) => Kept(d)'
               /\ \A n \in Int : Full(d, n) => Full(d, n)'
    BY <2>a, <2>3 DEF Kept, Full, IsPromoted
  <2>7. ModesMean'
    BY <2>3 DEF ModesMean
  <2> QED
    BY <1>p, <2>4, <2>5, <2>6, <2>7
<1>5. CASE PromoteRole(c)
  <2> DEFINE r == [cand[c] EXCEPT !.role = "master", !.mode = "halfway"]
  <2>1. Same(r) /\ Fine(r)
    BY <1>a DEF IsPromoted, Candidate
  <2>2. cand' = [cand EXCEPT ![c] = r] /\ undone' = undone /\ reverted' = reverted
    BY <1>5 DEF PromoteRole, history
  <2> QED
    BY <1>e, <1>p, <2>1, <2>2
<1>6. CASE PromotePhase(c) \/ PromoteAgain(c)
  <2>1. /\ undone' = undone \ {c} /\ reverted' = reverted
        /\ \A d \in Candidates \ {c} : cand'[d] = cand[d]
        /\ cand'[c].role = cand[c].role /\ cand'[c].data = cand[c].data
        /\ cand'[c].mode = "leaving" /\ cand[c].mode \in {"halfway", "leaving"}
    BY <1>6, <1>a DEF PromotePhase, PromoteAgain, Candidate
  <2> QED
    BY <1>6, <1>p, <2>1 DEF Kept, Full, ModesMean, IsPromoted
<1>7. CASE Serve(c)
  <2>1. Same([cand[c] EXCEPT !.mode = "server"]) /\ Fine([cand[c] EXCEPT !.mode = "server"])
    BY <1>a DEF IsPromoted, Candidate
  <2> QED
    BY <1>7, <1>e, <1>p, <2>1 DEF Serve, history
<1> QED
  BY <1>1, <1>2, <1>3, <1>4, <1>5, <1>6, <1>7

\* What it does to the switch's request: an answer is given for what has been done.
LEMMA CandidateCall ==
  ASSUME Typed, Strong, NEW c \in Candidates,
         \/ Install(c) \/ CandidateStops(c) \/ CandidateStarts(c)
         \/ ApplySnapshot(c) \/ PromoteRole(c) \/ PromotePhase(c)
         \/ PromoteAgain(c) \/ Serve(c)
  PROVE  CallMeans'
<1>a. UNCHANGED <<sess, switch, attempt>>
  BY DEF Install, CandidateStops, CandidateStarts, ApplySnapshot, PromoteRole, PromotePhase, PromoteAgain, Serve,
     oldVars
<1>b. CallMeans /\ ModesMean
  BY DEF Strong
<1>c. /\ call = NoCall => call.at \notin {"sent", "begun", "answered", "refused"}
      /\ call # NoCall => /\ call \in [req : Request, at : {"sent", "begun", "answered", "refused"}]
                          /\ call.req.to \in Candidates /\ call.req.kind \in {"push", "promote"}
      /\ attempt.db \in Int
  BY DEF Typed, TypeOK, Request, NoCall
<1>d. /\ \A d \in Candidates : Kept(d) => Kept(d)'
      /\ \A d \in Candidates, n \in Int : Full(d, n) => Full(d, n)'
      /\ PromotePhase(c) \/ PromoteAgain(c) => Kept(c)'
  BY <1>b, CandidateRecord
<1>e. CASE UNCHANGED call
  <2> SUFFICES ASSUME call # NoCall PROVE CallMeans'
    BY <1>e DEF CallMeans
  <2>1. call.req.kind = "push" /\ call.at = "answered" => Full(call.req.to, attempt.db)'
    BY <1>a, <1>b, <1>c, <1>d, <1>e DEF CallMeans, Full
  <2>2. call.req.kind = "promote" /\ call.at = "answered" => Kept(call.req.to)'
    BY <1>b, <1>c, <1>d, <1>e DEF CallMeans, Kept, IsPromoted
  <2> QED
    BY <1>a, <1>b, <1>e, <2>1, <2>2 DEF CallMeans, Full, Kept, IsPromoted
<1>f. CASE call # NoCall /\ call' = [call EXCEPT !.at = "refused"]
  <2>1. call'.req = call.req /\ call'.at = "refused"
    BY <1>c, <1>f
  <2> QED
    BY <1>a, <1>b, <1>f, <2>1 DEF CallMeans
<1>1. CASE Install(c) \/ CandidateStops(c) \/ Serve(c)
  <2>1. Disconnects(c)
    BY <1>1 DEF Install, CandidateStops, Serve
  <2> QED
    BY <2>1, <1>c, <1>e, <1>f DEF Disconnects
<1>2. CASE CandidateStarts(c)
  BY <1>2, <1>e DEF CandidateStarts
<1>3. CASE ApplySnapshot(c) /\ ~UNCHANGED call
  <2>1. PICK r \in Requests : /\ Takes(c, r, "push", "answered")
                             /\ cand' = [cand EXCEPT ![c].data = r.snap, ![c].phase = "candidate_ready"]
    BY <1>3 DEF ApplySnapshot
  <2>2. /\ call # NoCall /\ call.req = r /\ r.to = c /\ r.kind = "push"
        /\ call'.req = r /\ call'.at = "answered"
    BY <1>3, <1>c, <2>1 DEF Takes
  <2>3. r.snap >= attempt.db /\ cand'[c].data = r.snap
    BY <2>1, <2>2, <1>b DEF CallMeans, Typed, TypeOK, Candidate
  <2>4. Full(c, attempt.db)'
    BY <1>a, <2>3 DEF Full
  <2> QED
    BY <1>a, <1>b, <2>2, <2>3, <2>4 DEF CallMeans, Full
<1>4. CASE PromoteRole(c) /\ ~UNCHANGED call
  <2>1. PICK r \in Requests : Takes(c, r, "promote", "begun")
    BY <1>4 DEF PromoteRole
  <2>2. call # NoCall /\ call.req = r /\ r.kind = "promote" /\ call'.req = r /\ call'.at = "begun"
    BY <1>4, <1>c, <2>1 DEF Takes
  <2> QED
    BY <1>a, <1>b, <2>2 DEF CallMeans
<1>5. CASE PromotePhase(c) /\ ~UNCHANGED call
  <2>1. call # NoCall /\ call.req.to = c /\ call.at = "begun" /\ call'.req = call.req /\ call'.at = "answered"
    BY <1>5, <1>c DEF PromotePhase
  <2> QED
    BY <1>5, <1>a, <1>b, <1>d, <2>1 DEF CallMeans, Kept, IsPromoted
<1>6. CASE PromoteAgain(c) /\ ~UNCHANGED call
  <2>1. PICK r \in Requests : Takes(c, r, "promote", "answered")
    BY <1>6 DEF PromoteAgain
  <2>2. call # NoCall /\ call.req = r /\ r.to = c /\ r.kind = "promote" /\ call'.req = r /\ call'.at = "answered"
    BY <1>6, <1>c, <2>1 DEF Takes
  <2> QED
    BY <1>6, <1>a, <1>b, <1>d, <2>2 DEF CallMeans, Kept, IsPromoted
<1> QED
  BY <1>e, <1>1, <1>2, <1>3, <1>4, <1>5, <1>6

LEMMA CandidateStrong ==
  ASSUME Typed, Strong, NEW c \in Candidates,
         \/ Install(c) \/ CandidateStops(c) \/ CandidateStarts(c)
         \/ ApplySnapshot(c) \/ PromoteRole(c) \/ PromotePhase(c)
         \/ PromoteAgain(c) \/ Serve(c)
  PROVE  Strong'
<1>1. UNCHANGED <<sess, db, switch, attempt, retiring, asked, astray>>
  BY DEF Install, CandidateStops, CandidateStarts, ApplySnapshot, PromoteRole, PromotePhase, PromoteAgain, Serve,
     oldVars, others, history
<1>2. /\ \A d \in Candidates : Kept(d) => Kept(d)'
      /\ \A d \in Candidates, n \in Int : Full(d, n) => Full(d, n)'
      /\ ModesMean' /\ CallMeans'
  BY CandidateRecord, CandidateCall DEF Strong
<1>3. /\ sess.cand # None => sess.cand \in Candidates
      /\ switch # "idle" \/ retiring # "no" => sess.cand \in Candidates
      /\ attempt.db \in Int
  BY DEF Typed, TypeOK, Session, Chosen
<1>4. /\ sess.cand \in Candidates /\ Kept(sess.cand) => Kept(sess.cand)'
      /\ sess.cand \in Candidates /\ Full(sess.cand, attempt.db) => Full(sess.cand, attempt.db)'
  <2>1. \A d \in Candidates : Full(d, attempt.db) => Full(d, attempt.db)'
    BY <1>1, <1>2, <1>3 DEF Full
  <2> QED
    BY <1>1, <1>2, <2>1 DEF Kept, Full, IsPromoted
<1>5. NeverHeadless'
  <2>1. NeverHeadless
    BY DEF Strong
  <2> QED
    BY <1>1, <1>3, <1>4, <2>1 DEF NeverHeadless, IsAside, Kept
<1>6. SwitchMeans'
  BY <1>1, <1>3, <1>4 DEF Strong, SwitchMeans
<1>7. RetiringMeans'
  BY <1>1, <1>3, <1>4 DEF Strong, RetiringMeans
<1> QED
  BY <1>2, <1>5, <1>6, <1>7 DEF Strong

LEMMA NextStrong ==
  ASSUME Typed, Strong, [Next]_vars
  PROVE  /\ Strong'
         /\ StepAside => Full(sess.cand, attempt.db)
<1>1. CASE UNCHANGED vars
  BY <1>1 DEF vars, oldVars, others, history, Strong, ModesMean, CallMeans, SwitchMeans, RetiringMeans,
     NeverHeadless, IsAside, IsPromoted, Kept, Full, StepAside, At
<1>2. CASE Switch
  BY <1>2, SwitchStrong
<1>3. CASE \E c \in Candidates :
             \/ Install(c) \/ CandidateStops(c) \/ CandidateStarts(c)
             \/ ApplySnapshot(c) \/ PromoteRole(c) \/ PromotePhase(c)
             \/ PromoteAgain(c) \/ Serve(c)
  <2>1. UNCHANGED switch
    BY <1>3 DEF Install, CandidateStops, CandidateStarts, ApplySnapshot, PromoteRole, PromotePhase, PromoteAgain,
       Serve, oldVars
  <2> QED
    BY <1>3, <2>1, CandidateStrong DEF StepAside, At
<1>4. CASE \/ \E c \in Candidates : StartMigration(c)
           \/ Verify \/ Verified \/ RollBack \/ RolledBack \/ Unfence \/ AskDecommission \/ Decommission \/ Complete
           \/ Write \/ Stops \/ Starts
  <2>1. switch' \in {switch, "idle"}
    BY <1>4 DEF StartMigration, Verify, Verified, RollBack, RolledBack, Unfence, AskDecommission, Decommission,
       Complete, Write, Stops, GiveUp, Starts, others
  <2> QED
    BY <1>4, <2>1, HomeStrong DEF StepAside, At
<1> QED
  BY <1>1, <1>2, <1>3, <1>4 DEF Next

THEOREM StrongAlways == Spec => [](Typed /\ Strong)
<1>1. Init => Typed /\ Strong
  BY InitTyped, InitStrong
<1>2. Typed /\ Strong /\ [Next]_vars => (Typed /\ Strong)'
  BY NextTyped, NextStrong
<1> QED
  BY <1>1, <1>2, PTL DEF Spec

\* NeverHeadless: a standby, or what became of it, has a promoted candidate behind it, but for
\* a promotion undone by a snapshot taken after it and a decommission checked in another
\* migration.
THEOREM NeverWithoutMaster == Spec => []NeverHeadless
  BY StrongAlways, PTL DEF Strong

\* HandsOverAll: when the old master steps aside, the new one has what was accepted before
\* the fence was raised, but for an older snapshot handled late.
THEOREM EverythingIsHandedOver == Spec => HandsOverAll
<1>1. Typed /\ Strong /\ [Next]_vars =>
         [StepAside => cand[sess.cand].data >= attempt.db \/ sess.cand \in reverted]_vars
  BY NextStrong DEF Full
<1> QED
  BY <1>1, StrongAlways, PTL DEF Spec, HandsOverAll

-----------------------------------------------------------------------------
(* No master without data *)

HasData(c) == cand[c].data # NoData

\* Who is asked to become a master, is becoming one or is one has been sent the data; and
\* the switch's request is what the switch is waiting for.
Backed ==
    /\ \A c \in Candidates : cand[c].mode = "halfway" \/ IsPromoted(c) => HasData(c)
    /\ \A r \in late : r.kind = "promote" => HasData(r.to)
    /\ call # NoCall =>
          /\ switch = call.req.kind
          /\ call.req.to = sess.cand
          /\ call.at = "begun" => call.req.kind = "promote"
          /\ call.req.kind = "promote" \/ call.at = "answered" => HasData(call.req.to)
    /\ switch = "pushed" => HasData(sess.cand)

LEMMA InitBacked == Init => Backed
  BY DEF Init, Backed, IsPromoted

\* What the switch gives up stays a request of somebody who has the data.
LEMMA GiveUpBacked ==
  ASSUME Typed, Backed, GiveUp, UNCHANGED cand
  PROVE  call' = NoCall /\ \A r \in late' : r.kind = "promote" => HasData(r.to)'
<1>1. call = NoCall => call.at # "sent"
  BY DEF NoCall
<1> QED
  BY <1>1 DEF GiveUp, Backed, HasData

LEMMA HomeBacked ==
  ASSUME Typed, Backed,
         \/ \E c \in Candidates : StartMigration(c)
         \/ Verify \/ Verified \/ RollBack \/ RolledBack \/ Unfence \/ AskDecommission \/ Decommission \/ Complete
         \/ Write \/ Stops \/ Starts
  PROVE  Backed'
<1> USE DEF AtHome, others
<1>1. UNCHANGED cand
  BY DEF StartMigration, Verify, Verified, RollBack, RolledBack, Unfence, AskDecommission, Decommission, Complete,
     Write, Stops, Starts
<1>2. sess \in Session
  BY DEF Typed, TypeOK
<1>3. CASE \E c \in Candidates : StartMigration(c)
  <2>1. call = NoCall
    BY <1>3 DEF StartMigration, MuFree, Backed, Typed, TypeOK, Request
  <2> QED
    BY <1>1, <1>3, <2>1 DEF StartMigration, MuFree, Backed, HasData, IsPromoted
<1>4. CASE Stops
  <2>1. call' = NoCall /\ \A r \in late' : r.kind = "promote" => HasData(r.to)'
    BY <1>1, <1>4, GiveUpBacked DEF Stops
  <2> QED
    BY <1>1, <1>4, <2>1 DEF Stops, GiveUp, Backed, HasData, IsPromoted
<1>5. CASE Verify \/ Verified \/ RollBack \/ RolledBack \/ Unfence \/ AskDecommission \/ Decommission \/ Complete
           \/ Write \/ Starts
  <2>1. UNCHANGED <<switch, call, late>> /\ sess'.cand = sess.cand
    BY <1>2, <1>5 DEF Verify, Verified, RollBack, RolledBack, Unfence, AskDecommission, Decommission, Complete,
       Write, Starts, Session
  <2> QED
    BY <1>1, <2>1 DEF Backed, HasData, IsPromoted
<1> QED
  BY <1>3, <1>4, <1>5

LEMMA SwitchBacked ==
  ASSUME Typed, Backed, Switch
  PROVE  Backed'
<1> USE DEF SwitchRest, At, others
<1>1. UNCHANGED cand /\ sess'.cand = sess.cand
  BY DEF Switch, RaiseFence, SetSwitching, Push, Pushed, Promote, Promoted, StepAside, Demoted,
     SyncFence, SwitchFails, AtHome, Typed, TypeOK, Session
<1>2. call # NoCall => switch \in {"push", "promote"}
  BY DEF Typed, TypeOK, Backed, Request
<1>3. CASE Push
  BY <1>1, <1>3 DEF Push, Sends, Backed, HasData, IsPromoted
<1>4. CASE Pushed
  <2>1. call # NoCall
    BY <1>4 DEF Pushed, Answered, NoCall
  <2> QED
    BY <1>1, <1>4, <2>1 DEF Pushed, Answered, Backed, HasData, IsPromoted
<1>5. CASE Promote
  BY <1>1, <1>5 DEF Promote, Sends, Backed, HasData, IsPromoted
<1>6. CASE Promoted
  BY <1>1, <1>6 DEF Promoted, Backed, HasData, IsPromoted
<1>7. CASE SwitchFails
  <2>1. call' = NoCall /\ \A r \in late' : r.kind = "promote" => HasData(r.to)'
    BY <1>1, <1>7, GiveUpBacked DEF SwitchFails
  <2> QED
    BY <1>1, <1>7, <2>1 DEF SwitchFails, GiveUp, Backed, HasData, IsPromoted
<1>8. CASE RaiseFence \/ SetSwitching \/ StepAside \/ Demoted \/ SyncFence
  <2>1. call = NoCall /\ UNCHANGED <<call, late>> /\ switch' # "pushed"
    BY <1>2, <1>8 DEF RaiseFence, SetSwitching, StepAside, Demoted, SyncFence, AtHome
  <2> QED
    BY <1>1, <2>1 DEF Backed, HasData, IsPromoted
<1> QED
  BY <1>3, <1>4, <1>5, <1>6, <1>7, <1>8 DEF Switch

\* A candidate's data is never taken away.
LEMMA DataStays ==
  ASSUME Typed, NEW c \in Candidates,
         \/ Install(c) \/ CandidateStops(c) \/ CandidateStarts(c)
         \/ ApplySnapshot(c) \/ PromoteRole(c) \/ PromotePhase(c)
         \/ PromoteAgain(c) \/ Serve(c)
  PROVE  /\ \A d \in Candidates : HasData(d) => HasData(d)'
         /\ ApplySnapshot(c) => HasData(c)'
<1>1. CASE ApplySnapshot(c)
  <2>1. PICK r \in Requests :
            cand' = [cand EXCEPT ![c].data = r.snap, ![c].phase = "candidate_ready"]
    BY <1>1 DEF ApplySnapshot
  <2>2. r.snap \in Nat
    BY DEF Requests, Typed, TypeOK, Request
  <2>3. cand'[c].data = r.snap /\ \A d \in Candidates \ {c} : cand'[d] = cand[d]
    BY <2>1 DEF Typed, TypeOK, Candidate
  <2>4. HasData(c)'
    BY <2>2, <2>3 DEF HasData, NoData
  <2> QED
    BY <2>3, <2>4 DEF HasData
<1>2. CASE ~ApplySnapshot(c)
  BY <1>2, DataKept DEF HasData
<1> QED
  BY <1>1, <1>2

\* Who takes a request to be promoted has the data, and keeps the switch's request in order.
LEMMA TakesBacked ==
  ASSUME Typed, Backed, NEW c \in Candidates, NEW r \in Requests, NEW kind,
         NEW next \in {"answered", "begun"}, Takes(c, r, kind, next)
  PROVE  /\ late' \subseteq late
         /\ kind = "promote" => HasData(c)
         /\ \/ UNCHANGED call
            \/ /\ call # NoCall /\ call.req.kind = kind /\ call.req.to = c
               /\ call' = [call EXCEPT !.at = next] /\ call' # NoCall
               /\ call'.req = call.req /\ call'.at = next
<1>1. call = NoCall => call.at # "sent"
  BY DEF NoCall
<1>2. call # NoCall => call \in [req : Request, at : {"sent", "begun", "answered", "refused"}]
  BY DEF Typed, TypeOK
<1> QED
  BY <1>1, <1>2 DEF Takes, Requests, Backed, NoCall

\* A candidate's records: who is half way to being a master, or is one, was so before, or takes
\* the request to become one, or takes the data.
LEMMA RiseOfOne ==
  ASSUME Typed, NEW c \in Candidates,
         \/ Install(c) \/ CandidateStops(c) \/ CandidateStarts(c)
         \/ ApplySnapshot(c) \/ PromoteRole(c) \/ PromotePhase(c)
         \/ PromoteAgain(c) \/ Serve(c)
  PROVE  \A d \in Candidates :
            (cand[d].mode = "halfway" \/ IsPromoted(d))' =>
               \/ cand[d].mode = "halfway" \/ IsPromoted(d)
               \/ d = c /\ (PromoteRole(c) \/ PromoteAgain(c) \/ ApplySnapshot(c))
<1>1. cand \in [Candidates -> Candidate]
  BY DEF Typed, TypeOK
<1> DEFINE Up(r) == r.mode = "halfway" \/ (r.role = "master" /\ r.phase = "completed")
<1>2. CASE PromoteRole(c)
  <2>1. \A d \in Candidates \ {c} : cand'[d] = cand[d]
    BY <1>1, <1>2 DEF PromoteRole
  <2> QED
    BY <1>2, <2>1 DEF IsPromoted
<1>3. CASE ApplySnapshot(c)
  <2>1. \A d \in Candidates \ {c} : cand'[d] = cand[d]
    BY <1>1, <1>3 DEF ApplySnapshot
  <2> QED
    BY <1>3, <2>1 DEF IsPromoted
<1>4. CASE PromotePhase(c)
  <2>1. cand[c].mode = "halfway" /\ \A d \in Candidates \ {c} : cand'[d] = cand[d]
    BY <1>1, <1>4 DEF PromotePhase
  <2> QED
    BY <2>1 DEF IsPromoted
<1>5. ASSUME NEW r, cand' = [cand EXCEPT ![c] = r], Up(r) => Up(cand[c])
      PROVE  \A d \in Candidates :
                (cand[d].mode = "halfway" \/ IsPromoted(d))' => cand[d].mode = "halfway" \/ IsPromoted(d)
  BY <1>1, <1>5 DEF IsPromoted
<1>6. CASE Install(c)
  <2> DEFINE r == Boot([cand[c] EXCEPT !.pair = sess.token])
  <2>1. Up(r) => Up(cand[c])
    BY <1>1 DEF Boot, Candidate
  <2> QED
    BY <1>5, <1>6, <2>1 DEF Install
<1>7. CASE CandidateStarts(c)
  <2>1. Up(Boot(cand[c])) => Up(cand[c])
    BY <1>1 DEF Boot, Candidate
  <2> QED
    BY <1>5, <1>7, <2>1 DEF CandidateStarts
<1>8. CASE CandidateStops(c)
  <2>1. Up([cand[c] EXCEPT !.mode = "down"]) => Up(cand[c])
    BY <1>1 DEF Candidate
  <2> QED
    BY <1>5, <1>8, <2>1 DEF CandidateStops
<1>9. CASE Serve(c)
  <2>1. Up([cand[c] EXCEPT !.mode = "server"]) => Up(cand[c])
    BY <1>1 DEF Candidate
  <2> QED
    BY <1>5, <1>9, <2>1 DEF Serve
<1>10. CASE PromoteAgain(c)
  <2>1. \A d \in Candidates \ {c} : cand'[d] = cand[d]
    BY <1>1, <1>10 DEF PromoteAgain
  <2> QED
    BY <1>10, <2>1 DEF IsPromoted
<1> QED
  BY <1>2, <1>3, <1>4, <1>6, <1>7, <1>8, <1>9, <1>10

\* What its steps do to the requests.
LEMMA CandidateRequests ==
  ASSUME Typed, Backed, NEW c \in Candidates,
         \/ Install(c) \/ CandidateStops(c) \/ CandidateStarts(c)
         \/ ApplySnapshot(c) \/ PromoteRole(c) \/ PromotePhase(c)
         \/ PromoteAgain(c) \/ Serve(c)
  PROVE  /\ late' \subseteq late
         /\ PromoteRole(c) \/ PromoteAgain(c) => HasData(c)
         /\ \/ UNCHANGED call
            \/ /\ call # NoCall /\ call'.req = call.req
               /\ call'.at = "begun" => call.req.kind = "promote"
               /\ call'.at = "answered" =>
                     call.req.kind = "promote" \/ (ApplySnapshot(c) /\ call.req.to = c)
<1>1. call = NoCall => call.at \notin {"sent", "begun"}
  BY DEF NoCall
<1>2. call # NoCall => call \in [req : Request, at : {"sent", "begun", "answered", "refused"}]
  BY DEF Typed, TypeOK
<1>0. PromoteRole(c) \/ PromoteAgain(c) => HasData(c)
  <2>1. CASE PromoteRole(c)
    <3>1. PICK r \in Requests : Takes(c, r, "promote", "begun")
      BY <2>1 DEF PromoteRole
    <3> QED
      BY <3>1, TakesBacked
  <2>2. CASE PromoteAgain(c)
    <3>1. PICK r \in Requests : Takes(c, r, "promote", "answered")
      BY <2>2 DEF PromoteAgain
    <3> QED
      BY <3>1, TakesBacked
  <2> QED
    BY <2>1, <2>2
<1>3. CASE Install(c) \/ CandidateStops(c) \/ Serve(c)
  <2>1. Disconnects(c)
    BY <1>3 DEF Install, CandidateStops, Serve
  <2> QED
    BY <1>0, <1>1, <1>2, <2>1 DEF Disconnects
<1>4. CASE CandidateStarts(c)
  BY <1>0, <1>4 DEF CandidateStarts
<1>5. CASE ApplySnapshot(c)
  <2>1. PICK r \in Requests : Takes(c, r, "push", "answered")
    BY <1>5 DEF ApplySnapshot
  <2> QED
    BY <1>0, <1>5, <2>1, TakesBacked
<1>6. CASE PromoteRole(c)
  <2>1. PICK r \in Requests : Takes(c, r, "promote", "begun")
    BY <1>6 DEF PromoteRole
  <2> QED
    BY <1>0, <2>1, TakesBacked
<1>7. CASE PromotePhase(c)
  <2>1. UNCHANGED late
    BY <1>7 DEF PromotePhase
  <2> QED
    BY <1>0, <1>1, <1>2, <1>7, <2>1 DEF PromotePhase, Backed
<1>8. CASE PromoteAgain(c)
  <2>1. PICK r \in Requests : Takes(c, r, "promote", "answered")
    BY <1>8 DEF PromoteAgain
  <2> QED
    BY <1>0, <2>1, TakesBacked
<1> QED
  BY <1>3, <1>4, <1>5, <1>6, <1>7, <1>8

LEMMA CandidateBacked ==
  ASSUME Typed, Backed, NEW c \in Candidates,
         \/ Install(c) \/ CandidateStops(c) \/ CandidateStarts(c)
         \/ ApplySnapshot(c) \/ PromoteRole(c) \/ PromotePhase(c)
         \/ PromoteAgain(c) \/ Serve(c)
  PROVE  Backed'
<1>1. UNCHANGED <<sess, switch>>
  BY DEF Install, CandidateStops, CandidateStarts, ApplySnapshot, PromoteRole, PromotePhase, PromoteAgain, Serve,
     oldVars
<1>2. \A d \in Candidates : HasData(d) => HasData(d)'
  BY DataStays
<1>3. late \subseteq Request
  BY DEF Typed, TypeOK, Request
<1>a. late' \subseteq late
  BY CandidateRequests
<1>4. \A d \in Candidates : (cand[d].mode = "halfway" \/ IsPromoted(d))' => HasData(d)'
  BY <1>2, RiseOfOne, CandidateRequests, DataStays DEF Backed
<1>5. \A r \in late' : r.kind = "promote" => HasData(r.to)'
  <2>1. \A r \in late : r.to \in Candidates
    BY DEF Typed, TypeOK, Request
  <2> QED
    BY <1>2, <1>a, <2>1 DEF Backed
<1>6. ASSUME call' # NoCall
      PROVE  /\ switch' = call'.req.kind
             /\ call'.req.to = sess'.cand
             /\ call'.at = "begun" => call'.req.kind = "promote"
             /\ call'.req.kind = "promote" \/ call'.at = "answered" => HasData(call.req.to)'
  <2>1. CASE UNCHANGED call
    <3>1. call.req.to \in Candidates
      BY <1>6, <2>1 DEF Typed, TypeOK, Request
    <3> QED
      BY <1>1, <1>2, <1>6, <2>1, <3>1 DEF Backed
  <2>2. CASE call # NoCall /\ ~UNCHANGED call
    <3>1. call.req.to \in Candidates
      BY <2>2 DEF Typed, TypeOK, Request
    <3>2. call'.req = call.req
      BY <2>2, CandidateRequests
    <3>3. call'.at = "answered" => HasData(call.req.to)'
      BY <1>2, <2>2, <3>1, <3>2, CandidateRequests, DataStays DEF Backed
    <3>4. call'.at = "begun" => call'.req.kind = "promote"
      BY <2>2, CandidateRequests
    <3> QED
      BY <1>1, <1>2, <2>2, <3>1, <3>2, <3>3, <3>4 DEF Backed
  <2> QED
    BY <2>1, <2>2, CandidateRequests
<1>7. switch' = "pushed" => HasData(sess.cand)'
  <2>1. switch = "pushed" => sess.cand \in Candidates
    BY DEF Typed, TypeOK, Chosen, Session
  <2> QED
    BY <1>1, <1>2, <2>1 DEF Backed
<1> QED
  BY <1>1, <1>4, <1>5, <1>6, <1>7 DEF Backed

LEMMA NextBacked ==
  ASSUME Typed, Backed, [Next]_vars
  PROVE  Backed'
<1>1. CASE UNCHANGED vars
  BY <1>1 DEF vars, oldVars, Backed, HasData, IsPromoted
<1>2. CASE Next
  BY <1>2, HomeBacked, SwitchBacked, CandidateBacked DEF Next
<1> QED
  BY <1>1, <1>2

\* NoEmptyMaster: whoever is promoted has had the old master's data, with requests as late as
\* they please.
THEOREM NoMasterWithoutData == Spec => []NoEmptyMaster
<1>1. Typed /\ Backed => NoEmptyMaster
  BY DEF Backed, NoEmptyMaster, HasData
<1>2. Init => Typed /\ Backed
  BY InitTyped, InitBacked
<1>3. Typed /\ Backed /\ [Next]_vars => (Typed /\ Backed)'
  BY NextTyped, NextBacked
<1> QED
  BY <1>1, <1>2, <1>3, PTL DEF Spec

-----------------------------------------------------------------------------
(* A promotion is for good once it is served *)

PassiveIsCandidate == \A c \in Candidates : cand[c].mode = "passive" => cand[c].role # "master"

LEMMA CandidateUndone ==
  ASSUME Typed, PassiveIsCandidate, NEW d \in Candidates,
         \/ Install(d) \/ CandidateStops(d) \/ CandidateStarts(d)
         \/ ApplySnapshot(d) \/ PromoteRole(d) \/ PromotePhase(d)
         \/ PromoteAgain(d) \/ Serve(d),
         NEW c \in Candidates
  PROVE  /\ cand'[c].mode = "passive" => cand'[c].role # "master"
         /\ IsPromoted(c) => IsPromoted(c)' \/ (ApplySnapshot(c) /\ cand[c].mode \in {"halfway", "leaving"})
<1>0. DOMAIN cand = Candidates /\ cand[d] \in Candidate
  BY DEF Typed, TypeOK
<1>1. CASE c # d
  <2>1. cand'[c] = cand[c]
    BY <1>0, <1>1 DEF Install, CandidateStops, CandidateStarts, ApplySnapshot, PromoteRole, PromotePhase, PromoteAgain, Serve
  <2> QED
    BY <2>1 DEF PassiveIsCandidate, IsPromoted
<1>2. CASE c = d /\ (Install(d) \/ CandidateStarts(d))
  <2>1. PICK p : cand'[d] = Boot([cand[d] EXCEPT !.pair = p]) \/ cand'[d] = Boot(cand[d])
    BY <1>0, <1>2 DEF Install, CandidateStarts
  <2> QED
    BY <1>0, <1>2, <2>1 DEF Boot, IsPromoted, Candidate
<1>3. CASE c = d /\ (CandidateStops(d) \/ PromoteRole(d) \/ PromotePhase(d)
         \/ PromoteAgain(d) \/ Serve(d))
  BY <1>0, <1>3 DEF CandidateStops, PromoteRole, PromotePhase, PromoteAgain, Serve, IsPromoted, Candidate
<1>4. CASE c = d /\ ApplySnapshot(d)
  <2>1. Open(d)
    BY <1>4 DEF ApplySnapshot, Takes
  <2>2. PICK n : cand' = [cand EXCEPT ![d].data = n, ![d].phase = "candidate_ready"]
    BY <1>4 DEF ApplySnapshot
  <2>3. cand'[d].mode = cand[d].mode /\ cand'[d].role = cand[d].role
    BY <1>0, <2>2 DEF Candidate
  <2> QED
    BY <1>4, <2>1, <2>3 DEF Open, PassiveIsCandidate, IsPromoted
<1> QED
  BY <1>1, <1>2, <1>3, <1>4

\* OnlyLateSnapshotUndoes: once a promoted candidate has left its passive server, no request
\* that was given up, no second migration and no restart of either side makes it less than
\* the master; until then only a snapshot handled late can.
THEOREM PromotionIsForGoodOnceServed == Spec => OnlyLateSnapshotUndoes
<1> DEFINE Undone == \A c \in Candidates : IsPromoted(c) =>
                        IsPromoted(c)' \/ (ApplySnapshot(c) /\ cand[c].mode \in {"halfway", "leaving"})
<1>1. Init => PassiveIsCandidate
  BY DEF Init, PassiveIsCandidate
<1>2. Typed /\ PassiveIsCandidate /\ [Next]_vars => PassiveIsCandidate' /\ [Undone]_vars
  <2> SUFFICES ASSUME Typed, PassiveIsCandidate, [Next]_vars PROVE PassiveIsCandidate' /\ Undone
    OBVIOUS
  <2>1. CASE UNCHANGED cand
    BY <2>1 DEF PassiveIsCandidate, IsPromoted
  <2>2. CASE \E d \in Candidates :
               \/ Install(d) \/ CandidateStops(d) \/ CandidateStarts(d)
               \/ ApplySnapshot(d) \/ PromoteRole(d) \/ PromotePhase(d)
         \/ PromoteAgain(d) \/ Serve(d)
    <3>1. PICK d \in Candidates :
               \/ Install(d) \/ CandidateStops(d) \/ CandidateStarts(d)
               \/ ApplySnapshot(d) \/ PromoteRole(d) \/ PromotePhase(d)
         \/ PromoteAgain(d) \/ Serve(d)
      BY <2>2
    <3> QED
      BY <3>1, CandidateUndone DEF PassiveIsCandidate
  <2> QED
    BY <2>1, <2>2 DEF Next, StartMigration, Verify, Verified, Switch, RaiseFence, SetSwitching, Push, Pushed,
       Promote, Promoted, StepAside, Demoted, SyncFence, SwitchFails, RollBack, RolledBack, Unfence, AskDecommission, Decommission,
       Complete, Write, Stops, Starts, AtHome, SwitchRest, vars
<1> QED
  BY <1>1, <1>2, TypedAlways, PTL DEF Spec, OnlyLateSnapshotUndoes

-----------------------------------------------------------------------------
(* Whose data a standby leaves behind *)

\* Whose promotion was undone took a snapshot.
UndoneHave == \A c \in undone : HasData(c)

\* Data are replaced and never lost.
LEMMA DataStay ==
  ASSUME Typed, [Next]_vars, NEW c \in Candidates, HasData(c)
  PROVE  HasData(c)'
<1>0. DOMAIN cand = Candidates /\ cand[c] \in Candidate
  BY DEF Typed, TypeOK
<1>1. CASE UNCHANGED cand
  BY <1>1 DEF HasData
<1>2. CASE \E d \in Candidates :
            \/ Install(d) \/ CandidateStops(d) \/ CandidateStarts(d)
            \/ PromoteRole(d) \/ PromotePhase(d)
            \/ PromoteAgain(d) \/ Serve(d)
  BY <1>2, DataKept DEF HasData
<1>3. CASE \E d \in Candidates : ApplySnapshot(d)
  <2>1. PICK d \in Candidates, r \in Requests :
            cand' = [cand EXCEPT ![d].data = r.snap, ![d].phase = "candidate_ready"]
    BY <1>3 DEF ApplySnapshot
  <2>2. r.snap \in Nat
    BY <2>1 DEF Requests, Typed, TypeOK, Request, NoCall
  <2>3. cand'[c].data = cand[c].data \/ cand'[c].data = r.snap
    BY <1>0, <2>1 DEF Candidate
  <2> QED
    BY <2>2, <2>3 DEF HasData, NoData
<1> QED
  BY <1>1, <1>2, <1>3 DEF Next, StartMigration, Verify, Verified, Switch, RaiseFence, SetSwitching, Push,
     Pushed, Promote, Promoted, StepAside, Demoted, SyncFence, SwitchFails, RollBack, RolledBack, Unfence, AskDecommission,
     Decommission, Complete, Write, Stops, Starts, AtHome, SwitchRest, vars

LEMMA UndoneNext ==
  ASSUME Typed, UndoneHave, [Next]_vars
  PROVE  UndoneHave'
<1>1. undone \subseteq Candidates
  BY DEF Typed, TypeOK
<1>2. \A c \in undone : HasData(c)'
  BY <1>1, DataStay DEF UndoneHave
<1>3. CASE undone' \subseteq undone
  BY <1>2, <1>3 DEF UndoneHave, HasData
<1>4. CASE \E d \in Candidates : ApplySnapshot(d)
  <2>1. PICK d \in Candidates : ApplySnapshot(d)
    BY <1>4
  <2>2. undone' \subseteq undone \cup {d} /\ HasData(d)'
    BY <2>1, DataStays DEF ApplySnapshot
  <2> QED
    BY <1>2, <2>2 DEF UndoneHave, HasData
<1> QED
  BY <1>3, <1>4 DEF Next, StartMigration, Verify, Verified, Switch, RaiseFence, SetSwitching, Push,
     Pushed, Promote, Promoted, StepAside, Demoted, SyncFence, SwitchFails, RollBack, RolledBack, Unfence,
     AskDecommission, Decommission, Complete, Write, Stops, Starts, Install, CandidateStops, CandidateStarts,
     PromoteRole, PromotePhase, PromoteAgain, Serve, AtHome, SwitchRest, history, vars

\* HeirHasData: an old master that has stepped aside has handed its data to the candidate it
\* remembers, whatever requests come late, fail or are repeated, and keeps remembering it,
\* but for a decommission that was checked in an earlier migration than it finds.
THEOREM NoStandbyWithoutHeir == Spec => []HeirHasData
<1>1. Init => Typed /\ Strong /\ Backed /\ UndoneHave
  BY InitTyped, InitStrong, InitBacked DEF Init, UndoneHave
<1>2. Typed /\ Strong /\ Backed /\ UndoneHave /\ [Next]_vars => (Typed /\ Strong /\ Backed /\ UndoneHave)'
  BY NextTyped, NextStrong, NextBacked, UndoneNext
<1>3. Typed /\ Strong /\ Backed /\ UndoneHave => HeirHasData
  <2> SUFFICES ASSUME Typed, Strong, Backed, UndoneHave PROVE HeirHasData
    OBVIOUS
  <2>1. sess.cand # None => sess.cand \in Candidates
    BY DEF Typed, TypeOK, Session
  <2>2. sess.cand \in Candidates /\ (IsPromoted(sess.cand) \/ sess.cand \in undone) => HasData(sess.cand)
    BY DEF Backed, UndoneHave
  <2> QED
    BY <2>1, <2>2 DEF Strong, NeverHeadless, HeirHasData, HasData
<1> QED
  BY <1>1, <1>2, <1>3, PTL DEF Spec

===============================================================================
