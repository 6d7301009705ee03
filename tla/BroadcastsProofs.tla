--------------------------- MODULE BroadcastsProofs ---------------------------
(***************************************************************************)
(* Theorems about Broadcasts, for any broadcasts, people, operators, batch *)
(* size, restarts and failures.                                            *)
(*                                                                         *)
(* Picture ties what the worker holds to the rows: whoever is in its batch *)
(* or has an outcome not yet written is pending, and a run that lost track *)
(* of a message is out of its reach until something lets it go on, but for *)
(* the messages written down as failed, which only a retry sends again.    *)
(* Lifecycle says where a broadcast can be while it is being started.      *)
(***************************************************************************)
EXTENDS Broadcasts, TLAPS

RowsTyped ==
    /\ status \in [Runs -> Status] /\ later \in [Runs -> BOOLEAN]
    /\ target \in [Runs -> [People -> State]]
    /\ media \in [Runs -> {"text", "file", "cached"}] /\ file \in [Runs -> BOOLEAN]
    /\ listens \in [People -> BOOLEAN]

StartTyped ==
    /\ start \in [Runs -> {"no", "claimed", "listed", "empty", "abandon", "cancel"}]
    /\ creator \in [Runs -> {"no", "saving", "abandon", "cancel"}]
    /\ hook \in [Runs -> BOOLEAN] /\ announced \in [Runs -> Nat]

WorkerTyped ==
    /\ worker \in Worker /\ (worker.at # "idle" => worker.run \in Runs)
    /\ worker.at = "idle" => worker = Idle
    /\ poisoned \subseteq Runs /\ rejects \in [Runs -> 0..MaxRejects]

HistoryTyped ==
    /\ copies \in [Runs -> [People -> Nat]]
    /\ lost \in [Runs -> SUBSET People] /\ barred \in [Runs -> SUBSET People]
    /\ \A b \in Runs : barred[b] \subseteq lost[b]
    /\ left \subseteq People /\ spoilt \subseteq Runs

AsksTyped ==
    /\ request \in [Operators -> [run: Runs, to: {"paused", "running", "cancelled"}] \cup {None}]
    /\ asks \in 0..MaxAsks /\ trouble \in 0..MaxTrouble

Typed == RowsTyped /\ StartTyped /\ WorkerTyped /\ HistoryTyped /\ AsksTyped

-----------------------------------------------------------------------------
(* Type correctness *)

LEMMA InitTyped == Init => Typed
<1> SUFFICES ASSUME Init PROVE Typed
  OBVIOUS
<1>1. RowsTyped
  BY DEF Init, RowsTyped, Status, State
<1>2. StartTyped
  BY DEF Init, StartTyped
<1>3. WorkerTyped
  BY BoundsAssumption DEF Init, WorkerTyped, Worker, Idle, Outcome
<1>4. HistoryTyped
  BY DEF Init, HistoryTyped
<1>5. AsksTyped
  BY BoundsAssumption DEF Init, AsksTyped
<1> QED
  BY <1>1, <1>2, <1>3, <1>4, <1>5 DEF Typed

LEMMA CountersTyped ==
  ASSUME AsksTyped, UNCHANGED request, Trouble \/ Asks \/ UNCHANGED bounds
  PROVE  AsksTyped'
BY BoundsAssumption DEF AsksTyped, Trouble, Asks, bounds

LEMMA MovesTyped ==
  ASSUME RowsTyped, NEW b \in Runs, NEW from, NEW to \in Status, Moves(b, from, to)
  PROVE  status' \in [Runs -> Status]
BY DEF RowsTyped, Moves

LEMMA MarksTyped ==
  ASSUME RowsTyped, WorkerTyped, NEW b \in Runs, Marks(b)
  PROVE  target' \in [Runs -> [People -> State]]
<1>1. \A p \in People : worker.got[p] \in Outcome
  BY DEF WorkerTyped, Worker
<1>2. \A p \in People : worker.got[p] # "none" => Recorded(worker.got[p]) \in State
  BY <1>1 DEF Recorded, Outcome, State
<1>3. target' = [target EXCEPT ![b] = [p \in People |->
                   IF worker.got[p] = "none" THEN target[b][p] ELSE Recorded(worker.got[p])]]
  BY DEF Marks, RowsTyped
<1> QED
  BY <1>2, <1>3 DEF RowsTyped

LEMMA LetsGoTyped ==
  ASSUME Typed, NEW b \in Runs, LetsGo(b)
  PROVE  barred' \in [Runs -> SUBSET People] /\ \A a \in Runs : barred'[a] \subseteq lost[a]
<1>1. /\ lost \in [Runs -> SUBSET People] /\ barred \in [Runs -> SUBSET People]
      /\ \A a \in Runs : barred[a] \subseteq lost[a]
  BY DEF Typed, HistoryTyped
<1>2. StillBarred(b) \in SUBSET People /\ StillBarred(b) \subseteq lost[b]
  BY <1>1 DEF StillBarred
<1> QED
  BY <1>1, <1>2 DEF LetsGo

LEMMA StartingTyped ==
  ASSUME Typed, NEW b \in Runs, Create(b) \/ Claim(b) \/ Starting(b) \/ Retry(b)
  PROVE  Typed'
<1>1. WorkerTyped'
  BY DEF Typed, WorkerTyped, Create, Claim, Starting, Retry, List, NoAudience, ListFails, SaveMedia, SaveLater,
         Start, StartFails, CloseEmpty, Abandon, CancelStart, sending
<1>2. AsksTyped'
  BY CountersTyped DEF Typed, Create, Claim, Starting, Retry, List, NoAudience, ListFails, SaveMedia, SaveLater,
         Start, StartFails, CloseEmpty, Abandon, CancelStart, bounds
<1>3. HistoryTyped'
  <2>1. /\ UNCHANGED <<copies, lost, left, spoilt>>
        /\ UNCHANGED barred \/ LetsGo(b) \/ barred' = [barred EXCEPT ![b] = {}]
    BY DEF Create, Claim, Starting, Retry, List, NoAudience, ListFails, SaveMedia, SaveLater,
           Start, StartFails, CloseEmpty, Abandon, CancelStart, history
  <2>2. barred' \in [Runs -> SUBSET People] /\ \A a \in Runs : barred'[a] \subseteq lost[a]
    <3>1. CASE LetsGo(b)
      BY <3>1, LetsGoTyped
    <3>2. CASE UNCHANGED barred \/ barred' = [barred EXCEPT ![b] = {}]
      BY <3>2 DEF Typed, HistoryTyped
    <3> QED
      BY <2>1, <3>1, <3>2
  <2> QED
    BY <2>1, <2>2 DEF Typed, HistoryTyped
<1>4. StartTyped'
  <2>1. start' \in [Runs -> {"no", "claimed", "listed", "empty", "abandon", "cancel"}]
    BY DEF Typed, StartTyped, Create, Claim, Starting, Retry, List, NoAudience, ListFails, SaveMedia, SaveLater,
           Start, StartFails, CloseEmpty, Abandon, CancelStart, Reverts, starting
  <2>2. hook' \in [Runs -> BOOLEAN]
    BY DEF Typed, StartTyped, Create, Claim, Starting, Retry, List, NoAudience, ListFails, SaveMedia, SaveLater,
           Start, StartFails, CloseEmpty, Abandon, CancelStart, Lists, starting
  <2>3. announced' \in [Runs -> Nat]
    BY DEF Typed, StartTyped, Create, Claim, Starting, Retry, List, NoAudience, ListFails, SaveMedia, SaveLater,
           Start, StartFails, CloseEmpty, Abandon, CancelStart, starting
  <2>4. creator' \in [Runs -> {"no", "saving", "abandon", "cancel"}]
    BY DEF Typed, StartTyped, Create, Claim, Starting, Retry, List, NoAudience, ListFails, SaveMedia, SaveLater,
           Start, StartFails, CloseEmpty, Abandon, CancelStart, starting
  <2> QED
    BY <2>1, <2>2, <2>3, <2>4 DEF StartTyped
<1>5. RowsTyped'
  <2>1. listens' = listens
    BY DEF Create, Claim, Starting, Retry, List, NoAudience, ListFails, SaveMedia, SaveLater, Start, StartFails,
           CloseEmpty, Abandon, CancelStart, rows
  <2>2. status' \in [Runs -> Status]
    BY MovesTyped DEF Typed, RowsTyped, Status, Create, Claim, Starting, Retry, List, NoAudience, ListFails,
       SaveMedia, SaveLater, Start, StartFails, CloseEmpty, Abandon, CancelStart, Reverts, rows
  <2>3. target' \in [Runs -> [People -> State]]
    <3>1. \/ UNCHANGED target \/ \E who \in Audience(b) : Adds(b, who)
          \/ target' = [target EXCEPT ![b] = [p \in People |->
                           IF @[p] = "failed" THEN "pending" ELSE @[p]]]
      BY DEF Create, Claim, Starting, Retry, List, NoAudience, ListFails, SaveMedia, SaveLater,
             Start, StartFails, CloseEmpty, Abandon, CancelStart, Lists, rows
    <3>2. ASSUME NEW who \in Audience(b), Adds(b, who) PROVE target' \in [Runs -> [People -> State]]
      BY <3>2 DEF Typed, RowsTyped, State, Adds
    <3>3. CASE target' = [target EXCEPT ![b] = [p \in People |->
                            IF @[p] = "failed" THEN "pending" ELSE @[p]]]
      BY <3>3 DEF Typed, RowsTyped, State
    <3> QED
      BY <3>1, <3>2, <3>3 DEF Typed, RowsTyped
  <2>4. /\ later' \in [Runs -> BOOLEAN]
        /\ media' \in [Runs -> {"text", "file", "cached"}] /\ file' \in [Runs -> BOOLEAN]
    <3>1. /\ UNCHANGED later \/ \E w \in BOOLEAN : later' = [later EXCEPT ![b] = w]
          /\ UNCHANGED media \/ \E k \in {"text", "file"} : media' = [media EXCEPT ![b] = k]
          /\ UNCHANGED file \/ \E w \in BOOLEAN : file' = [file EXCEPT ![b] = w]
      BY DEF Create, Claim, Starting, Retry, List, NoAudience, ListFails, SaveMedia, SaveLater,
             Start, StartFails, CloseEmpty, Abandon, CancelStart, rows
    <3> QED
      BY <3>1 DEF Typed, RowsTyped
  <2> QED
    BY <2>1, <2>2, <2>3, <2>4 DEF Typed, RowsTyped
<1> QED
  BY <1>1, <1>2, <1>3, <1>4, <1>5 DEF Typed

LEMMA OthersTyped ==
  ASSUME Typed, \/ \E o \in Operators : Ask(o) \/ Write(o)
                \/ \E p \in People : OptOut(p)
                \/ \E b \in Runs : QuarantineEnds(b)
                \/ Sweep \/ Restart
  PROVE  Typed'
<1>1. ASSUME NEW o \in Operators, Ask(o) PROVE Typed'
  <2>1. request' \in [Operators -> [run: Runs, to: {"paused", "running", "cancelled"}] \cup {None}]
    BY <1>1 DEF Ask, Typed, AsksTyped
  <2>2. asks' \in 0..MaxAsks /\ trouble' \in 0..MaxTrouble
    BY <1>1, BoundsAssumption DEF Ask, Asks, Typed, AsksTyped
  <2>3. UNCHANGED <<rows, listens, starting, sending, history>>
    BY <1>1 DEF Ask
  <2> QED
    BY <2>1, <2>2, <2>3 DEF Typed, RowsTyped, StartTyped, WorkerTyped, HistoryTyped, AsksTyped,
                            rows, starting, sending, history
<1>2. ASSUME NEW o \in Operators, Write(o) PROVE Typed'
  <2>1. request[o] \in [run: Runs, to: {"paused", "running", "cancelled"}]
    BY <1>2 DEF Write, Typed, AsksTyped
  <2>2. RowsTyped'
    BY <1>2, <2>1 DEF Write, Typed, RowsTyped, Status
  <2>3. AsksTyped'
    BY <1>2 DEF Write, Typed, AsksTyped, bounds
  <2>4. barred' \in [Runs -> SUBSET People] /\ \A a \in Runs : barred'[a] \subseteq lost[a]
    <3>1. CASE request[o].to = "running"
      BY <1>2, <2>1, <3>1, LetsGoTyped DEF Write
    <3>2. CASE request[o].to # "running"
      BY <1>2, <3>2 DEF Write, Typed, HistoryTyped
    <3> QED
      BY <3>1, <3>2
  <2>5. UNCHANGED <<copies, lost, left>> /\ spoilt' \subseteq Runs
    BY <1>2, <2>1 DEF Write, Typed, HistoryTyped
  <2>6. HistoryTyped'
    BY <2>4, <2>5 DEF Typed, HistoryTyped
  <2> QED
    BY <1>2, <2>2, <2>3, <2>6 DEF Write, Typed, StartTyped, WorkerTyped, starting, sending
<1>3. ASSUME NEW p \in People, OptOut(p) PROVE Typed'
  BY <1>3 DEF OptOut, Typed, RowsTyped, StartTyped, WorkerTyped, HistoryTyped, AsksTyped,
              rows, starting, sending, bounds
<1>4. ASSUME NEW b \in Runs, QuarantineEnds(b) PROVE Typed'
  <2>1. barred' \in [Runs -> SUBSET People] /\ \A a \in Runs : barred'[a] \subseteq lost[a]
    BY <1>4, LetsGoTyped DEF QuarantineEnds
  <2>2. HistoryTyped'
    BY <1>4, <2>1 DEF QuarantineEnds, Typed, HistoryTyped
  <2>3. RowsTyped' /\ StartTyped' /\ AsksTyped'
    BY <1>4 DEF QuarantineEnds, Typed, RowsTyped, StartTyped, AsksTyped, rows, starting, bounds
  <2>4. WorkerTyped'
    BY <1>4 DEF QuarantineEnds, Typed, WorkerTyped
  <2> QED
    BY <2>2, <2>3, <2>4 DEF Typed
<1>5. CASE Sweep
  BY <1>5 DEF Sweep, Typed, RowsTyped, StartTyped, WorkerTyped, HistoryTyped, AsksTyped,
              starting, sending, history, bounds
<1>6. CASE Restart
  <2>1. RowsTyped' /\ StartTyped'
    BY <1>6 DEF Restart, Typed, RowsTyped, StartTyped, rows
  <2>2. WorkerTyped'
    BY <1>6, BoundsAssumption DEF Restart, WorkerTyped, Worker, Idle, Outcome, Typed
  <2>3. AsksTyped'
    BY <1>6, BoundsAssumption DEF Restart, Trouble, Typed, AsksTyped
  <2>4. /\ lost' \in [Runs -> SUBSET People] /\ barred' \in [Runs -> SUBSET People]
        /\ \A b \in Runs : barred'[b] \subseteq lost'[b]
    BY <1>6 DEF Restart, Unwritten, StillBarred, Typed, HistoryTyped
  <2>5. HistoryTyped'
    BY <1>6, <2>4 DEF Restart, Typed, HistoryTyped
  <2> QED
    BY <2>1, <2>2, <2>3, <2>5 DEF Typed
<1> QED
  BY <1>1, <1>2, <1>3, <1>4, <1>5, <1>6

Stages == {"idle", "picked", "prime", "primed", "cache", "sending", "halt", "mark", "pause", "finish", "close"}

\* The worker goes on to another stage of the same batch.
LEMMA Goes ==
  ASSUME Typed, NEW at \in Stages, worker' = [worker EXCEPT !.at = at]
  PROVE  /\ worker' \in Worker /\ worker'.at = at /\ worker'.run = worker.run
         /\ worker'.batch = worker.batch /\ worker'.got = worker.got /\ worker'.halt = worker.halt
<1>1. worker \in Worker
  BY DEF Typed, WorkerTyped
<1> QED
  BY <1>1 DEF Worker, Stages

LEMMA IdleIs ==
  /\ Idle \in Worker /\ Idle.at = "idle" /\ Idle.run = None /\ Idle.batch = {}
  /\ \A p \in People : Idle.got[p] = "none"
BY DEF Idle, Worker, Outcome

LEMMA JoinTyped ==
  ASSUME NEW f \in [Runs -> SUBSET People], NEW b \in Runs, NEW S \in SUBSET People
  PROVE  LET g == [f EXCEPT ![b] = @ \cup S]
         IN /\ g \in [Runs -> SUBSET People] /\ \A c \in Runs : f[c] \subseteq g[c]
            /\ g[b] = f[b] \cup S /\ \A c \in Runs \ {b} : g[c] = f[c]
OBVIOUS

LEMMA PickTyped ==
  ASSUME Typed, Pick \/ Look
  PROVE  Typed'
<1>1. WorkerTyped'
  <2>1. UNCHANGED <<poisoned, rejects>>
    BY DEF Pick, Look
  <2>2. CASE Pick
    <3>1. PICK b \in Runs : worker' = [Idle EXCEPT !.at = "picked", !.run = b]
      BY <2>2 DEF Pick
    <3> QED
      BY <2>1, <3>1 DEF Typed, WorkerTyped, Worker, Idle, Outcome
  <2>3. CASE Look
    <3>1. worker.at = "picked" /\ worker.run \in Runs
      BY <2>3 DEF Look, Typed, WorkerTyped
    <3>2. \/ worker' = [worker EXCEPT !.at = "finish"]
          \/ \E batch \in SUBSET People, at \in {"prime", "sending"} :
               worker' = [worker EXCEPT !.batch = batch, !.at = at]
      BY <2>3 DEF Look, Reachable
    <3> QED
      BY <2>1, <3>1, <3>2 DEF Typed, WorkerTyped, Worker
  <2> QED
    BY <2>2, <2>3
<1> QED
  BY <1>1 DEF Pick, Look, Typed, RowsTyped, StartTyped, HistoryTyped, AsksTyped, rows, starting, history, bounds

LEMMA PrimeTyped ==
  ASSUME Typed, Prime \/ PrimeFails \/ PrimeUnanswered
  PROVE  Typed'
<1>1. worker.at = "prime" /\ worker.run \in Runs
  BY DEF Prime, PrimeFails, PrimeUnanswered, Typed, WorkerTyped
<1>2. WorkerTyped'
  <2>1. UNCHANGED <<poisoned, rejects>>
    BY DEF Prime, PrimeFails, PrimeUnanswered
  <2>2. \/ worker' = Idle
        \/ worker' = [worker EXCEPT !.at = "pause"]
        \/ \E p \in worker.batch, g \in {"sent", "blocked"} :
             worker' = [worker EXCEPT !.at = "primed", !.got[p] = g]
    BY DEF Prime, PrimeFails, PrimeUnanswered
  <2>3. CASE worker' = Idle
    BY <2>1, <2>3, IdleIs DEF Typed, WorkerTyped
  <2>4. CASE worker' = [worker EXCEPT !.at = "pause"]
    BY <1>1, <2>1, <2>4, Goes DEF Typed, WorkerTyped, Stages
  <2>5. CASE \E p \in worker.batch, g \in {"sent", "blocked"} :
               worker' = [worker EXCEPT !.at = "primed", !.got[p] = g]
    <3>1. PICK p \in worker.batch, g \in {"sent", "blocked"} :
                 worker' = [worker EXCEPT !.at = "primed", !.got[p] = g]
      BY <2>5
    <3>2. worker \in Worker
      BY DEF Typed, WorkerTyped
    <3>3. worker' \in Worker /\ worker'.run = worker.run /\ worker'.at = "primed"
      BY <3>1, <3>2 DEF Worker, Outcome
    <3> QED
      BY <1>1, <2>1, <3>3 DEF Typed, WorkerTyped
  <2> QED
    BY <2>2, <2>3, <2>4, <2>5
<1>3. copies' \in [Runs -> [People -> Nat]]
  <2>1. \/ UNCHANGED copies
        \/ \E p \in People : copies' = [copies EXCEPT ![worker.run][p] = @ + 1]
    BY DEF Prime, PrimeFails, PrimeUnanswered, Delivers, Typed, WorkerTyped, Worker, history
  <2>2. ASSUME NEW p \in People, copies' = [copies EXCEPT ![worker.run][p] = @ + 1]
        PROVE  copies' \in [Runs -> [People -> Nat]]
    BY <1>1, <2>2 DEF Typed, HistoryTyped
  <2> QED
    BY <2>1, <2>2 DEF Typed, HistoryTyped
<1>4. HistoryTyped'
  <2>1. worker.batch \subseteq People
    BY DEF Typed, WorkerTyped, Worker
  <2>2. /\ UNCHANGED <<barred, left, spoilt>>
        /\ \/ UNCHANGED lost
           \/ \E p \in People : lost' = [lost EXCEPT ![worker.run] = @ \cup {p}]
    BY <2>1 DEF Prime, PrimeFails, PrimeUnanswered, history
  <2>3. CASE UNCHANGED lost
    BY <1>3, <2>2, <2>3 DEF Typed, HistoryTyped
  <2>4. ASSUME NEW p \in People, lost' = [lost EXCEPT ![worker.run] = @ \cup {p}] PROVE HistoryTyped'
    <3>1. lost' \in [Runs -> SUBSET People] /\ \A c \in Runs : lost[c] \subseteq lost'[c]
      BY <1>1, <2>4, JoinTyped DEF Typed, HistoryTyped
    <3> QED
      BY <1>3, <2>2, <3>1 DEF Typed, HistoryTyped
  <2> QED
    BY <2>2, <2>3, <2>4
<1>5. AsksTyped'
  BY CountersTyped DEF Prime, PrimeFails, PrimeUnanswered, Typed, bounds
<1> QED
  BY <1>2, <1>4, <1>5 DEF Prime, PrimeFails, PrimeUnanswered, Typed, RowsTyped, StartTyped, rows, starting

LEMMA RecordTyped ==
  ASSUME Typed, RecordPrime \/ Mark
  PROVE  Typed'
<1>1. worker.run \in Runs /\ worker.at \in {"primed", "mark"}
  BY DEF RecordPrime, Mark, Typed, WorkerTyped
<1>2. listens' \in [People -> BOOLEAN] /\ left' \subseteq People
  <2>1. Blocks
    BY DEF RecordPrime, Mark
  <2> QED
    BY <2>1 DEF Blocks, Typed, RowsTyped, HistoryTyped
<1>3. target' \in [Runs -> [People -> State]]
  BY <1>1, MarksTyped DEF RecordPrime, Mark, Typed, RowsTyped
<1>4. RowsTyped'
  BY <1>2, <1>3 DEF RecordPrime, Mark, Typed, RowsTyped
<1>5. /\ lost' \in [Runs -> SUBSET People] /\ barred' \in [Runs -> SUBSET People]
      /\ \A b \in Runs : barred'[b] \subseteq lost'[b]
  <2>1. CASE UNCHANGED <<lost, barred>>
    BY <2>1 DEF Typed, HistoryTyped
  <2>2. CASE LosesTrack
    <3>1. Unwritten \in SUBSET People
      BY DEF Unwritten
    <3> QED
      BY <1>1, <2>2, <3>1, JoinTyped DEF LosesTrack, Typed, HistoryTyped
  <2> QED
    BY <2>1, <2>2 DEF RecordPrime, Mark
<1>6. HistoryTyped'
  BY <1>2, <1>5 DEF RecordPrime, Mark, Typed, HistoryTyped
<1>7. WorkerTyped'
  <2>1. worker' = Idle \/ worker' = [worker EXCEPT !.at = "cache"] \/ worker' = [worker EXCEPT !.at = "pause"]
    BY DEF RecordPrime, Mark
  <2>3. worker' = Idle \/ (worker' \in Worker /\ worker'.run = worker.run /\ worker'.at # "idle")
    <3>1. CASE worker' = [worker EXCEPT !.at = "cache"]
      BY <1>1, <3>1, Goes DEF Stages, Typed, WorkerTyped
    <3>2. CASE worker' = [worker EXCEPT !.at = "pause"]
      BY <1>1, <3>2, Goes DEF Stages, Typed, WorkerTyped
    <3> QED
      BY <2>1, <3>1, <3>2
  <2>4. poisoned' \subseteq Runs /\ rejects' \in [Runs -> 0..MaxRejects]
    BY <1>1, BoundsAssumption DEF RecordPrime, Mark, Typed, WorkerTyped
  <2> QED
    BY <1>1, <2>3, <2>4, IdleIs DEF WorkerTyped
<1>8. AsksTyped'
  BY CountersTyped DEF RecordPrime, Mark, Typed, bounds
<1> QED
  BY <1>4, <1>6, <1>7, <1>8 DEF RecordPrime, Mark, Typed, StartTyped, starting

LEMMA CountsTyped ==
  ASSUME Typed, NEW b \in Runs, NEW outcome, Counts(b, outcome)
  PROVE  rejects' \in [Runs -> 0..MaxRejects]
<1>1. rejects[b] \in 0..MaxRejects /\ rejects \in [Runs -> 0..MaxRejects]
  BY DEF Typed, WorkerTyped
<1>2. (IF rejects[b] < MaxRejects THEN rejects[b] + 1 ELSE rejects[b]) \in 0..MaxRejects /\ 0 \in 0..MaxRejects
  BY <1>1, BoundsAssumption
<1> QED
  BY <1>1, <1>2 DEF Counts

LEMMA SendTyped ==
  ASSUME Typed, NEW p \in People, Send(p) \/ SendUnanswered(p)
  PROVE  Typed'
<1>1. worker.run \in Runs /\ worker.at = "sending"
  BY DEF Send, SendUnanswered, Typed, WorkerTyped
<1>2. PICK outcome \in Outcome \ {"none"} : Answers(p, outcome)
  BY DEF Send, SendUnanswered, Outcome
<1>3. WorkerTyped'
  <2>1. rejects' \in [Runs -> 0..MaxRejects]
    BY <1>1, <1>2, CountsTyped DEF Answers
  <2>2. PICK halt \in BOOLEAN, at \in {"sending", "halt", "mark"} :
          worker' = [worker EXCEPT !.got[p] = outcome, !.batch = worker.batch \ {p}, !.halt = halt, !.at = at]
    <3>1. (worker.halt \/ rejects'[worker.run] = MaxRejects) \in BOOLEAN
      BY DEF Typed, WorkerTyped, Worker
    <3> QED
      BY <1>2, <3>1 DEF Answers
  <2>3. worker' \in Worker /\ worker'.run = worker.run /\ worker'.at # "idle"
    BY <1>1, <2>2 DEF Typed, WorkerTyped, Worker
  <2>4. poisoned' = poisoned
    BY DEF Send, SendUnanswered
  <2> QED
    BY <1>1, <2>1, <2>3, <2>4 DEF Typed, WorkerTyped
<1>4. copies' \in [Runs -> [People -> Nat]]
  <2>1. UNCHANGED copies \/ copies' = [copies EXCEPT ![worker.run][p] = @ + 1]
    BY DEF Send, SendUnanswered, Delivers
  <2>2. ASSUME copies' = [copies EXCEPT ![worker.run][p] = @ + 1]
        PROVE  copies' \in [Runs -> [People -> Nat]]
    BY <1>1, <2>2 DEF Typed, HistoryTyped
  <2> QED
    BY <2>1, <2>2 DEF Typed, HistoryTyped
<1>5. HistoryTyped'
  <2>1. UNCHANGED <<left, spoilt>>
    BY DEF Send, SendUnanswered
  <2>2. CASE UNCHANGED <<lost, barred>>
    BY <1>4, <2>1, <2>2 DEF Typed, HistoryTyped
  <2>3. CASE /\ lost' = [lost EXCEPT ![worker.run] = @ \cup {p}]
             /\ barred' = [barred EXCEPT ![worker.run] = @ \cup {p}]
    <3>1. lost' \in [Runs -> SUBSET People] /\ barred' \in [Runs -> SUBSET People]
      BY <1>1, <2>3, JoinTyped DEF Typed, HistoryTyped
    <3>2. \A b \in Runs : barred'[b] \subseteq lost'[b]
      BY <1>1, <2>3 DEF Typed, HistoryTyped
    <3> QED
      BY <1>4, <2>1, <3>1, <3>2 DEF HistoryTyped, Typed
  <2> QED
    BY <2>2, <2>3 DEF Send, SendUnanswered
<1>6. AsksTyped'
  BY CountersTyped DEF Send, SendUnanswered, Typed, bounds
<1> QED
  BY <1>3, <1>5, <1>6 DEF Send, SendUnanswered, Typed, RowsTyped, StartTyped, rows, starting

LEMMA EndTyped ==
  ASSUME Typed, Cache \/ Pause \/ Finish \/ Close
  PROVE  Typed'
<1>1. worker.run \in Runs /\ worker.at \in {"cache", "halt", "pause", "finish", "close"}
  BY DEF Cache, Pause, Finish, Close, Typed, WorkerTyped
<1>2. RowsTyped'
  <2>1. status' \in [Runs -> Status]
    BY <1>1, MovesTyped DEF Cache, Pause, Finish, Close, Typed, RowsTyped, Status
  <2>2. target' \in [Runs -> [People -> State]]
    BY <1>1 DEF Cache, Pause, Finish, Close, Typed, RowsTyped, State
  <2>3. media' \in [Runs -> {"text", "file", "cached"}] /\ file' \in [Runs -> BOOLEAN]
    BY <1>1 DEF Cache, Pause, Finish, Close, Typed, RowsTyped
  <2> QED
    BY <2>1, <2>2, <2>3 DEF Cache, Pause, Finish, Close, Typed, RowsTyped
<1>3. WorkerTyped'
  <2>1. UNCHANGED <<poisoned, rejects>>
    BY DEF Cache, Pause, Finish, Close
  <2>3. \/ worker' = Idle
        \/ \E at \in {"mark", "pause", "close"} : worker' = [worker EXCEPT !.at = at]
        \/ worker' = [Idle EXCEPT !.at = "sending", !.run = worker.run,
                                  !.batch = {p \in worker.batch : worker.got[p] = "none"}]
    BY DEF Cache, Pause, Finish, Close
  <2>4. worker' = Idle \/ (worker' \in Worker /\ worker'.run = worker.run /\ worker'.at # "idle")
    <3>1. worker \in Worker
      BY DEF Typed, WorkerTyped
    <3>2. ASSUME worker' = [Idle EXCEPT !.at = "sending", !.run = worker.run,
                                        !.batch = {p \in worker.batch : worker.got[p] = "none"}]
          PROVE  worker' \in Worker /\ worker'.run = worker.run /\ worker'.at # "idle"
      BY <1>1, <3>1, <3>2 DEF Worker, Idle, Outcome
    <3>3. ASSUME NEW at \in {"mark", "pause", "close"}, worker' = [worker EXCEPT !.at = at]
          PROVE  worker' \in Worker /\ worker'.run = worker.run /\ worker'.at # "idle"
      BY <1>1, <3>3, Goes DEF Stages, Typed, WorkerTyped
    <3> QED
      BY <2>3, <3>2, <3>3
  <2> QED
    BY <1>1, <2>1, <2>4, IdleIs DEF Typed, WorkerTyped
<1>4. HistoryTyped'
  <2>1. UNCHANGED <<copies, lost, left>> /\ spoilt' \subseteq Runs
    BY <1>1 DEF Cache, Pause, Finish, Close, history, Typed, HistoryTyped
  <2>2. CASE UNCHANGED barred
    BY <2>1, <2>2 DEF Typed, HistoryTyped
  <2>3. CASE LetsGo(worker.run)
    BY <1>1, <2>1, <2>3 DEF LetsGo, StillBarred, Typed, HistoryTyped
  <2> QED
    BY <2>2, <2>3 DEF Cache, Pause, Finish, Close, history
<1>5. AsksTyped'
  BY CountersTyped DEF Cache, Pause, Finish, Close, Typed, bounds
<1> QED
  BY <1>2, <1>3, <1>4, <1>5 DEF Cache, Pause, Finish, Close, Typed, StartTyped, starting

LEMMA NextTyped == Typed /\ [Next]_vars => Typed'
<1> SUFFICES ASSUME Typed, [Next]_vars PROVE Typed'
  OBVIOUS
<1>1. CASE UNCHANGED vars
  BY <1>1 DEF vars, Typed, RowsTyped, StartTyped, WorkerTyped, HistoryTyped, AsksTyped,
              rows, starting, sending, history, bounds
<1>2. CASE Working
  BY <1>2, PickTyped, PrimeTyped, RecordTyped, SendTyped, EndTyped DEF Working
<1> QED
  BY <1>1, <1>2, StartingTyped, OthersTyped DEF Next

LEMMA TypedAlways == Spec => []Typed
  BY InitTyped, NextTyped, PTL DEF Spec

\* TypeOK: rows, requests and the worker's batch keep their types; in particular an outcome
\* is written as one of the states a recipient's row may have.
THEOREM TypeCorrect == Spec => []TypeOK
<1>1. Typed => TypeOK
  BY DEF Typed, TypeOK, RowsTyped, StartTyped, WorkerTyped, HistoryTyped, AsksTyped
<1> QED
  BY <1>1, TypedAlways, PTL

-----------------------------------------------------------------------------
(* What the worker holds *)

\* Whose outcome is still to come, or still to be written.
Owed(p) ==
    \/ /\ worker.at \in {"prime", "primed", "sending", "halt", "mark"}
       /\ p \in worker.batch \/ worker.got[p] # "none"
    \/ worker.at = "cache" /\ p \in worker.batch /\ worker.got[p] = "none"

OwedIsPending == \A p \in People : Owed(p) => target[worker.run][p] = "pending"

Fresh ==
    /\ worker.at \in {"picked", "prime", "finish", "close"} => \A p \in People : worker.got[p] = "none"
    /\ worker.at = "sending" => \A p \in worker.batch : worker.got[p] = "none"

Written ==
    worker.at \in {"cache", "pause"} =>
        \A p \in People : worker.got[p] = "sent" => \/ target[worker.run][p] = "sent"
                                                   \/ p \in lost[worker.run]

GotIsSent == \A p \in People : worker.got[p] = "sent" => worker.run \in Runs /\ copies[worker.run][p] > 0

\* Sent without an answer, in the batch in hand: it will be written down as failed.
Unanswered(b, p) == worker.run = b /\ worker.at \in {"sending", "halt", "mark"} /\ worker.got[p] = "failed"

Stopping(b) == worker.run = b /\ worker.at = "pause"
Shut(b) == /\ worker.run = b => worker.at = "pause"
           /\ b \in poisoned \/ status[b] # "running" \/ Stopping(b)

OutOfReach ==
    \A b \in Runs, p \in People : p \in barred[b] =>
        \/ target[b][p] = "failed"
        \/ target[b][p] = "pending" /\ (Unanswered(b, p) \/ Shut(b))

Picture == OwedIsPending /\ Fresh /\ Written /\ GotIsSent /\ OutOfReach /\ RecordsWhatItSends

\* What was barred and is not let go stays out of reach.
StillOut ==
    /\ \A b \in Runs : barred'[b] \subseteq barred[b]
    /\ \A b \in Runs, p \in People : p \in barred'[b] =>
          /\ target'[b][p] = target[b][p]
          /\ target[b][p] = "pending" => /\ b \in poisoned => b \in poisoned'
                                         /\ status'[b] = "running" => status[b] = "running"

\* The queue of a run only gets longer.
Queues == \A b \in Runs, p \in People :
            \/ target'[b][p] = target[b][p]
            \/ target[b][p] \in {"no", "failed"} /\ target'[b][p] = "pending"

LEMMA InitPicture == Init => Picture
BY DEF Init, Picture, OwedIsPending, Owed, Fresh, Written, GotIsSent, OutOfReach, RecordsWhatItSends, Idle,
       InHand

LEMMA BesideWorker ==
  ASSUME Typed, Picture, UNCHANGED <<worker, copies, lost>>, StillOut, Queues
  PROVE  Picture'
<1>1. worker.at # "idle" => worker.run \in Runs
  BY DEF Typed, WorkerTyped
<1>2. \A p \in People : Owed(p) => worker.run \in Runs
  BY <1>1 DEF Owed
<1>3. OwedIsPending'
  BY <1>2 DEF Picture, OwedIsPending, Owed, Queues
<1>4. Fresh' /\ GotIsSent'
  BY DEF Picture, Fresh, GotIsSent
<1>5. Written'
  BY <1>1 DEF Picture, Written, Queues
<1>6. OutOfReach'
  BY DEF Picture, OutOfReach, StillOut, Unanswered, Shut, Stopping
<1>7. RecordsWhatItSends'
  BY DEF Picture, RecordsWhatItSends, InHand, Queues
<1> QED
  BY <1>3, <1>4, <1>5, <1>6, <1>7 DEF Picture

\* A run in whose start something was listed has nothing barred that is not in its queue.
LEMMA BarredIs ==
  ASSUME Typed, Picture, NEW b \in Runs, NEW p \in People, p \in barred[b]
  PROVE  target[b][p] \in {"pending", "failed"}
BY DEF Picture, OutOfReach

LEMMA StartingPicture ==
  ASSUME Typed, Picture, NEW b \in Runs, Create(b) \/ Claim(b) \/ Starting(b) \/ Retry(b)
  PROVE  Picture'
<1>1. UNCHANGED <<worker, poisoned, copies, lost>>
  BY DEF Create, Claim, Starting, Retry, List, NoAudience, ListFails, SaveMedia, SaveLater, Start, StartFails,
         CloseEmpty, Abandon, CancelStart, sending, history
<1>2. ASSUME NEW who, Adds(b, who)
      PROVE  \A c \in Runs, p \in People : target'[c][p] = target[c][p] \/ (target[c][p] = "no" /\ target'[c][p] = "pending")
  BY <1>2 DEF Adds, Typed, RowsTyped
<1>3. \/ Retry(b)
      \/ \A c \in Runs, p \in People : target'[c][p] = target[c][p] \/ (target[c][p] = "no" /\ target'[c][p] = "pending")
  <2>1. CASE UNCHANGED target
    BY <2>1
  <2> QED
    BY <1>2, <2>1 DEF Create, Claim, Starting, List, NoAudience, ListFails, SaveMedia, SaveLater, Start, StartFails,
                      CloseEmpty, Abandon, CancelStart, Lists, rows
<1>4. Queues
  <2>1. CASE Retry(b)
    BY <2>1 DEF Retry, Queues, Typed, RowsTyped
  <2> QED
    BY <1>3, <2>1 DEF Queues
<1>5. CASE Retry(b)
  <2>1. StillOut
    BY <1>1, <1>5 DEF Retry, StillOut, Typed, RowsTyped, HistoryTyped
  <2> QED
    BY <1>1, <1>4, <2>1, BesideWorker
<1>6. CASE ~Retry(b)
  <2>1. \A c \in Runs, p \in People : p \in barred[c] => target'[c][p] = target[c][p]
    BY <1>3, <1>6, BarredIs
  <2>2. ASSUME UNCHANGED barred, \A c \in Runs : status'[c] = "running" => status[c] = "running"
        PROVE  StillOut
    BY <1>1, <2>1, <2>2 DEF StillOut
  <2>3. ASSUME LetsGo(b), \A c \in Runs \ {b} : status'[c] = status[c] PROVE StillOut
    BY <1>1, <2>1, <2>3 DEF LetsGo, StillBarred, StillOut, Typed, HistoryTyped
  <2>4. ASSUME Start(b) \/ StartFails(b)
        PROVE  \/ UNCHANGED barred /\ \A c \in Runs : status'[c] = "running" => status[c] = "running"
               \/ LetsGo(b) /\ \A c \in Runs \ {b} : status'[c] = status[c]
    BY <2>4 DEF Start, StartFails, Reverts, Moves, Typed, RowsTyped
  <2>5. ASSUME Create(b) \/ Claim(b) \/ (Starting(b) /\ ~Start(b) /\ ~StartFails(b))
        PROVE  UNCHANGED barred /\ \A c \in Runs : status'[c] = "running" => status[c] = "running"
    BY <2>5 DEF Create, Claim, Starting, List, NoAudience, ListFails, SaveMedia, SaveLater, CloseEmpty, Abandon,
                CancelStart, Reverts, Moves, rows, history, Typed, RowsTyped
  <2>6. StillOut
    BY <1>6, <2>2, <2>3, <2>4, <2>5
  <2> QED
    BY <1>1, <1>4, <2>6, BesideWorker
<1> QED
  BY <1>5, <1>6

LEMMA OthersPicture ==
  ASSUME Typed, Picture,
         \/ \E o \in Operators : Ask(o) \/ Write(o)
         \/ \E p \in People : OptOut(p)
         \/ \E b \in Runs : QuarantineEnds(b)
         \/ Sweep \/ UNCHANGED vars
  PROVE  Picture'
<1>1. UNCHANGED <<worker, copies, lost, target>>
  BY DEF Ask, Write, OptOut, QuarantineEnds, Sweep, rows, sending, history, vars
<1>2. Queues
  BY <1>1 DEF Queues
<1>3. StillOut
  <2>1. ASSUME NEW o \in Operators, Write(o) PROVE StillOut
    <3>1. request[o].run \in Runs /\ request[o].to \in {"paused", "running", "cancelled"}
      BY <2>1 DEF Write, Typed, AsksTyped
    <3>2. \A b \in Runs \ {request[o].run} : status'[b] = status[b]
      BY <2>1 DEF Write, Typed, RowsTyped
    <3>3. CASE request[o].to = "running"
      <4>1. LetsGo(request[o].run)
        BY <2>1, <3>3 DEF Write
      <4> QED
        BY <1>1, <2>1, <3>1, <3>2, <4>1 DEF Write, LetsGo, StillBarred, StillOut, Typed, HistoryTyped, sending
    <3>4. CASE request[o].to # "running"
      <4>1. barred' = barred /\ status'[request[o].run] # "running"
        BY <2>1, <3>1, <3>4 DEF Write, Typed, RowsTyped
      <4> QED
        BY <1>1, <2>1, <3>2, <4>1 DEF Write, StillOut, sending
    <3> QED
      BY <3>3, <3>4
  <2>2. ASSUME NEW b \in Runs, QuarantineEnds(b) PROVE StillOut
    BY <1>1, <2>2 DEF QuarantineEnds, LetsGo, StillBarred, StillOut, rows, Typed, HistoryTyped
  <2> QED
    BY <1>1, <2>1, <2>2 DEF Ask, OptOut, Sweep, StillOut, rows, sending, history, vars
<1> QED
  BY <1>1, <1>2, <1>3, BesideWorker

\* The worker puts down a batch that owes nothing, or whose run is known to have lost track.
LEMMA PutDown ==
  ASSUME Typed, Picture, worker' = Idle, UNCHANGED <<target, copies>>,
         \A b \in Runs : lost[b] \subseteq lost'[b],
         \A p \in People : worker.got[p] = "sent" => \/ target[worker.run][p] = "sent"
                                                     \/ p \in lost'[worker.run],
         OutOfReach'
  PROVE  Picture'
<1>1. OwedIsPending' /\ Fresh' /\ Written' /\ GotIsSent'
  BY IdleIs DEF OwedIsPending, Owed, Fresh, Written, GotIsSent
<1>2. RecordsWhatItSends'
  BY IdleIs DEF RecordsWhatItSends, InHand, Picture
<1> QED
  BY <1>1, <1>2 DEF Picture

LEMMA RestartPicture ==
  ASSUME Typed, Picture, Restart
  PROVE  Picture'
<1>1. worker' = Idle /\ UNCHANGED <<target, copies>>
  BY DEF Restart, rows
<1>2. \A b \in Runs : lost[b] \subseteq lost'[b]
  BY DEF Restart
<1>3. OutOfReach'
  BY <1>1 DEF Restart, StillBarred, Picture, OutOfReach
<1>4. ASSUME NEW p \in People, worker.got[p] = "sent"
      PROVE  target[worker.run][p] = "sent" \/ p \in lost'[worker.run]
  <2>1. CASE target[worker.run][p] = "sent"
    BY <2>1
  <2>2. CASE target[worker.run][p] # "sent"
    <3>1. p \in Unwritten /\ worker.run \in Runs
      BY <1>4, <2>2 DEF Unwritten, Picture, GotIsSent
    <3> QED
      BY <3>1 DEF Restart
  <2> QED
    BY <2>1, <2>2
<1> QED
  BY <1>1, <1>2, <1>3, <1>4, PutDown

LEMMA PickPicture ==
  ASSUME Typed, Picture, Pick
  PROVE  Picture'
<1>1. PICK b \in Runs : /\ status[b] = "running" /\ b \notin poisoned
                        /\ worker' = [Idle EXCEPT !.at = "picked", !.run = b]
  BY DEF Pick
<1>2. worker.at = "idle" /\ worker = Idle
  BY DEF Pick, Typed, WorkerTyped
<1>3. worker'.at = "picked" /\ worker'.run = b /\ \A p \in People : worker'.got[p] = "none"
  BY <1>1 DEF Idle
<1>4. UNCHANGED <<status, target, poisoned, copies, lost, barred>>
  BY DEF Pick, rows, history
<1>5. OwedIsPending' /\ Fresh' /\ Written' /\ GotIsSent'
  BY <1>3 DEF OwedIsPending, Owed, Fresh, Written, GotIsSent
<1>6. \A c \in Runs, p \in People : p \in barred[c] =>
         \/ target[c][p] = "failed"
         \/ target[c][p] = "pending" /\ (c \in poisoned \/ status[c] # "running")
  BY <1>2 DEF Picture, OutOfReach, Unanswered, Shut, Stopping
<1>7. OutOfReach'
  BY <1>1, <1>3, <1>4, <1>6 DEF OutOfReach, Shut
<1>8. RecordsWhatItSends'
  BY <1>2, <1>3, <1>4, IdleIs DEF RecordsWhatItSends, InHand, Picture
<1> QED
  BY <1>5, <1>7, <1>8 DEF Picture

LEMMA LookPicture ==
  ASSUME Typed, Picture, Look
  PROVE  Picture'
<1>1. worker.at = "picked" /\ worker.run \in Runs /\ \A p \in People : worker.got[p] = "none"
  BY DEF Look, Typed, WorkerTyped, Picture, Fresh
<1>2. UNCHANGED <<status, target, poisoned, copies, lost, barred>>
  BY DEF Look, rows, history
<1>4. /\ worker'.run = worker.run /\ worker'.got = worker.got
      /\ worker'.at \in {"finish", "prime", "sending"}
      /\ worker'.at \in {"prime", "sending"} => worker'.batch \subseteq Reachable(worker.run)
  <2>1. CASE worker' = [worker EXCEPT !.at = "finish"]
    BY <2>1, Goes DEF Stages
  <2>2. CASE \E batch \in SUBSET Reachable(worker.run), at \in {"prime", "sending"} :
               worker' = [worker EXCEPT !.batch = batch, !.at = at]
    <3>1. worker \in Worker
      BY DEF Typed, WorkerTyped
    <3> QED
      BY <2>2, <3>1 DEF Worker
  <2>3. \/ worker' = [worker EXCEPT !.at = "finish"]
        \/ \E batch \in SUBSET Reachable(worker.run), at \in {"prime", "sending"} :
             worker' = [worker EXCEPT !.batch = batch, !.at = at]
    BY DEF Look
  <2> QED
    BY <2>1, <2>2, <2>3
<1>5. OwedIsPending' /\ Fresh' /\ Written' /\ GotIsSent'
  BY <1>1, <1>2, <1>4 DEF OwedIsPending, Owed, Fresh, Written, GotIsSent, Reachable
<1>6. OutOfReach'
  BY <1>1, <1>2, <1>4 DEF Picture, OutOfReach, Unanswered, Shut, Stopping
<1>7. RecordsWhatItSends'
  BY <1>1, <1>2, <1>4 DEF RecordsWhatItSends, InHand, Picture
<1> QED
  BY <1>5, <1>6, <1>7 DEF Picture

\* Whoever a message goes to had none, unless that one was lost and nothing bars another.
LEMMA NotTwice ==
  ASSUME Typed, Picture, NEW p \in worker.batch, worker.at \in {"prime", "sending"}
  PROVE  /\ worker.run \in Runs /\ p \in People /\ p \notin barred[worker.run]
         /\ target[worker.run][p] = "pending" /\ worker.got[p] = "none"
         /\ copies[worker.run][p] > 0 => p \in lost[worker.run]
<1>1. worker.run \in Runs /\ p \in People
  BY DEF Typed, WorkerTyped, Worker
<1>2. target[worker.run][p] = "pending" /\ worker.got[p] = "none"
  BY <1>1 DEF Picture, OwedIsPending, Owed, Fresh
<1>3. p \notin barred[worker.run]
  BY <1>1, <1>2 DEF Picture, OutOfReach, Unanswered, Shut
<1> QED
  BY <1>1, <1>2, <1>3 DEF Picture, RecordsWhatItSends, InHand

\* A message to p, whose outcome is g: what the worker holds afterwards.
LEMMA DeliverPicture ==
  ASSUME Typed, Picture, worker.at \in {"prime", "sending"}, NEW p \in worker.batch, NEW g \in Outcome \ {"none"},
         worker'.run = worker.run, worker'.got = [worker.got EXCEPT ![p] = g],
         \/ worker.at = "prime" /\ worker'.at = "primed" /\ worker'.batch = worker.batch
         \/ worker.at = "sending" /\ worker'.at \in {"sending", "halt", "mark"}
            /\ worker'.batch = worker.batch \ {p},
         UNCHANGED <<status, target, poisoned>>,
         \/ g # "sent" /\ UNCHANGED <<copies, lost, barred>>
         \/ /\ worker.at = "sending" /\ g = "failed" /\ Delivers(worker.run, p)
            /\ lost' = [lost EXCEPT ![worker.run] = @ \cup {p}]
            /\ barred' = [barred EXCEPT ![worker.run] = @ \cup {p}]
         \/ g = "sent" /\ Delivers(worker.run, p) /\ UNCHANGED <<lost, barred>>
  PROVE  Picture'
<1>1. /\ worker.run \in Runs /\ p \in People
      /\ target[worker.run][p] = "pending" /\ worker.got[p] = "none"
  BY NotTwice
<1>2. worker.got \in [People -> Outcome] /\ worker.batch \subseteq People
  BY DEF Typed, WorkerTyped, Worker
<1>3. worker'.got[p] = g /\ \A q \in People \ {p} : worker'.got[q] = worker.got[q]
  BY <1>1, <1>2
<1>4. OwedIsPending'
  BY <1>1, <1>3 DEF Picture, OwedIsPending, Owed
<1>5. Fresh'
  BY <1>1, <1>2, <1>3 DEF Picture, Fresh
<1>6. Written'
  BY DEF Written
<1>7. /\ \A b \in Runs, q \in People : copies[b][q] > 0 => copies'[b][q] > 0
      /\ \A b \in Runs, q \in People : b # worker.run \/ q # p => copies'[b][q] = copies[b][q]
      /\ g = "sent" => copies'[worker.run][p] > 0
  <2>1. CASE UNCHANGED copies /\ g # "sent"
    BY <2>1
  <2>2. CASE Delivers(worker.run, p)
    BY <1>1, <2>2 DEF Delivers, Typed, HistoryTyped
  <2> QED
    BY <2>1, <2>2
<1>8. GotIsSent'
  BY <1>1, <1>3, <1>7 DEF Picture, GotIsSent
<1>9. OutOfReach'
  <2> SUFFICES ASSUME NEW b \in Runs, NEW q \in People, q \in barred'[b]
               PROVE  \/ target[b][q] = "failed"
                      \/ target[b][q] = "pending" /\ (Unanswered(b, q)' \/ Shut(b)')
    BY DEF OutOfReach
  <2>1. CASE q \in barred[b]
    <3>1. \/ target[b][q] = "failed"
          \/ target[b][q] = "pending" /\ (Unanswered(b, q) \/ Shut(b))
      BY <2>1 DEF Picture, OutOfReach
    <3>2. Unanswered(b, q) => Unanswered(b, q)'
      BY <1>1, <1>3 DEF Unanswered
    <3>3. Shut(b) => Shut(b)'
      BY DEF Shut, Stopping
    <3> QED
      BY <3>1, <3>2, <3>3
  <2>2. CASE q \notin barred[b]
    <3>1. b = worker.run /\ q = p /\ worker.at = "sending" /\ g = "failed"
      BY <2>2 DEF Typed, HistoryTyped
    <3> QED
      BY <1>1, <1>3, <3>1 DEF Unanswered
  <2> QED
    BY <2>1, <2>2
<1>10. RecordsWhatItSends'
  <2> SUFFICES ASSUME NEW b \in Runs, NEW q \in People
               PROVE  /\ target'[b][q] = "sent" => copies'[b][q] > 0
                      /\ copies'[b][q] > 0 /\ q \notin lost'[b] => target'[b][q] = "sent" \/ InHand(b, q)'
    BY DEF RecordsWhatItSends
  <2>1. /\ lost[b] \subseteq lost'[b]
        /\ UNCHANGED copies \/ g = "sent" \/ p \in lost'[worker.run]
    <3>1. lost \in [Runs -> SUBSET People] /\ p \in People
      BY <1>1 DEF Typed, HistoryTyped
    <3>2. CASE lost' = [lost EXCEPT ![worker.run] = @ \cup {p}]
      BY <1>1, <3>1, <3>2
    <3>3. CASE UNCHANGED lost /\ (UNCHANGED copies \/ g = "sent")
      BY <3>3
    <3> QED
      BY <3>2, <3>3
  <2>2. CASE b = worker.run /\ q = p
    BY <1>1, <1>3, <1>7, <2>1, <2>2 DEF Picture, RecordsWhatItSends, InHand
  <2>3. CASE ~(b = worker.run /\ q = p)
    BY <1>3, <1>7, <2>1, <2>3 DEF Picture, RecordsWhatItSends, InHand
  <2> QED
    BY <2>2, <2>3
<1> QED
  BY <1>4, <1>5, <1>6, <1>8, <1>9, <1>10 DEF Picture

LEMMA PrimePicture ==
  ASSUME Typed, Picture, Prime
  PROVE  Picture'
<1>1. worker.at = "prime" /\ worker \in Worker /\ worker.run \in Runs
  BY DEF Prime, Typed, WorkerTyped
<1>2. UNCHANGED <<status, target, poisoned, lost, barred>>
  BY DEF Prime, rows
<1>3. ASSUME NEW p \in worker.batch, NEW g \in {"sent", "blocked"},
             worker' = [worker EXCEPT !.at = "primed", !.got[p] = g],
             \/ g = "sent" /\ Delivers(worker.run, p)
             \/ g = "blocked" /\ UNCHANGED copies
      PROVE  Picture'
  <2>1. /\ worker'.run = worker.run /\ worker'.got = [worker.got EXCEPT ![p] = g]
        /\ worker'.at = "primed" /\ worker'.batch = worker.batch
    BY <1>1, <1>3 DEF Worker
  <2>2. g \in Outcome \ {"none"}
    BY DEF Outcome
  <2> QED
    BY <1>1, <1>2, <1>3, <2>1, <2>2, DeliverPicture
<1>4. ASSUME worker' = [worker EXCEPT !.at = "pause"], UNCHANGED copies PROVE Picture'
  <2>1. worker'.at = "pause" /\ worker'.run = worker.run /\ worker'.got = worker.got
    BY <1>1, <1>4, Goes DEF Stages
  <2>2. \A p \in People : worker.got[p] = "none"
    BY <1>1 DEF Picture, Fresh
  <2>3. OwedIsPending' /\ Fresh' /\ Written' /\ GotIsSent'
    BY <2>1, <2>2 DEF OwedIsPending, Owed, Fresh, Written, GotIsSent
  <2>4. OutOfReach'
    BY <1>1, <1>2, <2>1 DEF Picture, OutOfReach, Unanswered, Shut, Stopping
  <2>5. RecordsWhatItSends'
    BY <1>2, <1>4, <2>1 DEF Picture, RecordsWhatItSends, InHand
  <2> QED
    BY <2>3, <2>4, <2>5 DEF Picture
<1> QED
  BY <1>3, <1>4 DEF Prime

\* The worker goes idle having changed no run and written no outcome.
LEMMA ReachOfIdle ==
  ASSUME Typed, Picture, worker' = Idle, worker.at \notin {"sending", "halt", "mark", "pause"},
         UNCHANGED <<target, poisoned, barred>>, \A b \in Runs : status'[b] = "running" => status[b] = "running"
  PROVE  OutOfReach'
<1>1. \A b \in Runs : Shut(b) => Shut(b)'
  BY IdleIs, RunsAssumption DEF Shut, Stopping
<1>2. \A b \in Runs, p \in People : ~Unanswered(b, p)
  BY DEF Unanswered
<1> QED
  BY <1>1, <1>2 DEF Picture, OutOfReach

LEMMA PrimeFailsPicture ==
  ASSUME Typed, Picture, PrimeFails
  PROVE  Picture'
<1>1. worker.at = "prime" /\ worker' = Idle
  BY DEF PrimeFails
<1>2. UNCHANGED <<status, target, poisoned, copies, lost, barred>>
  BY DEF PrimeFails, rows, history
<1>3. \A p \in People : worker.got[p] = "none"
  BY <1>1 DEF Picture, Fresh
<1>4. OutOfReach'
  BY <1>1, <1>2, ReachOfIdle
<1> QED
  BY <1>1, <1>2, <1>3, <1>4, PutDown

\* An upload that arrived unanswered: known as lost, and nobody is barred from another.
LEMMA PrimeUnansweredPicture ==
  ASSUME Typed, Picture, PrimeUnanswered
  PROVE  Picture'
<1>1. worker.at = "prime" /\ worker.run \in Runs /\ worker' = Idle
  BY DEF PrimeUnanswered, Typed, WorkerTyped
<1>2. UNCHANGED <<status, target, poisoned, barred>>
  BY DEF PrimeUnanswered, rows
<1>3. PICK p \in worker.batch : /\ Delivers(worker.run, p)
                              /\ lost' = [lost EXCEPT ![worker.run] = @ \cup {p}]
  BY DEF PrimeUnanswered
<1>4. \A q \in People : worker.got[q] = "none"
  BY <1>1 DEF Picture, Fresh
<1>5. OwedIsPending' /\ Fresh' /\ Written' /\ GotIsSent'
  BY <1>1, IdleIs DEF OwedIsPending, Owed, Fresh, Written, GotIsSent
<1>6. OutOfReach'
  BY <1>1, <1>2, ReachOfIdle
<1>7. RecordsWhatItSends'
  <2>1. p \in People
    BY <1>3 DEF Typed, WorkerTyped, Worker
  <2>2. \A b \in Runs, q \in People :
          copies'[b][q] = IF b = worker.run /\ q = p THEN copies[b][q] + 1 ELSE copies[b][q]
    BY <1>1, <1>3, <2>1 DEF Delivers, Typed, HistoryTyped
  <2>3. \A b \in Runs, q \in People : copies[b][q] \in Nat
    BY DEF Typed, HistoryTyped
  <2>4. \A b \in Runs, q \in People : ~InHand(b, q)
    BY <1>4 DEF InHand
  <2> QED
    BY <1>1, <1>2, <1>3, <2>1, <2>2, <2>3, <2>4 DEF Picture, RecordsWhatItSends, Typed, HistoryTyped
<1> QED
  BY <1>5, <1>6, <1>7 DEF Picture

\* Writing down a batch: whoever is sent to is written as such, and nobody else is.
LEMMA MarksPicture ==
  ASSUME Typed, Picture, worker.at \in {"primed", "mark"}, Marks(worker.run), UNCHANGED <<copies, lost>>
  PROVE  /\ \A p \in People : worker.got[p] = "sent" => target'[worker.run][p] = "sent"
         /\ \A p \in People : worker.got[p] = "none" => target'[worker.run][p] = target[worker.run][p]
         /\ \A b \in Runs, p \in People : target'[b][p] = "sent" => copies'[b][p] > 0
         /\ \A b \in Runs, p \in People : copies'[b][p] > 0 /\ p \notin lost[b] => target'[b][p] = "sent"
         /\ \A b \in Runs, p \in People : p \in barred[b] /\ ~Shut(b) => target'[b][p] = "failed"
<1>1. worker.run \in Runs
  BY DEF Typed, WorkerTyped
<1>2. /\ \A p \in People : target'[worker.run][p] = IF worker.got[p] = "none" THEN target[worker.run][p]
                                                    ELSE Recorded(worker.got[p])
      /\ \A b \in Runs \ {worker.run} : target'[b] = target[b]
  BY <1>1 DEF Marks, Typed, RowsTyped
<1>3. \A p \in People : worker.got[p] # "none" => target[worker.run][p] = "pending"
  BY DEF Picture, OwedIsPending, Owed
<1>4. \A p \in People : worker.got[p] # "none" => (Recorded(worker.got[p]) = "sent" <=> worker.got[p] = "sent")
  BY DEF Recorded
<1>5. ASSUME NEW b \in Runs, NEW p \in People, target'[b][p] = "sent" PROVE copies'[b][p] > 0
  BY <1>2, <1>4, <1>5 DEF Picture, RecordsWhatItSends, GotIsSent
<1>6. ASSUME NEW b \in Runs, NEW p \in People, copies'[b][p] > 0, p \notin lost[b] PROVE target'[b][p] = "sent"
  <2>1. target[b][p] = "sent" \/ InHand(b, p)
    BY <1>6 DEF Picture, RecordsWhatItSends
  <2> QED
    BY <1>2, <1>3, <1>4, <2>1 DEF InHand
<1>7. ASSUME NEW b \in Runs, NEW p \in People, p \in barred[b], ~Shut(b) PROVE target'[b][p] = "failed"
  <2>1. target[b][p] = "failed" \/ Unanswered(b, p)
    BY <1>7 DEF Picture, OutOfReach
  <2>2. CASE Unanswered(b, p)
    BY <1>2, <2>2 DEF Unanswered, Recorded
  <2>3. CASE target[b][p] = "failed"
    BY <1>2, <1>3, <2>3
  <2> QED
    BY <2>1, <2>2, <2>3
<1> QED
  BY <1>2, <1>4, <1>5, <1>6, <1>7

\* A batch that cannot be written down: its run has lost track, and is to be stopped.
LEMMA LosesPicture ==
  ASSUME Typed, Picture, worker.at \in {"primed", "mark"}, worker' = [worker EXCEPT !.at = "pause"],
         LosesTrack, poisoned \subseteq poisoned', UNCHANGED <<status, target, copies>>
  PROVE  Picture'
<1>1. worker'.at = "pause" /\ worker'.run = worker.run /\ worker'.got = worker.got
  BY Goes DEF Stages
<1>2. /\ worker.run \in Runs
      /\ \A b \in Runs : lost'[b] = IF b = worker.run THEN lost[b] \cup Unwritten ELSE lost[b]
      /\ \A b \in Runs : barred'[b] = IF b = worker.run THEN barred[b] \cup Unwritten ELSE barred[b]
  <2>1. worker.run \in Runs
    BY DEF Typed, WorkerTyped
  <2>2. DOMAIN lost = Runs /\ DOMAIN barred = Runs
    BY DEF Typed, HistoryTyped
  <2> QED
    BY <2>1, <2>2 DEF LosesTrack
<1>3. OwedIsPending' /\ Fresh' /\ GotIsSent'
  BY <1>1 DEF Picture, OwedIsPending, Owed, Fresh, GotIsSent
<1>4. Written'
  <2>1. \A p \in People : worker.got[p] = "sent" =>
            target[worker.run][p] = "sent" \/ p \in lost'[worker.run]
    BY <1>2 DEF Unwritten
  <2> QED
    BY <1>1, <2>1 DEF Written
<1>5. OutOfReach'
  <2> SUFFICES ASSUME NEW b \in Runs, NEW p \in People, p \in barred'[b]
               PROVE  \/ target[b][p] = "failed"
                      \/ target[b][p] = "pending" /\ Shut(b)'
    BY DEF OutOfReach
  <2>1. Shut(worker.run)'
    BY <1>1 DEF Shut, Stopping
  <2>2. CASE b = worker.run /\ p \in Unwritten
    <3>1. b = worker.run /\ worker.got[p] = "sent"
      BY <2>2 DEF Unwritten
    <3>2. target[b][p] = "pending"
      BY <3>1 DEF Picture, OwedIsPending, Owed
    <3> QED
      BY <2>1, <3>1, <3>2
  <2>3. CASE p \in barred[b]
    <3>1. target[b][p] = "failed" \/ (target[b][p] = "pending" /\ (b = worker.run \/ Shut(b)))
      BY <2>3 DEF Picture, OutOfReach, Unanswered
    <3>2. Shut(b) /\ b # worker.run => Shut(b)'
      BY <1>1 DEF Shut, Stopping
    <3> QED
      BY <2>1, <3>1, <3>2
  <2> QED
    BY <1>2, <2>2, <2>3
<1>6. RecordsWhatItSends'
  <2>1. \A b \in Runs : lost[b] \subseteq lost'[b]
    BY <1>2
  <2>2. \A b \in Runs, p \in People : InHand(b, p) => InHand(b, p)'
    BY <1>1 DEF InHand
  <2> QED
    BY <2>1, <2>2 DEF Picture, RecordsWhatItSends
<1> QED
  BY <1>3, <1>4, <1>5, <1>6 DEF Picture

LEMMA RecordPicture ==
  ASSUME Typed, Picture, RecordPrime \/ Mark
  PROVE  Picture'
<1>1. worker.at \in {"primed", "mark"} /\ worker.run \in Runs
  BY DEF RecordPrime, Mark, Typed, WorkerTyped
<1>2. status' = status /\ copies' = copies
  BY DEF RecordPrime, Mark
<1>3. CASE /\ Marks(worker.run) /\ UNCHANGED <<lost, barred, poisoned>>
           /\ worker' = Idle \/ (worker.at = "primed" /\ worker' = [worker EXCEPT !.at = "cache"])
  <2>1. \A b \in Runs, p \in People : target'[b][p] = target[b][p] \/ (b = worker.run /\ target[b][p] = "pending")
    <3>1. \A p \in People : worker.got[p] # "none" => target[worker.run][p] = "pending"
      BY <1>1 DEF Picture, OwedIsPending, Owed
    <3> QED
      BY <1>1, <1>3, <3>1 DEF Marks, Typed, RowsTyped
  <2>2. RecordsWhatItSends'
    BY <1>1, <1>2, <1>3, MarksPicture DEF RecordsWhatItSends
  <2>3. OutOfReach'
    <3>1. \A b \in Runs : Shut(b) => Shut(b)' /\ b # worker.run
      <4>1. worker'.run = None \/ (worker'.run = worker.run /\ worker'.at = "cache")
        BY <1>3, IdleIs, Goes DEF Stages
      <4> QED
        BY <1>1, <1>2, <1>3, <4>1, RunsAssumption DEF Shut, Stopping
    <3> SUFFICES ASSUME NEW b \in Runs, NEW p \in People, p \in barred[b]
                 PROVE  target'[b][p] = "failed" \/ (target'[b][p] = "pending" /\ Shut(b)')
      BY <1>3 DEF OutOfReach
    <3>2. CASE Shut(b)
      <4>1. target'[b][p] = target[b][p]
        BY <2>1, <3>1, <3>2
      <4> QED
        BY <3>1, <3>2, <4>1, BarredIs
    <3> QED
      BY <1>1, <1>2, <1>3, <3>2, MarksPicture
  <2>4. CASE worker' = Idle
    <3>1. OwedIsPending' /\ Fresh' /\ Written' /\ GotIsSent'
      BY <2>4, IdleIs DEF OwedIsPending, Owed, Fresh, Written, GotIsSent
    <3> QED
      BY <2>2, <2>3, <3>1 DEF Picture
  <2>5. CASE worker.at = "primed" /\ worker' = [worker EXCEPT !.at = "cache"]
    <3>1. /\ worker'.at = "cache" /\ worker'.run = worker.run /\ worker'.got = worker.got
          /\ worker'.batch = worker.batch
      BY <2>5, Goes DEF Stages
    <3>2. OwedIsPending'
      BY <1>1, <1>2, <1>3, <2>5, <3>1, MarksPicture DEF Picture, OwedIsPending, Owed
    <3>3. Fresh' /\ GotIsSent'
      BY <1>2, <3>1 DEF Picture, Fresh, GotIsSent
    <3>4. Written'
      BY <1>1, <1>2, <1>3, <3>1, MarksPicture DEF Written
    <3> QED
      BY <2>2, <2>3, <3>2, <3>3, <3>4 DEF Picture
  <2> QED
    BY <1>3, <2>4, <2>5
<1>4. CASE /\ LosesTrack /\ worker' = [worker EXCEPT !.at = "pause"]
           /\ poisoned \subseteq poisoned' /\ UNCHANGED target
  BY <1>1, <1>2, <1>4, LosesPicture
<1> QED
  BY <1>3, <1>4 DEF RecordPrime, Mark

LEMMA SendPicture ==
  ASSUME Typed, Picture, NEW p \in People, Send(p) \/ SendUnanswered(p)
  PROVE  Picture'
<1>1. worker.at = "sending" /\ p \in worker.batch /\ worker \in Worker
  BY DEF Send, SendUnanswered, Typed, WorkerTyped
<1>2. UNCHANGED <<status, target, poisoned>>
  BY DEF Send, SendUnanswered, rows
<1>3. PICK g \in Outcome \ {"none"} :
        /\ Answers(p, g)
        /\ \/ g # "sent" /\ UNCHANGED <<copies, lost, barred>>
           \/ /\ g = "failed" /\ Delivers(worker.run, p)
              /\ lost' = [lost EXCEPT ![worker.run] = @ \cup {p}]
            /\ barred' = [barred EXCEPT ![worker.run] = @ \cup {p}]
           \/ g = "sent" /\ Delivers(worker.run, p) /\ UNCHANGED <<lost, barred>>
  BY DEF Send, SendUnanswered, Outcome
<1>4. /\ worker'.run = worker.run /\ worker'.got = [worker.got EXCEPT ![p] = g]
      /\ worker'.at \in {"sending", "halt", "mark"} /\ worker'.batch = worker.batch \ {p}
  BY <1>1, <1>3 DEF Answers, Worker
<1> QED
  BY <1>1, <1>2, <1>3, <1>4, DeliverPicture

LEMMA CachePicture ==
  ASSUME Typed, Picture, Cache
  PROVE  Picture'
<1>1. worker.at = "cache" /\ worker \in Worker /\ worker.run \in Runs
  BY DEF Cache, Typed, WorkerTyped
<1>2. UNCHANGED <<status, target, poisoned, copies, lost, barred>>
  BY DEF Cache, history
<1>3. ASSUME NEW b \in Runs, NEW p \in People, copies[b][p] > 0, p \notin lost[b] PROVE target[b][p] = "sent"
  BY <1>1, <1>3 DEF Picture, RecordsWhatItSends, InHand, Written
<1>4. RecordsWhatItSends'
  BY <1>2, <1>3 DEF Picture, RecordsWhatItSends
<1>5. CASE worker' = Idle
  <2>1. OwedIsPending' /\ Fresh' /\ Written' /\ GotIsSent'
    BY <1>5, IdleIs DEF OwedIsPending, Owed, Fresh, Written, GotIsSent
  <2>2. OutOfReach'
    BY <1>1, <1>2, <1>5, ReachOfIdle
  <2> QED
    BY <1>4, <2>1, <2>2 DEF Picture
<1>6. CASE worker' = [Idle EXCEPT !.at = "sending", !.run = worker.run,
                                  !.batch = {p \in worker.batch : worker.got[p] = "none"}]
  <2>1. /\ worker'.at = "sending" /\ worker'.run = worker.run
        /\ worker'.batch = {p \in worker.batch : worker.got[p] = "none"}
        /\ \A p \in People : worker'.got[p] = "none"
    BY <1>6 DEF Idle
  <2>2. OwedIsPending'
    BY <1>1, <1>2, <2>1 DEF Picture, OwedIsPending, Owed
  <2>3. Fresh' /\ Written' /\ GotIsSent'
    BY <1>1, <2>1 DEF Fresh, Written, GotIsSent, Worker
  <2>4. OutOfReach'
    BY <1>1, <1>2, <2>1 DEF Picture, OutOfReach, Unanswered, Shut, Stopping
  <2> QED
    BY <1>4, <2>2, <2>3, <2>4 DEF Picture
<1>7. CASE worker' = [worker EXCEPT !.at = "pause"]
  <2>1. worker'.at = "pause" /\ worker'.run = worker.run /\ worker'.got = worker.got
    BY <1>7, Goes DEF Stages
  <2>2. OwedIsPending' /\ Fresh' /\ GotIsSent'
    BY <1>2, <2>1 DEF Picture, OwedIsPending, Owed, Fresh, GotIsSent
  <2>3. Written'
    BY <1>1, <1>2, <2>1 DEF Picture, Written
  <2>4. OutOfReach'
    BY <1>1, <1>2, <2>1 DEF Picture, OutOfReach, Unanswered, Shut, Stopping
  <2> QED
    BY <1>4, <2>2, <2>3, <2>4 DEF Picture
<1> QED
  BY <1>5, <1>6, <1>7 DEF Cache

LEMMA PausePicture ==
  ASSUME Typed, Picture, Pause
  PROVE  Picture'
<1>1. worker.at \in {"halt", "pause"} /\ worker.run \in Runs
  BY DEF Pause, Typed, WorkerTyped
<1>2. UNCHANGED <<target, poisoned, copies, lost>>
  BY DEF Pause
<1>3. (\A b \in Runs : barred'[b] \subseteq barred[b]) /\ worker'.at # "pause"
  <2>1. worker'.at # "pause"
    BY <1>1, IdleIs, Goes DEF Pause, Stages
  <2>2. UNCHANGED barred \/ LetsGo(worker.run)
    BY DEF Pause
  <2>3. DOMAIN barred = Runs
    BY DEF Typed, HistoryTyped
  <2> QED
    BY <1>1, <2>1, <2>2, <2>3 DEF LetsGo, StillBarred
<1>4. \A b \in Runs, p \in People : p \in barred'[b] /\ target[b][p] = "pending" /\ Shut(b) =>
         (b \in poisoned \/ status'[b] # "running") /\ b # worker'.run
  <2>1. \A b \in Runs : Shut(b) => b # worker'.run
    <3>1. CASE worker.at = "halt"
      BY <1>1, <3>1, Goes DEF Pause, Stages, Shut
    <3>2. CASE worker.at = "pause"
      BY <3>2, IdleIs, RunsAssumption DEF Pause
    <3> QED
      BY <1>1, <3>1, <3>2
  <2>2. CASE Moves(worker.run, "running", "paused") /\ barred' = barred
    <3>1. \A b \in Runs : status'[b] = "running" => status[b] = "running" /\ b # worker.run
      BY <1>1, <2>2 DEF Moves, Typed, RowsTyped
    <3> QED
      BY <2>1, <3>1 DEF Shut, Stopping
  <2>3. CASE (IF worker.run \in poisoned THEN UNCHANGED barred ELSE LetsGo(worker.run)) /\ status' = status
    BY <1>1, <2>1, <2>3 DEF LetsGo, StillBarred, Shut, Stopping, Typed, HistoryTyped
  <2> QED
    BY <2>2, <2>3 DEF Pause
<1>5. CASE worker.at = "pause"
  <2>1. worker' = Idle
    BY <1>5 DEF Pause
  <2>2. OutOfReach'
    BY <1>2, <1>3, <1>4, <1>5 DEF Picture, OutOfReach, Unanswered, Shut
  <2>3. \A p \in People : worker.got[p] = "sent" => target[worker.run][p] = "sent" \/ p \in lost[worker.run]
    BY <1>5 DEF Picture, Written
  <2> QED
    BY <1>2, <2>1, <2>2, <2>3, PutDown
<1>6. CASE worker.at = "halt"
  <2>1. worker' = [worker EXCEPT !.at = "mark"]
    BY <1>6 DEF Pause
  <2>2. /\ worker'.at = "mark" /\ worker'.run = worker.run /\ worker'.got = worker.got
        /\ worker'.batch = worker.batch
    BY <2>1, Goes DEF Stages
  <2>3. OwedIsPending' /\ Fresh' /\ Written' /\ GotIsSent'
    BY <1>2, <1>6, <2>2 DEF Picture, OwedIsPending, Owed, Fresh, Written, GotIsSent
  <2>4. OutOfReach'
    BY <1>2, <1>3, <1>4, <2>2 DEF Picture, OutOfReach, Unanswered, Shut
  <2>5. RecordsWhatItSends'
    BY <1>2, <2>2 DEF Picture, RecordsWhatItSends, InHand
  <2> QED
    BY <2>3, <2>4, <2>5 DEF Picture
<1> QED
  BY <1>1, <1>5, <1>6

LEMMA FinishPicture ==
  ASSUME Typed, Picture, Finish
  PROVE  Picture'
<1>1. worker.at = "finish" /\ worker.run \in Runs /\ \A p \in People : worker.got[p] = "none"
  BY DEF Finish, Typed, WorkerTyped, Picture, Fresh
<1>2. worker'.at = "close" /\ worker'.run = worker.run /\ worker'.got = worker.got
  BY Goes DEF Finish, Stages
<1>3. UNCHANGED <<status, poisoned, copies, lost, barred>>
  BY DEF Finish
<1>4. \A b \in Runs, p \in People : target'[b][p] = "sent" <=> target[b][p] = "sent"
  BY <1>1 DEF Finish, Typed, RowsTyped
<1>5. OwedIsPending' /\ Fresh' /\ Written' /\ GotIsSent'
  BY <1>1, <1>2 DEF OwedIsPending, Owed, Fresh, Written, GotIsSent
<1>6. OutOfReach'
  <2>1. \A b \in Runs, p \in People : target'[b][p] = target[b][p] \/ (b = worker.run /\ target[b][p] = "pending")
    BY <1>1 DEF Finish, Typed, RowsTyped
  <2>2. \A b \in Runs : Shut(b) => b # worker.run /\ Shut(b)'
    BY <1>1, <1>2, <1>3 DEF Shut, Stopping
  <2> QED
    BY <1>1, <1>3, <2>1, <2>2 DEF Picture, OutOfReach, Unanswered
<1>7. RecordsWhatItSends'
  BY <1>2, <1>3, <1>4 DEF Picture, RecordsWhatItSends, InHand
<1> QED
  BY <1>5, <1>6, <1>7 DEF Picture

LEMMA ClosePicture ==
  ASSUME Typed, Picture, Close
  PROVE  Picture'
<1>1. worker.at = "close" /\ worker.run \in Runs /\ worker' = Idle
  BY DEF Close, Typed, WorkerTyped
<1>2. UNCHANGED <<target, poisoned, copies, lost, barred>>
  BY DEF Close, history
<1>3. \A p \in People : worker.got[p] = "none"
  BY <1>1 DEF Picture, Fresh
<1>4. \A b \in Runs : status'[b] = "running" => status[b] = "running"
  BY <1>1 DEF Close, Moves, Typed, RowsTyped
<1>5. OutOfReach'
  BY <1>1, <1>2, <1>4, ReachOfIdle
<1> QED
  BY <1>1, <1>2, <1>3, <1>5, PutDown

LEMMA NextPicture == Typed /\ Picture /\ [Next]_vars => Picture'
  BY StartingPicture, OthersPicture, RestartPicture, PickPicture, LookPicture, PrimePicture, PrimeFailsPicture, PrimeUnansweredPicture,
     RecordPicture, SendPicture, CachePicture, PausePicture, FinishPicture, ClosePicture DEF Next, Working

LEMMA PictureAlways == Spec => [](Typed /\ Picture)
<1>1. Typed /\ Picture /\ [Next]_vars => (Typed /\ Picture)'
  BY NextTyped, NextPicture
<1> QED
  BY <1>1, InitTyped, InitPicture, PTL DEF Spec

\* RecordsWhatItSends: whatever restarts and failures there are, only the batch in hand and
\* the messages whose record or answer was lost differ from what is written of them.
THEOREM SentIsRecorded == Spec => []RecordsWhatItSends
<1>1. Picture => RecordsWhatItSends
  BY DEF Picture
<1> QED
  BY <1>1, PictureAlways, PTL

\* NoSilentRepeat: a second copy to a person takes an earlier one whose record was lost and a
\* restart, the end of the quarantine, a failed pause or an operator since; or a retry of one
\* whose answer was lost; or an attachment whose upload was never answered (primeMedia).
THEOREM RepeatsHaveACause == Spec => NoSilentRepeat
<1> DEFINE Repeats == \A b \in Runs, p \in People :
                        copies'[b][p] > copies[b][p] /\ copies[b][p] > 0 => p \in lost[b] \ barred[b]
<1>1. ASSUME Typed, Picture, [Next]_vars PROVE Repeats
  <2>1. ASSUME NEW q \in worker.batch, worker.at \in {"prime", "sending"}, Delivers(worker.run, q) PROVE Repeats
    <3>1. /\ worker.run \in Runs /\ q \in People /\ q \notin barred[worker.run]
          /\ copies[worker.run][q] > 0 => q \in lost[worker.run]
      BY <1>1, <2>1, NotTwice
    <3>2. \A b \in Runs, p \in People :
            copies'[b][p] = IF b = worker.run /\ p = q THEN copies[b][p] + 1 ELSE copies[b][p]
      BY <1>1, <2>1, <3>1 DEF Delivers, Typed, HistoryTyped
    <3>3. \A b \in Runs, p \in People : copies[b][p] \in Nat
      BY <1>1 DEF Typed, HistoryTyped
    <3> QED
      BY <3>1, <3>2, <3>3
  <2>2. CASE UNCHANGED copies
    <3>1. \A b \in Runs, p \in People : copies[b][p] \in Nat
      BY <1>1 DEF Typed, HistoryTyped
    <3> QED
      BY <2>2, <3>1
  <2>3. \/ UNCHANGED copies
        \/ /\ worker.at \in {"prime", "sending"}
           /\ \E q \in worker.batch : Delivers(worker.run, q)
    BY <1>1 DEF Next, Create, Claim, Starting, Retry, List, NoAudience, ListFails, SaveMedia, SaveLater, Start, StartFails, CloseEmpty,
                Abandon, CancelStart, QuarantineEnds, Ask, Write, OptOut, Working, Pick, Look, Prime, PrimeFails, PrimeUnanswered,
                RecordPrime, Cache, Send, SendUnanswered, Mark, Pause, Finish, Close, Sweep, Restart, vars, history
  <2> QED
    BY <2>1, <2>2, <2>3
<1>2. Typed /\ Picture /\ [Next]_vars => [Repeats]_vars
  BY <1>1
<1> QED
  BY <1>2, PictureAlways, PTL DEF Spec, NoSilentRepeat

-----------------------------------------------------------------------------
(* The life of a broadcast *)

Queued(b) == \E p \in People : target[b][p] = "pending"

\* Not begun, or on its way to its start.
Early(b) == status[b] \in {"none", "scheduled"} \/ start[b] \in {"claimed", "listed"}

Begins(b) ==
    /\ Early(b) => worker.run # b /\ announced[b] = 0
    /\ start[b] \in {"claimed", "listed"} => status[b] \in {"paused", "cancelled"}
    /\ start[b] = "empty" => /\ Empty(b) /\ status[b] \in {"running", "done", "cancelled"}
                             /\ worker.run = b => worker.at \in {"picked", "finish", "close"}
    /\ announced[b] <= 1

Ends(b) ==
    /\ status[b] = "done" => ~Queued(b)
    /\ status[b] = "done" /\ worker.run = b => Empty(b)
    /\ worker.run = b /\ worker.at = "finish" => \A p \in People : target[b][p] = "pending" => p \in left
    /\ worker.run = b /\ worker.at = "close" => ~Queued(b)
    /\ \A p \in People : target[b][p] = "skipped" => p \in left

Life(b) == Begins(b) /\ Ends(b)

LeftKnown == \A p \in People : ~listens[p] => p \in left
AskedOfOne == \A o \in Operators : request[o] # None => status[request[o].run] # "none"

Lifecycle == LeftKnown /\ AskedOfOne /\ \A b \in Runs \ spoilt : Life(b)

LEMMA InitLifecycle == Init => Lifecycle
BY RunsAssumption DEF Init, Lifecycle, LeftKnown, AskedOfOne, Life, Begins, Ends, Early, Queued, Empty, Idle

\* A step that does not touch a broadcast.
Untouched(b) ==
    /\ status'[b] = status[b] /\ start'[b] = start[b]
    /\ target'[b] = target[b] /\ announced'[b] = announced[b]

LEMMA Elsewhere ==
  ASSUME NEW b \in Runs, Life(b), Untouched(b), left \subseteq left',
         worker'.run = b => worker'.run = worker.run /\ worker'.at = worker.at
  PROVE  Life(b)'
<1>1. Begins(b)'
  BY DEF Life, Begins, Early, Empty, Untouched
<1>2. Ends(b)'
  BY DEF Life, Ends, Queued, Empty, Untouched
<1> QED
  BY <1>1, <1>2 DEF Life

LEMMA StartingLife ==
  ASSUME Typed, Picture, Lifecycle, NEW c \in Runs, Create(c) \/ Claim(c) \/ Starting(c) \/ Retry(c)
  PROVE  \A b \in Runs \ spoilt' : Life(b)'
<1>1. UNCHANGED <<worker, left>> /\ spoilt \subseteq spoilt'
  BY DEF Create, Claim, Starting, Retry, List, NoAudience, ListFails, SaveMedia, SaveLater, Start, StartFails, CloseEmpty, Abandon,
         CancelStart, sending, history
<1>2. SUFFICES ASSUME NEW b \in Runs \ spoilt' PROVE Life(b)'
  OBVIOUS
<1>3. Life(b)
  BY <1>1 DEF Lifecycle
<1>4. CASE b # c
  <2>1. status'[b] = status[b] /\ start'[b] = start[b] /\ announced'[b] = announced[b]
    BY <1>4 DEF Create, Claim, Starting, Retry, List, NoAudience, ListFails, SaveMedia, SaveLater, Start,
                StartFails, CloseEmpty, Abandon, CancelStart, Reverts, Moves, rows, starting,
                Typed, RowsTyped, StartTyped
  <2>2. ASSUME NEW who, Adds(c, who) PROVE target'[b] = target[b]
    BY <1>4, <2>2 DEF Adds, Typed, RowsTyped
  <2>3. target'[b] = target[b]
    BY <1>4, <2>2 DEF Create, Claim, Starting, Retry, List, NoAudience, ListFails, SaveMedia, SaveLater, Start,
                      StartFails, CloseEmpty, Abandon, CancelStart, Lists, rows, Typed, RowsTyped
  <2> QED
    BY <1>1, <1>3, <2>1, <2>3, Elsewhere DEF Untouched
<1>5. ASSUME b = c, Create(b) PROVE Life(b)'
  <2>1. /\ status[b] = "none" /\ UNCHANGED <<target, announced>>
        /\ \/ status'[b] = "scheduled" /\ start'[b] = "no"
           \/ status'[b] = "paused" /\ start'[b] = "claimed"
    BY <1>5 DEF Create, Typed, RowsTyped, StartTyped
  <2> QED
    BY <1>1, <1>3, <2>1 DEF Life, Begins, Ends, Early, Queued, Empty
<1>6. ASSUME b = c, Claim(b) PROVE Life(b)'
  <2>1. /\ status[b] = "scheduled" /\ status'[b] = "paused" /\ start'[b] = "claimed"
        /\ UNCHANGED <<target, announced>>
    BY <1>6 DEF Claim, Moves, Typed, RowsTyped, StartTyped
  <2> QED
    BY <1>1, <1>3, <2>1 DEF Life, Begins, Ends, Early, Queued, Empty
<1>7. ASSUME b = c, List(b) \/ ListFails(b) PROVE Life(b)'
  <2>1. /\ start[b] = "claimed" /\ start'[b] \in {"no", "listed"} /\ announced' = announced
        /\ start'[b] = "listed" => status'[b] = status[b]
        /\ status'[b] \in {status[b], "scheduled"}
        /\ status[b] \in {"paused", "cancelled"}
    BY <1>3, <1>7 DEF List, ListFails, Reverts, Moves, Typed, RowsTyped, StartTyped, Life, Begins
  <2>2. \A p \in People : target'[b][p] = target[b][p] \/ target'[b][p] = "pending"
    BY <1>7 DEF List, ListFails, Lists, Adds, Typed, RowsTyped
  <2> QED
    BY <1>1, <1>3, <2>1, <2>2 DEF Life, Begins, Ends, Early, Queued, Empty
<1>8. ASSUME b = c, NoAudience(b) \/ SaveMedia(b) \/ SaveLater(b) \/ Abandon(b) PROVE Life(b)'
  <2>1. /\ UNCHANGED <<status, target, announced>>
        /\ \/ start[b] = "claimed" /\ start'[b] = "abandon"
           \/ start[b] = "listed" /\ start'[b] = "abandon"
           \/ start[b] = "abandon" /\ start'[b] \in {"no", "cancel"}
           \/ start'[b] = start[b]
    BY <1>8 DEF NoAudience, SaveMedia, SaveLater, Abandon, rows, Typed, RowsTyped, StartTyped
  <2> QED
    BY <1>1, <1>3, <2>1 DEF Life, Begins, Ends, Early, Queued, Empty
<1>9. ASSUME b = c, StartFails(b) PROVE Life(b)'
  <2>1. start[b] = "listed" /\ status[b] \in {"paused", "cancelled"}
    BY <1>3, <1>9 DEF StartFails, Ready, Life, Begins
  <2>2. /\ start'[b] \in {"no", "abandon"} /\ UNCHANGED <<target, announced>>
        /\ status'[b] \in {status[b], "scheduled", "running"}
    BY <1>9, <2>1 DEF StartFails, Reverts, Moves, Typed, RowsTyped, StartTyped
  <2> QED
    BY <1>1, <1>3, <2>1, <2>2 DEF Life, Begins, Ends, Early, Queued, Empty
<1>10. ASSUME b = c, Start(b) PROVE Life(b)'
  <2>1. start[b] = "listed" /\ status[b] \in {"paused", "cancelled"}
    BY <1>3, <1>10 DEF Start, Ready, Life, Begins
  <2>2. /\ target' = target /\ announced'[b] \in {announced[b], announced[b] + 1}
        /\ \/ status'[b] = "running" /\ start'[b] = (IF Empty(b) THEN "empty" ELSE "no")
           \/ status'[b] = "cancelled" /\ start'[b] = "no"
    BY <1>10, <2>1 DEF Start, Moves, Typed, RowsTyped, StartTyped
  <2> QED
    BY <1>1, <1>3, <2>1, <2>2 DEF Life, Begins, Ends, Early, Queued, Empty
<1>11. ASSUME b = c, CloseEmpty(b) PROVE Life(b)'
  <2>1. start[b] = "empty" /\ Empty(b) /\ status[b] \in {"running", "done", "cancelled"}
    BY <1>3, <1>11 DEF CloseEmpty, Life, Begins
  <2>2. /\ status'[b] \in {status[b], "done"} /\ start'[b] \in {"no", "abandon"}
        /\ UNCHANGED <<target, announced>>
    BY <1>11, <2>1 DEF CloseEmpty, Reverts, Moves, Typed, RowsTyped, StartTyped
  <2> QED
    BY <1>1, <1>3, <2>1, <2>2 DEF Life, Begins, Ends, Early, Queued, Empty
<1>12. ASSUME b = c, CancelStart(b) PROVE Life(b)'
  <2>1. /\ status'[b] \in {status[b], "cancelled"} /\ UNCHANGED <<target, announced>>
        /\ start'[b] = start[b] \/ (start[b] = "cancel" /\ start'[b] = "no")
    BY <1>12 DEF CancelStart, Typed, RowsTyped, StartTyped
  <2> QED
    BY <1>1, <1>3, <2>1 DEF Life, Begins, Ends, Early, Queued, Empty
<1>13. ASSUME b = c, Retry(b) PROVE Life(b)'
  <2>1. /\ status[b] = "done" /\ status'[b] = "running" /\ ~Empty(b)
        /\ UNCHANGED <<start, later, media, file, announced>>
    BY <1>13 DEF Retry, Empty, starting, Typed, RowsTyped
  <2>2. \A p \in People : target'[b][p] = "skipped" => target[b][p] = "skipped"
    BY <1>13 DEF Retry, Typed, RowsTyped
  <2>3. worker.run # b
    BY <1>3, <2>1 DEF Life, Ends
  <2> QED
    BY <1>1, <1>3, <2>1, <2>2, <2>3 DEF Life, Begins, Ends, Early
<1> QED
  BY <1>4, <1>5, <1>6, <1>7, <1>8, <1>9, <1>10, <1>11, <1>12, <1>13 DEF Starting

LEMMA OthersLife ==
  ASSUME Typed, Picture, Lifecycle,
         \/ \E o \in Operators : Ask(o) \/ Write(o)
         \/ \E p \in People : OptOut(p)
         \/ \E b \in Runs : QuarantineEnds(b)
         \/ Sweep \/ Restart \/ UNCHANGED vars
  PROVE  \A b \in Runs \ spoilt' : Life(b)'
<1>1. left \subseteq left' /\ spoilt \subseteq spoilt' /\ (worker' = worker \/ worker' = Idle)
  BY DEF Ask, Write, OptOut, QuarantineEnds, Sweep, Restart, sending, history, vars
<1>2. SUFFICES ASSUME NEW b \in Runs \ spoilt' PROVE Life(b)'
  OBVIOUS
<1>3. Life(b)
  BY <1>1 DEF Lifecycle
<1>4. worker'.run = b => worker'.run = worker.run /\ worker'.at = worker.at
  BY <1>1, IdleIs, RunsAssumption
<1>5. ASSUME NEW o \in Operators, Write(o) PROVE Life(b)'
  <2>1. request[o] # None /\ request[o].to \in {"paused", "running", "cancelled"} /\ request[o].run \in Runs
    BY <1>5 DEF Write, Typed, AsksTyped
  <2>2. CASE request[o].run # b
    <3>1. Untouched(b)
      BY <1>5, <2>2 DEF Write, Untouched, starting, Typed, RowsTyped
    <3> QED
      BY <1>1, <1>3, <1>4, <3>1, Elsewhere
  <2>3. CASE request[o].run = b
    <3>1. status[b] # "none" /\ start[b] = "no"
      BY <1>5, <2>1, <2>3 DEF Write, Lifecycle, AskedOfOne
    <3>2. /\ status'[b] \in {"paused", "running", "cancelled"}
          /\ UNCHANGED <<start, target, later, media, file, announced, worker, left>>
      BY <1>5, <2>1, <2>3 DEF Write, starting, sending, Typed, RowsTyped
    <3> QED
      BY <1>3, <3>1, <3>2 DEF Life, Begins, Ends, Early, Queued, Empty
  <2> QED
    BY <2>2, <2>3
<1>6. CASE Sweep
  <2>1. Untouched(b) /\ UNCHANGED <<worker, left>>
    BY <1>6 DEF Sweep, Untouched, starting, sending, history
  <2> QED
    BY <1>1, <1>3, <2>1, Elsewhere
<1>7. CASE Restart
  <2>1. start'[b] = "no" /\ UNCHANGED <<status, target, announced>> /\ worker'.run # b
    BY <1>7, IdleIs, RunsAssumption DEF Restart, rows
  <2> QED
    BY <1>1, <1>3, <2>1 DEF Life, Begins, Ends, Early, Queued, Empty
<1>8. CASE \/ \E o \in Operators : Ask(o)
           \/ \E p \in People : OptOut(p)
           \/ \E c \in Runs : QuarantineEnds(c)
           \/ UNCHANGED vars
  <2>1. Untouched(b)
    BY <1>8 DEF Ask, OptOut, QuarantineEnds, Untouched, rows, starting, vars
  <2> QED
    BY <1>1, <1>3, <1>4, <2>1, Elsewhere
<1> QED
  BY <1>5, <1>6, <1>7, <1>8

\* A step of the worker that leaves the rows alone, for a run it does not work on.
LEMMA WorkerElsewhere ==
  ASSUME Typed, Lifecycle, Working, NEW b \in Runs \ spoilt', worker.run # b,
         ~ (Pick /\ worker'.run = b)
  PROVE  Life(b)'
<1>1. spoilt \subseteq spoilt' /\ left \subseteq left'
  BY DEF Working, Pick, Look, Prime, PrimeFails, PrimeUnanswered, RecordPrime, Cache, Send, SendUnanswered, Mark, Pause, Finish,
         Close, Blocks, history
<1>2. Life(b)
  BY <1>1 DEF Lifecycle
<1>3. worker'.run # b
  <2>1. CASE worker' = Idle
    BY <2>1, IdleIs, RunsAssumption
  <2>2. CASE worker'.run = worker.run
    BY <2>2
  <2>3. ASSUME NEW p \in People, Send(p) \/ SendUnanswered(p) PROVE worker'.run = worker.run
    BY <2>3 DEF Send, SendUnanswered, Answers, Typed, WorkerTyped, Worker
  <2>4. CASE Prime \/ Look
    BY <2>4 DEF Prime, Look, Typed, WorkerTyped, Worker
  <2>5. CASE RecordPrime \/ Cache \/ Mark \/ Pause \/ Finish
    BY <2>1, <2>2, <2>5 DEF RecordPrime, Cache, Mark, Pause, Finish, Typed, WorkerTyped, Worker, Idle
  <2> QED
    BY <2>1, <2>2, <2>3, <2>4, <2>5 DEF Working, Pick, PrimeFails, PrimeUnanswered, Close
<1>4. Untouched(b)
  BY DEF Untouched, Working, Pick, Look, Prime, PrimeFails, PrimeUnanswered, RecordPrime, Cache, Send, SendUnanswered, Mark, Pause,
         Finish, Close, Marks, Moves, rows, starting, Typed, RowsTyped, StartTyped
<1> QED
  BY <1>1, <1>2, <1>3, <1>4, Elsewhere

\* What the worker does to the run it is about.
LEMMA WorkerHere ==
  ASSUME Typed, Picture, Lifecycle, Working, NEW b \in Runs \ spoilt',
         worker.run = b \/ (Pick /\ worker'.run = b)
  PROVE  Life(b)'
<1>1. spoilt \subseteq spoilt' /\ left \subseteq left'
  BY DEF Working, Pick, Look, Prime, PrimeFails, PrimeUnanswered, RecordPrime, Cache, Send, SendUnanswered, Mark, Pause, Finish,
         Close, Blocks, history
<1>2. Life(b)
  BY <1>1 DEF Lifecycle
<1>3. UNCHANGED <<start, later, announced>>
  BY DEF Working, Pick, Look, Prime, PrimeFails, PrimeUnanswered, RecordPrime, Cache, Send, SendUnanswered, Mark, Pause, Finish,
         Close, rows, starting
<1>4. worker.run = b => worker.at # "idle" /\ ~Early(b)
  BY <1>2, IdleIs, RunsAssumption DEF Typed, WorkerTyped, Life, Begins
<1>5. worker' = Idle => worker'.run # b
  BY IdleIs, RunsAssumption
<1>6. CASE Pick
  <2>1. worker'.run = b /\ worker'.at = "picked"
    BY <1>4, <1>6 DEF Pick, Idle
  <2>2. status[b] = "running" /\ UNCHANGED <<status, target, media, file, left>>
    BY <1>4, <1>6, <2>1 DEF Pick, rows, history, Idle
  <2> QED
    BY <1>2, <1>3, <2>1, <2>2 DEF Life, Begins, Ends, Early, Queued, Empty
<1>7. CASE Look
  <2>1. worker.at = "picked" /\ worker.run = b /\ UNCHANGED <<status, target, media, file, left>>
    BY <1>4, <1>7 DEF Look, Pick, rows, history
  <2>2. \/ Drained(b) /\ worker'.at = "finish" /\ worker'.run = b
        \/ ~Drained(b) /\ worker'.at \in {"prime", "sending"} /\ worker'.run = b
    BY <1>7, <2>1 DEF Look, Typed, WorkerTyped, Worker
  <2>3. Drained(b) => \A p \in People : target[b][p] = "pending" => p \in left
    BY DEF Drained, Reachable, Lifecycle, LeftKnown
  <2>4. Empty(b) => Drained(b)
    BY DEF Empty, Drained, Reachable
  <2> QED
    BY <1>2, <1>3, <2>1, <2>2, <2>3, <2>4 DEF Life, Begins, Ends, Early, Queued, Empty
<1>8. CASE \/ Prime \/ PrimeFails \/ PrimeUnanswered \/ Cache
           \/ \E p \in People : Send(p) \/ SendUnanswered(p)
  <2>1. /\ worker.run = b /\ worker.at \in {"prime", "cache", "sending"} /\ UNCHANGED <<status, target, file, left>>
        /\ media'[b] = media[b] \/ media'[b] = "cached"
    BY <1>4, <1>8 DEF Prime, PrimeFails, PrimeUnanswered, Cache, Send, SendUnanswered, Pick, rows, history, Typed, RowsTyped
  <2>2. start[b] # "empty"
    BY <1>2, <2>1 DEF Life, Begins
  <2>3. worker'.run = b => worker'.at \notin {"finish", "close"}
    <3>1. ASSUME NEW p \in People, Send(p) \/ SendUnanswered(p) PROVE worker'.at \in {"sending", "halt", "mark"}
      BY <3>1 DEF Send, SendUnanswered, Answers, Typed, WorkerTyped, Worker
    <3>2. CASE Prime
      BY <3>2 DEF Prime, Typed, WorkerTyped, Worker
    <3>3. CASE PrimeFails \/ PrimeUnanswered \/ Cache
      BY <1>5, <3>3 DEF PrimeFails, PrimeUnanswered, Cache, Typed, WorkerTyped, Worker, Idle
    <3> QED
      BY <1>8, <3>1, <3>2, <3>3
  <2> QED
    BY <1>2, <1>3, <2>1, <2>2, <2>3 DEF Life, Begins, Ends, Early, Queued, Empty
<1>9. CASE RecordPrime \/ Mark
  <2>1. /\ worker.run = b /\ worker.at \in {"primed", "mark"}
        /\ UNCHANGED <<status, media, file>> /\ (Marks(b) \/ UNCHANGED target)
    BY <1>4, <1>9 DEF RecordPrime, Mark, Pick
  <2>2. start[b] # "empty"
    BY <1>2, <2>1 DEF Life, Begins
  <2>3. worker'.run = b => worker'.at \notin {"finish", "close"}
    BY <1>5, <1>9 DEF RecordPrime, Mark, Typed, WorkerTyped, Worker
  <2>4. \A p \in People : \/ target'[b][p] = target[b][p]
                          \/ target[b][p] = "pending" /\ target'[b][p] \notin {"pending", "skipped"}
    <3>1. \A p \in People : worker.got[p] # "none" => target[b][p] = "pending"
      BY <2>1 DEF Picture, OwedIsPending, Owed
    <3>2. \A p \in People : worker.got[p] \in Outcome
      BY DEF Typed, WorkerTyped, Worker
    <3>3. \A p \in People : worker.got[p] # "none" => Recorded(worker.got[p]) \notin {"pending", "skipped"}
      BY <3>2 DEF Recorded, Outcome
    <3> QED
      BY <2>1, <3>1, <3>3 DEF Marks, Typed, RowsTyped
  <2>5. status[b] = "done" => Empty(b)
    BY <1>2, <2>1 DEF Life, Ends
  <2>6. Ends(b)'
    BY <1>1, <1>2, <2>1, <2>3, <2>4, <2>5 DEF Life, Ends, Queued, Empty
  <2>7. Begins(b)'
    BY <1>2, <1>3, <1>4, <2>1, <2>2 DEF Life, Begins, Early
  <2> QED
    BY <2>6, <2>7 DEF Life
<1>10. CASE Pause
  <2>1. /\ worker.run = b /\ worker.at \in {"halt", "pause"} /\ UNCHANGED <<target, media, file, left>>
        /\ status'[b] = status[b] \/ (status[b] = "running" /\ status'[b] = "paused")
    BY <1>4, <1>10 DEF Pause, Moves, Pick, Typed, RowsTyped
  <2>2. start[b] # "empty"
    BY <1>2, <2>1 DEF Life, Begins
  <2>3. worker'.run = b => worker'.at = "mark"
    BY <1>5, <1>10 DEF Pause, Typed, WorkerTyped, Worker
  <2> QED
    BY <1>2, <1>3, <1>4, <2>1, <2>2, <2>3 DEF Life, Begins, Ends, Early, Queued, Empty
<1>11. CASE Finish
  <2>1. /\ worker.run = b /\ worker.at = "finish" /\ worker'.run = b /\ worker'.at = "close"
        /\ UNCHANGED <<status, media, file, left>>
    BY <1>4, <1>11, Goes DEF Finish, Pick, Stages
  <2>2. \A p \in People : target'[b][p] = IF target[b][p] = "pending" THEN "skipped" ELSE target[b][p]
    BY <1>1, <1>11, <2>1 DEF Finish, Typed, RowsTyped
  <2> QED
    BY <1>2, <1>3, <2>1, <2>2 DEF Life, Begins, Ends, Early, Queued, Empty
<1>12. CASE Close
  <2>1. /\ worker.run = b /\ worker.at = "close" /\ worker'.run # b
        /\ UNCHANGED <<target, media, left>> /\ (media[b] = "file" => file'[b] = file[b])
        /\ status'[b] = status[b] \/ (status[b] = "running" /\ status'[b] = "done")
    BY <1>4, <1>5, <1>12 DEF Close, Moves, Pick, history, Typed, RowsTyped
  <2> QED
    BY <1>2, <1>3, <1>4, <2>1 DEF Life, Begins, Ends, Early, Queued, Empty
<1> QED
  BY <1>6, <1>7, <1>8, <1>9, <1>10, <1>11, <1>12 DEF Working

LEMMA LeftKept ==
  ASSUME Typed, Lifecycle, [Next]_vars
  PROVE  LeftKnown'
<1>1. CASE \E p \in People : OptOut(p)
  BY <1>1 DEF OptOut, Lifecycle, LeftKnown, Typed, RowsTyped
<1>2. CASE Blocks
  BY <1>2 DEF Blocks, Lifecycle, LeftKnown
<1>3. CASE UNCHANGED listens /\ left \subseteq left'
  BY <1>3 DEF Lifecycle, LeftKnown
<1>4. CASE ~ (\E p \in People : OptOut(p)) /\ ~ RecordPrime /\ ~ Mark
  BY <1>3, <1>4 DEF Next, Create, Claim, Starting, Retry, List, NoAudience, ListFails, SaveMedia, SaveLater, Start, StartFails, CloseEmpty,
     Abandon, CancelStart, QuarantineEnds, Ask, Write, Working, Pick, Look, Prime, PrimeFails, PrimeUnanswered, Cache, Send,
     SendUnanswered, Pause, Finish, Close, Sweep, Restart, vars, history
<1> QED
  BY <1>1, <1>2, <1>4 DEF RecordPrime, Mark

LEMMA AskedKept ==
  ASSUME Typed, Lifecycle, [Next]_vars
  PROVE  AskedOfOne'
<1>1. \A b \in Runs : status[b] # "none" => status'[b] # "none"
  <2>1. ASSUME NEW b \in Runs, Create(b) \/ Claim(b) \/ Starting(b) \/ Retry(b)
        PROVE  \A c \in Runs : status[c] # "none" => status'[c] # "none"
    BY <2>1 DEF Create, Claim, Starting, Retry, List, NoAudience, ListFails, SaveMedia, SaveLater, Start, StartFails, CloseEmpty,
                Abandon, CancelStart, Reverts, Moves, rows, Typed, RowsTyped
  <2>2. ASSUME NEW o \in Operators, Write(o) PROVE \A c \in Runs : status[c] # "none" => status'[c] # "none"
    <3>1. request[o].run \in Runs /\ request[o].to # "none"
      BY <2>2 DEF Write, Typed, AsksTyped
    <3> QED
      BY <2>2, <3>1 DEF Write, Typed, RowsTyped
  <2>3. CASE Working
    BY <2>3 DEF Working, Pick, Look, Prime, PrimeFails, PrimeUnanswered, RecordPrime, Cache, Send, SendUnanswered, Mark, Pause,
                Finish, Close, Moves, rows, Typed, RowsTyped
  <2> QED
    BY <2>1, <2>2, <2>3 DEF Next, QuarantineEnds, Ask, OptOut, Sweep, Restart, vars, rows
<1>2. ASSUME NEW o \in Operators, request'[o] # None
      PROVE  request'[o] = request[o] \/ (status[request'[o].run] # "none" /\ request'[o].run \in Runs)
  <2>1. ASSUME NEW q \in Operators, Ask(q) \/ Write(q)
        PROVE  request'[o] = request[o] \/ (status[request'[o].run] # "none" /\ request'[o].run \in Runs)
    BY <1>2, <2>1 DEF Ask, Write, Typed, AsksTyped
  <2>2. CASE Restart
    BY <1>2, <2>2 DEF Restart
  <2>3. CASE UNCHANGED request
    BY <2>3
  <2> QED
    BY <2>1, <2>2, <2>3 DEF Next, Create, Claim, Starting, Retry, List, NoAudience, ListFails, SaveMedia, SaveLater, Start, StartFails,
       CloseEmpty, Abandon, CancelStart, QuarantineEnds, OptOut, Working, Pick, Look, Prime, PrimeFails, PrimeUnanswered, RecordPrime,
       Cache, Send, SendUnanswered, Mark, Pause, Finish, Close, Sweep, vars
<1>3. \A o \in Operators : request[o] # None => request[o].run \in Runs
  BY DEF Typed, AsksTyped
<1> QED
  BY <1>1, <1>2, <1>3 DEF AskedOfOne, Lifecycle

LEMMA NextLifecycle == Typed /\ Picture /\ Lifecycle /\ [Next]_vars => Lifecycle'
<1> SUFFICES ASSUME Typed, Picture, Lifecycle, [Next]_vars PROVE Lifecycle'
  OBVIOUS
<1>1. LeftKnown' /\ AskedOfOne'
  BY LeftKept, AskedKept
<1>2. CASE Working
  <2>1. \A b \in Runs \ spoilt' : Life(b)'
    BY <1>2, WorkerElsewhere, WorkerHere
  <2> QED
    BY <1>1, <2>1 DEF Lifecycle
<1>3. CASE \E c \in Runs : Create(c) \/ Claim(c) \/ Starting(c) \/ Retry(c)
  <2>1. \A b \in Runs \ spoilt' : Life(b)'
    BY <1>3, StartingLife
  <2> QED
    BY <1>1, <2>1 DEF Lifecycle
<1>4. CASE \/ \E o \in Operators : Ask(o) \/ Write(o)
           \/ \E p \in People : OptOut(p)
           \/ \E b \in Runs : QuarantineEnds(b)
           \/ Sweep \/ Restart \/ UNCHANGED vars
  <2>1. \A b \in Runs \ spoilt' : Life(b)'
    BY <1>4, OthersLife
  <2> QED
    BY <1>1, <2>1 DEF Lifecycle
<1> QED
  BY <1>2, <1>3, <1>4 DEF Next

LEMMA LifecycleAlways == Spec => []Lifecycle
<1>1. Typed /\ Picture /\ Lifecycle /\ [Next]_vars => Lifecycle'
  BY NextLifecycle
<1> QED
  BY <1>1, InitLifecycle, PictureAlways, PTL DEF Spec

\* DoneIsDone: a finished run has nobody left in its queue, whatever operators ask for and
\* whenever it was started.
THEOREM FinishedIsOver == Spec => []DoneIsDone
<1>1. Lifecycle => DoneIsDone
  BY DEF Lifecycle, Life, Ends, Queued, DoneIsDone
<1> QED
  BY <1>1, LifecycleAlways, PTL

\* SkipsOnlyWhoLeft: no order of batches, failures and opt-outs closes out a person who has
\* listened all along.
THEOREM SkippedHaveLeft == Spec => []SkipsOnlyWhoLeft
<1>1. Lifecycle => SkipsOnlyWhoLeft
  BY DEF Lifecycle, Life, Ends, SkipsOnlyWhoLeft
<1> QED
  BY <1>1, LifecycleAlways, PTL

\* AnnouncedOnce: the external system hears of a broadcast once, however often its start is
\* claimed, fails and is tried again (emitBroadcast).
THEOREM AnnouncedAtMostOnce == Spec => []AnnouncedOnce
<1>1. Lifecycle => AnnouncedOnce
  BY DEF Lifecycle, Life, Begins, AnnouncedOnce
<1> QED
  BY <1>1, LifecycleAlways, PTL

===============================================================================
