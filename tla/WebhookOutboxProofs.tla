------------------------- MODULE WebhookOutboxProofs -------------------------
(***************************************************************************)
(* Theorems about WebhookOutbox, for any number of deliveries, endpoints,  *)
(* plugins, workers, restarts and failures, and any backoff.               *)
(*                                                                         *)
(* Where a plugin's delivery is (with the dispatcher, in the channel, with *)
(* a worker) there is nothing else of that plugin, and the plugin is busy: *)
(* Alone.  It needs no lease.  Causes ties the attempt a delivery is at,   *)
(* wherever it is, to the times it was tried, and what a dispatcher or a   *)
(* worker has found out to what has happened.                              *)
(*                                                                         *)
(* An endpoint's delivery has its lease only: LaneInv says that the lease  *)
(* outlasts what is ahead of it, if LeaseOutlasts, and so it is in one     *)
(* place too.  Spare counts what a delivery in one place was taken for.    *)
(***************************************************************************)
EXTENDS WebhookOutbox, SequenceTheorems, FiniteSetTheorems, TLAPS

TableTyped ==
    /\ subscriber \in [Deliveries -> Subscribers \cup {None}]
    /\ outbox \in [Deliveries -> Row \cup {None}]
    /\ stage \in [Deliveries -> {"new", "looked", "stored", "lost", "gone"}]
    /\ \A d \in Deliveries : /\ stage[d] = "new" <=> subscriber[d] = None
                             /\ stage[d] = "stored" <=> outbox[d] # None

EndsTyped ==
    on \subseteq Subscribers /\ dropping \subseteq refused /\ refused \subseteq Subscribers

HandTyped == hand \in [Lanes -> SUBSET Job] /\ seen \subseteq Hooks
QueueTyped == queue \in [Lanes -> Seq(Job)]
WorkTyped == work \in [Workers -> Task \cup {None}]
LanesTyped == HandTyped /\ QueueTyped /\ WorkTyped /\ busy \subseteq Plugins

HistoryTyped == accepted \in [Deliveries -> Nat] /\ tries \in [Deliveries -> Nat]
BoundsTyped == switches \in 0..MaxSwitches /\ trouble \in 0..MaxTrouble

\* A stored delivery has an attempt to go.
Left == \A d \in Deliveries : outbox[d] # None => outbox[d].attempt < MaxAttempts

Typed == TableTyped /\ EndsTyped /\ LanesTyped /\ HistoryTyped /\ BoundsTyped /\ Left

-----------------------------------------------------------------------------
(* Type correctness *)

LEMMA InitTyped == Init => Typed
<1> SUFFICES ASSUME Init PROVE Typed
  OBVIOUS
<1>1. TableTyped /\ EndsTyped
  BY DEF Init, TableTyped, EndsTyped
<1>2. LanesTyped
  <2>1. queue \in [Lanes -> Seq(Job)]
    BY DEF Init
  <2>2. hand \in [Lanes -> SUBSET Job]
    BY DEF Init
  <2> QED
    BY <2>1, <2>2 DEF Init, LanesTyped, HandTyped, QueueTyped, WorkTyped
<1>3. HistoryTyped /\ BoundsTyped
  BY BoundsAssumption DEF Init, HistoryTyped, BoundsTyped
<1> QED
  BY <1>1, <1>2, <1>3 DEF Typed, Left, Init

LEMMA TroubleTyped ==
  ASSUME BoundsTyped, Trouble \/ UNCHANGED bounds
  PROVE  BoundsTyped'
  BY BoundsAssumption DEF BoundsTyped, Trouble, bounds

\* Rows that go leave their deliveries gone.
LEMMA GoneTyped ==
  ASSUME TableTyped, Left, NEW ds, \A d \in ds \cap Deliveries : outbox[d] # None, Gone(ds),
         UNCHANGED subscriber
  PROVE  (TableTyped /\ Left)'
  BY NoneAssumption DEF TableTyped, Left, Gone

LEMMA EmitTyped ==
  ASSUME Typed, NEW d \in Deliveries, Emit(d) \/ Store(d)
  PROVE  Typed'
<1>1. (TableTyped /\ Left)'
  <2>1. CASE Emit(d)
    BY <2>1, SetsAssumption DEF Typed, Emit, TableTyped, Left, EndsTyped
  <2>2. CASE Store(d)
    <3>1. [attempt |-> 0, due |-> 0] \in Row
      BY BoundsAssumption DEF Row
    <3>2. CASE outbox' = [outbox EXCEPT ![d] = [attempt |-> 0, due |-> 0]]
                 /\ stage' = [stage EXCEPT ![d] = "stored"]
      <4>1. outbox' \in [Deliveries -> Row \cup {None}]
        BY <3>1, <3>2 DEF Typed, TableTyped
      <4>2. outbox'[d] # None /\ outbox'[d].attempt = 0 /\ stage'[d] = "stored"
        BY <3>1, <3>2, NoneAssumption DEF Typed, TableTyped
      <4>3. \A c \in Deliveries \ {d} : outbox'[c] = outbox[c] /\ stage'[c] = stage[c]
        BY <3>2 DEF Typed, TableTyped
      <4>4. stage' \in [Deliveries -> {"new", "looked", "stored", "lost", "gone"}]
        BY <3>2 DEF Typed, TableTyped
      <4> QED
        BY <2>2, <4>1, <4>2, <4>3, <4>4, BoundsAssumption DEF Typed, Store, TableTyped, Left
    <3>3. CASE UNCHANGED outbox /\ stage' = [stage EXCEPT ![d] = "lost"]
      BY <2>2, <3>3 DEF Typed, Store, TableTyped, Left
    <3> QED
      BY <2>2, <3>2, <3>3 DEF Store
  <2> QED
    BY <2>1, <2>2
<1>2. BoundsTyped'
  BY TroubleTyped DEF Typed, Emit, Store
<1>3. (EndsTyped /\ LanesTyped /\ HistoryTyped)'
  BY DEF Typed, Emit, Store, endpoints, lanes, history, EndsTyped, LanesTyped, HandTyped, QueueTyped,
              WorkTyped, HistoryTyped
<1> QED
  BY <1>1, <1>2, <1>3 DEF Typed

LEMMA SubscribersTyped ==
  ASSUME Typed, NEW s \in Subscribers, Switch(s) \/ Remove(s) \/ Drop(s)
  PROVE  Typed'
<1>1. (TableTyped /\ Left)'
  <2>1. CASE Switch(s) \/ Remove(s)
    BY <2>1 DEF Typed, Switch, Remove, table, TableTyped, Left
  <2>2. CASE Drop(s)
    <3> DEFINE ds == {d \in Deliveries : subscriber[d] = s /\ outbox[d] # None}
    <3>1. Gone(ds) /\ UNCHANGED subscriber
      BY <2>2 DEF Drop
    <3>2. \A d \in ds \cap Deliveries : outbox[d] # None
      OBVIOUS
    <3> QED
      BY <3>1, <3>2, GoneTyped DEF Typed
  <2> QED
    BY <2>1, <2>2
<1>2. (EndsTyped /\ BoundsTyped)'
  BY BoundsAssumption DEF Typed, Switch, Remove, Drop, EndsTyped, BoundsTyped, bounds
<1>3. (LanesTyped /\ HistoryTyped)'
  BY DEF Typed, Switch, Remove, Drop, lanes, history, LanesTyped, HandTyped, QueueTyped, WorkTyped,
         HistoryTyped
<1> QED
  BY <1>1, <1>2, <1>3 DEF Typed

LEMMA JobsTyped ==
  ASSUME Typed, NEW ds \in SUBSET Deliveries, \A d \in ds : outbox[d] # None
  PROVE  Jobs(ds) \in SUBSET Job
  BY BoundsAssumption DEF Typed, TableTyped, Left, Jobs, Job, Row

LEMMA LeasedTyped ==
  ASSUME Typed, NEW ds \in SUBSET Deliveries, \A d \in ds : outbox[d] # None, Leased(ds),
         UNCHANGED <<subscriber, stage>>
  PROVE  (TableTyped /\ Left)'
<1>1. \A d \in ds : [outbox[d] EXCEPT !.due = Lease] \in Row /\ outbox[d].attempt < MaxAttempts
  BY BoundsAssumption DEF Typed, TableTyped, Left, Row
<1> QED
  BY <1>1, NoneAssumption DEF Typed, TableTyped, Left, Leased, Row

LEMMA LeaseTyped ==
  ASSUME Typed, LeaseHooks \/ LeasePlugins
  PROVE  Typed'
<1>1. CASE LeaseHooks
  <2>1. PICK ds \in SUBSET Due("hooks") :
          /\ Leased(ds)
          /\ \/ hand' = [hand EXCEPT !["hooks"] = Jobs(ds)] /\ UNCHANGED bounds
             \/ Trouble /\ UNCHANGED hand
    BY <1>1 DEF LeaseHooks
  <2>2. ds \in SUBSET Deliveries /\ \A d \in ds : outbox[d] # None
    BY <2>1 DEF Due
  <2>3. (TableTyped /\ Left)'
    BY <1>1, <2>1, <2>2, LeasedTyped DEF LeaseHooks
  <2>4. HandTyped'
    BY <1>1, <2>1, <2>2, JobsTyped DEF Typed, LanesTyped, HandTyped, LeaseHooks, Lanes
  <2>5. BoundsTyped'
    BY <2>1, TroubleTyped DEF Typed
  <2> QED
    BY <1>1, <2>3, <2>4, <2>5 DEF Typed, LeaseHooks, endpoints, history, EndsTyped, LanesTyped, QueueTyped,
       WorkTyped, HistoryTyped
<1>2. CASE LeasePlugins
  <2>1. PICK ds \in Claimable :
          /\ Leased(ds)
          /\ hand' = [hand EXCEPT !["plugins"] = Jobs(ds)]
          /\ busy' = busy \cup {subscriber[d] : d \in ds}
    BY <1>2 DEF LeasePlugins
  <2>2. ds \in SUBSET Deliveries /\ \A d \in ds : outbox[d] # None
    BY <2>1 DEF Claimable, Due
  <2>3. (TableTyped /\ Left)'
    BY <1>2, <2>1, <2>2, LeasedTyped DEF LeasePlugins
  <2>4. HandTyped'
    BY <1>2, <2>1, <2>2, JobsTyped DEF Typed, LanesTyped, HandTyped, LeasePlugins, Lanes
  <2>5. busy' \subseteq Plugins
    <3>1. \A d \in ds : subscriber[d] \in Subscribers /\ subscriber[d] \notin Hooks
      BY <2>1 DEF Typed, EndsTyped, Claimable, Due, LaneOf
    <3> QED
      BY <2>1, <3>1 DEF Typed, LanesTyped, Subscribers
  <2> QED
    BY <1>2, <2>3, <2>4, <2>5 DEF Typed, LeasePlugins, endpoints, history, bounds, EndsTyped, LanesTyped,
       QueueTyped, WorkTyped, HistoryTyped, BoundsTyped
<1> QED
  BY <1>1, <1>2

LEMMA DispatchTyped ==
  ASSUME Typed, NEW l \in Lanes, Discard(l) \/ Queue(l)
  PROVE  Typed'
<1>1. CASE Discard(l)
  <2>1. PICK job \in hand[l] :
          /\ hand' = [hand EXCEPT ![l] = @ \ {job}]
          /\ \/ Gone({job.id} \cap {d \in Deliveries : outbox[d] # None}) /\ UNCHANGED bounds
             \/ Trouble /\ UNCHANGED <<outbox, stage>>
    BY <1>1 DEF Discard
  <2>2. (TableTyped /\ Left)'
    <3>1. CASE Gone({job.id} \cap {d \in Deliveries : outbox[d] # None})
      BY <1>1, <3>1, GoneTyped DEF Typed, Discard
    <3>2. CASE UNCHANGED <<outbox, stage>>
      BY <1>1, <3>2 DEF Typed, TableTyped, Left, Discard
    <3> QED
      BY <2>1, <3>1, <3>2
  <2>3. HandTyped'
    BY <1>1, <2>1 DEF Typed, LanesTyped, HandTyped, Discard
  <2>4. BoundsTyped'
    BY <2>1, TroubleTyped DEF Typed
  <2> QED
    BY <1>1, <2>2, <2>3, <2>4 DEF Typed, Discard, endpoints, history, EndsTyped, LanesTyped, QueueTyped,
       WorkTyped, HistoryTyped
<1>2. CASE Queue(l)
  <2>1. PICK job \in hand[l] : /\ hand' = [hand EXCEPT ![l] = @ \ {job}]
                               /\ queue' = [queue EXCEPT ![l] = Append(@, job)]
    BY <1>2 DEF Queue
  <2>2. job \in Job /\ queue[l] \in Seq(Job)
    BY <2>1 DEF Typed, LanesTyped, HandTyped, QueueTyped
  <2>3. QueueTyped'
    BY <2>1, <2>2, AppendProperties DEF Typed, LanesTyped, QueueTyped
  <2> QED
    BY <1>2, <2>1, <2>3 DEF Typed, Queue, table, endpoints, history, bounds, TableTyped, Left, EndsTyped,
       LanesTyped, HandTyped, WorkTyped, HistoryTyped, BoundsTyped
<1> QED
  BY <1>1, <1>2

\* What a worker does, and what it leaves alone.
LEMMA WorkTypedKept ==
  ASSUME Typed, NEW w \in Workers, NEW task \in Task \cup {None}, work' = [work EXCEPT ![w] = task]
  PROVE  WorkTyped'
  BY DEF Typed, LanesTyped, WorkTyped

LEMMA WorkerTyped ==
  ASSUME Typed, NEW w \in Workers, Works(w)
  PROVE  Typed'
<1>0. work[w] # None => work[w] \in Task
  BY DEF Typed, LanesTyped, WorkTyped
<1>1. CASE Take(w)
  <2>1. LaneOfWorker(w) \in Lanes
    BY DEF LaneOfWorker, Lanes
  <2>2. queue[LaneOfWorker(w)] \in Seq(Job) /\ queue[LaneOfWorker(w)] # <<>>
    BY <1>1, <2>1 DEF Typed, LanesTyped, QueueTyped, Take
  <2>3. QueueTyped'
    BY <1>1, <2>1, <2>2, HeadTailProperties DEF Typed, LanesTyped, QueueTyped, Take
  <2>4. [job |-> Head(queue[LaneOfWorker(w)]), age |-> 0, answer |-> "none"] \in Task
    BY <2>2, HeadTailProperties DEF Task
  <2>5. WorkTyped'
    BY <1>1, <2>4, WorkTypedKept DEF Take
  <2> QED
    BY <1>1, <2>3, <2>5 DEF Typed, Take, table, endpoints, history, bounds, TableTyped, Left, EndsTyped,
       LanesTyped, HandTyped, HistoryTyped, BoundsTyped
<1>2. CASE Attempt(w)
  <2>1. work[w] \in Task /\ work[w].job.id \in Deliveries
    BY <1>0, <1>2 DEF Attempt, Sends, Task, Job
  <2>2. HistoryTyped'
    BY <1>2, <2>1 DEF Typed, HistoryTyped, Attempt
  <2>3. PICK a \in {"ok", "failed", "gone"} : work' = [work EXCEPT ![w].answer = a]
    BY <1>2 DEF Attempt
  <2>4. WorkTyped'
    <3>1. [work[w] EXCEPT !.answer = a] \in Task
      BY <2>1 DEF Task
    <3> QED
      BY <2>3, <3>1 DEF Typed, LanesTyped, WorkTyped
  <2>5. BoundsTyped'
    BY <1>2, TroubleTyped DEF Typed, Attempt
  <2> QED
    BY <1>2, <2>2, <2>4, <2>5 DEF Typed, Attempt, table, endpoints, TableTyped, Left, EndsTyped,
       LanesTyped, HandTyped, QueueTyped
<1>3. CASE Settle(w)
  <2>1. work[w] \in Task /\ work[w].job.id \in Deliveries /\ work[w].job.attempt \in 1..MaxAttempts
    BY <1>0, <1>3 DEF Settle, Task, Job
  <2>2. (TableTyped /\ Left)'
    <3>1. CASE outbox[work[w].job.id] # None /\ Gone({work[w].job.id})
      BY <1>3, <3>1, GoneTyped DEF Typed, Settle
    <3>2. CASE /\ outbox[work[w].job.id] # None /\ ~Over(work[w])
               /\ outbox' = [outbox EXCEPT ![work[w].job.id] =
                                [attempt |-> work[w].job.attempt, due |-> Backoff[work[w].job.attempt]]]
               /\ UNCHANGED stage
      <4>1. work[w].job.attempt < MaxAttempts
        BY <2>1, <3>2, BoundsAssumption DEF Over
      <4>2. [attempt |-> work[w].job.attempt, due |-> Backoff[work[w].job.attempt]] \in Row
        BY <2>1, BoundsAssumption DEF Row
      <4> QED
        BY <1>3, <2>1, <3>2, <4>1, <4>2, NoneAssumption DEF Typed, TableTyped, Left, Settle
    <3>3. CASE UNCHANGED <<outbox, stage>>
      BY <1>3, <3>3 DEF Typed, TableTyped, Left, Settle
    <3> QED
      BY <1>3, <3>1, <3>2, <3>3 DEF Settle
  <2>3. WorkTyped'
    BY <1>3, WorkTypedKept DEF Settle
  <2>4. BoundsTyped'
    BY <1>3, TroubleTyped DEF Typed, Settle
  <2> QED
    BY <1>3, <2>2, <2>3, <2>4 DEF Typed, Settle, endpoints, history, EndsTyped, LanesTyped, HandTyped,
       QueueTyped, HistoryTyped
<1> QED
  BY <1>1, <1>2, <1>3 DEF Works

LEMMA TimeTyped ==
  ASSUME Typed, Tick \/ Restart \/ UNCHANGED vars
  PROVE  Typed'
<1>1. CASE Tick
  <2>1. (TableTyped /\ Left)'
    <3>1. \A d \in Deliveries : outbox[d] # None /\ outbox[d].due > 0 =>
            [outbox[d] EXCEPT !.due = @ - 1] \in Row /\ outbox[d].attempt < MaxAttempts
      BY BoundsAssumption DEF Typed, TableTyped, Left, Row
    <3>2. outbox' \in [Deliveries -> Row \cup {None}]
      BY <1>1, <3>1 DEF Typed, TableTyped, Tick
    <3>3. \A d \in Deliveries : /\ outbox'[d] # None <=> outbox[d] # None
                                /\ outbox[d] # None => outbox'[d].attempt = outbox[d].attempt
      BY <1>1, <3>1, NoneAssumption DEF Typed, TableTyped, Tick, Row
    <3> QED
      BY <1>1, <3>2, <3>3 DEF Typed, TableTyped, Left, Tick
  <2>2. WorkTyped'
    BY <1>1 DEF Typed, LanesTyped, WorkTyped, Tick, Task
  <2> QED
    BY <1>1, <2>1, <2>2 DEF Typed, Tick, endpoints, history, bounds, EndsTyped, LanesTyped, HandTyped,
       QueueTyped, HistoryTyped, BoundsTyped
<1>2. CASE Restart
  <2>1. (TableTyped /\ Left)'
    BY <1>2 DEF Typed, TableTyped, Left, Restart
  <2>2. BoundsTyped'
    BY <1>2, TroubleTyped DEF Typed, Restart
  <2>3. LanesTyped'
    BY <1>2 DEF Typed, LanesTyped, HandTyped, QueueTyped, WorkTyped, Restart
  <2> QED
    BY <1>2, <2>1, <2>2, <2>3 DEF Typed, Restart, history, EndsTyped, HistoryTyped
<1>3. CASE UNCHANGED vars
  BY <1>3 DEF vars, table, endpoints, lanes, history, bounds, Typed, TableTyped, Left, EndsTyped, LanesTyped,
     HandTyped, QueueTyped, WorkTyped, HistoryTyped, BoundsTyped
<1> QED
  BY <1>1, <1>2, <1>3

LEMMA NextTyped == Typed /\ [Next]_vars => Typed'
  BY EmitTyped, SubscribersTyped, LeaseTyped, DispatchTyped, WorkerTyped, TimeTyped DEF Next, Dispatch

LEMMA TypedAlways == Spec => []Typed
  BY InitTyped, NextTyped, PTL DEF Spec

\* TypeOK: rows, jobs and tasks keep their types; in particular no attempt is beyond the
\* last one.
THEOREM TypeCorrect == Spec => []TypeOK
<1>1. Typed => TypeOK
  BY DEF Typed, TypeOK, TableTyped, EndsTyped, LanesTyped, HandTyped, QueueTyped, WorkTyped, HistoryTyped,
         BoundsTyped
<1> QED
  BY <1>1, TypedAlways, PTL

-----------------------------------------------------------------------------
(* A plugin has one delivery in flight *)

Q == queue["plugins"]

InHand(p, job) == job \in hand["plugins"] /\ subscriber[job.id] = p
InQueue(p, i) == i \in 1..Len(Q) /\ subscriber[Q[i].id] = p
InWork(p, w) == w \in PluginWorkers /\ work[w] # None /\ subscriber[work[w].job.id] = p

\* Whatever is in a lane is for a subscriber of that lane.
Kinds ==
    /\ \A job \in hand["hooks"] : subscriber[job.id] \in Hooks
    /\ \A i \in 1..Len(queue["hooks"]) : subscriber[queue["hooks"][i].id] \in Hooks
    /\ \A w \in HookWorkers : work[w] # None => subscriber[work[w].job.id] \in Hooks
    /\ \A job \in hand["plugins"] : subscriber[job.id] \in Plugins
    /\ \A i \in 1..Len(Q) : subscriber[Q[i].id] \in Plugins
    /\ \A w \in PluginWorkers : work[w] # None => subscriber[work[w].job.id] \in Plugins

Alone(p) ==
    /\ \A j, k : InHand(p, j) /\ InHand(p, k) => j = k
    /\ \A i, k : InQueue(p, i) /\ InQueue(p, k) => i = k
    /\ \A v, w : InWork(p, v) /\ InWork(p, w) => v = w
    /\ \A j, i : ~(InHand(p, j) /\ InQueue(p, i))
    /\ \A j, w : ~(InHand(p, j) /\ InWork(p, w))
    /\ \A i, w : ~(InQueue(p, i) /\ InWork(p, w))
    /\ \A j : InHand(p, j) => p \in busy
    /\ \A i : InQueue(p, i) => p \in busy
    /\ \A w : InWork(p, w) => p \in busy

OnePerPlugin == Kinds /\ \A p \in Plugins : Alone(p)

\* Once emitted, a delivery keeps its subscriber.
LEMMA SubscriberStays ==
  ASSUME Typed, [Next]_vars, NEW d \in Deliveries, subscriber[d] \in Subscribers
  PROVE  subscriber'[d] = subscriber[d]
<1>1. CASE \E c \in Deliveries : Emit(c)
  <2>1. PICK c \in Deliveries : Emit(c)
    BY <1>1
  <2>2. subscriber[c] = None
    BY <2>1 DEF Typed, TableTyped, Emit
  <2> QED
    BY <2>1, <2>2, SetsAssumption DEF Emit, Typed, TableTyped
<1>2. CASE ~ \E c \in Deliveries : Emit(c)
  BY <1>2 DEF Next, Store, Switch, Remove, Drop, Dispatch, LeaseHooks, LeasePlugins, Discard, Queue,
              Works, Take, Attempt, Settle, Tick, Restart, vars, table
<1> QED
  BY <1>1, <1>2

LEMMA LaneTypes ==
  ASSUME Typed
  PROVE  /\ "hooks" \in Lanes /\ "plugins" \in Lanes
         /\ \A l \in Lanes : hand[l] \in SUBSET Job /\ queue[l] \in Seq(Job) /\ Len(queue[l]) \in Nat
         /\ \A l \in Lanes : \A i \in 1..Len(queue[l]) : queue[l][i] \in Job
         /\ \A w \in Workers : work[w] # None => work[w] \in Task /\ work[w].job \in Job
<1>1. \A l \in Lanes : hand[l] \in SUBSET Job /\ queue[l] \in Seq(Job)
  BY DEF Typed, LanesTyped, HandTyped, QueueTyped
<1>2. \A l \in Lanes : Len(queue[l]) \in Nat /\ \A i \in 1..Len(queue[l]) : queue[l][i] \in Job
  BY <1>1, LenProperties, ElementOfSeq
<1>3. \A w \in Workers : work[w] # None => work[w] \in Task /\ work[w].job \in Job
  BY DEF Typed, LanesTyped, WorkTyped, Task
<1> QED
  BY <1>1, <1>2, <1>3 DEF Lanes

LEMMA OneEmit ==
  ASSUME Typed, OnePerPlugin, [Next]_vars, UNCHANGED lanes
  PROVE  OnePerPlugin'
<1>1. \A job \in Job : subscriber[job.id] \in Subscribers => subscriber'[job.id] = subscriber[job.id]
  BY SubscriberStays DEF Job
<1>2. \A job \in Job : subscriber[job.id] \in Hooks \cup Plugins => subscriber'[job.id] = subscriber[job.id]
  BY <1>1 DEF Subscribers
<1>3. Kinds'
  BY <1>2, LaneTypes DEF OnePerPlugin, Kinds, Q, lanes, Workers
<1>4. ASSUME NEW p \in Plugins PROVE Alone(p)'
  <2>1. \A j : InHand(p, j)' => InHand(p, j)
    BY <1>2, LaneTypes DEF OnePerPlugin, Kinds, InHand, lanes
  <2>2. \A k : InQueue(p, k)' => InQueue(p, k)
    BY <1>2, LaneTypes DEF OnePerPlugin, Kinds, InQueue, Q, lanes
  <2>3. \A w : InWork(p, w)' => InWork(p, w)
    BY <1>2, LaneTypes DEF OnePerPlugin, Kinds, InWork, lanes, Workers
  <2>4. busy' = busy
    BY DEF lanes
  <2>5. Alone(p)
    BY DEF OnePerPlugin
  <2> QED
    BY <2>1, <2>2, <2>3, <2>4, <2>5 DEF Alone
<1> QED
  BY <1>3, <1>4 DEF OnePerPlugin

LEMMA OneLeaseHooks ==
  ASSUME Typed, OnePerPlugin, LeaseHooks
  PROVE  OnePerPlugin'
<1>1. PICK ds \in SUBSET Due("hooks") : hand' = [hand EXCEPT !["hooks"] = Jobs(ds)] \/ UNCHANGED hand
  BY DEF LeaseHooks
<1>2. \A job \in Jobs(ds) : subscriber[job.id] \in Hooks
  BY <1>1 DEF Jobs, Due, LaneOf
<1>3. hand'["plugins"] = hand["plugins"] /\ (hand'["hooks"] = hand["hooks"] \/ hand'["hooks"] = Jobs(ds))
  BY <1>1, LaneTypes DEF Typed, LanesTyped, HandTyped
<1>4. Kinds'
  BY <1>2, <1>3 DEF OnePerPlugin, Kinds, Q, LeaseHooks
<1>5. \A p \in Plugins : Alone(p)'
  BY <1>3 DEF OnePerPlugin, Alone, InHand, InQueue, InWork, Q, LeaseHooks
<1> QED
  BY <1>4, <1>5 DEF OnePerPlugin

LEMMA OneLeasePlugins ==
  ASSUME Typed, OnePerPlugin, LeasePlugins
  PROVE  OnePerPlugin'
<1>1. PICK ds \in Claimable : /\ hand' = [hand EXCEPT !["plugins"] = Jobs(ds)]
                              /\ busy' = busy \cup {subscriber[d] : d \in ds}
  BY DEF LeasePlugins
<1>2. \A d \in ds : subscriber[d] \in Plugins /\ subscriber[d] \notin busy
  BY <1>1 DEF Typed, EndsTyped, Claimable, Due, LaneOf, Subscribers
<1>3. \A c, d \in ds : c # d => subscriber[c] # subscriber[d]
  BY <1>1 DEF Claimable
<1>4. hand'["plugins"] = Jobs(ds) /\ hand'["hooks"] = hand["hooks"]
  BY <1>1, LaneTypes DEF Typed, LanesTyped, HandTyped
<1>5. Kinds'
  BY <1>2, <1>4 DEF OnePerPlugin, Kinds, Q, LeasePlugins, Jobs
<1>6. ASSUME NEW p \in Plugins PROVE Alone(p)'
  <2>1. \A j : InHand(p, j)' => \E d \in ds : subscriber[d] = p /\ j = [id |-> d, attempt |-> outbox[d].attempt + 1]
    BY <1>4 DEF InHand, Jobs, LeasePlugins
  <2>2. \A j, k : InHand(p, j)' /\ InHand(p, k)' => j = k
    BY <1>3, <2>1
  <2>3. \A j : InHand(p, j)' => p \notin busy /\ p \in busy'
    BY <1>1, <1>2, <2>1
  <2>4. /\ \A k : InQueue(p, k)' <=> InQueue(p, k)
        /\ \A w : InWork(p, w)' <=> InWork(p, w)
    BY DEF InQueue, InWork, Q, LeasePlugins
  <2>5. Alone(p)
    BY DEF OnePerPlugin
  <2> QED
    BY <1>1, <2>2, <2>3, <2>4, <2>5 DEF Alone
<1> QED
  BY <1>5, <1>6 DEF OnePerPlugin

LEMMA OneDiscard ==
  ASSUME Typed, OnePerPlugin, NEW l \in Lanes, Discard(l)
  PROVE  OnePerPlugin'
<1>1. \A m \in Lanes : hand'[m] \subseteq hand[m]
  BY DEF Discard, Typed, LanesTyped, HandTyped
<1>2. Kinds'
  BY <1>1, LaneTypes DEF OnePerPlugin, Kinds, Q, Discard
<1>3. \A p \in Plugins : Alone(p)'
  BY <1>1, LaneTypes DEF OnePerPlugin, Alone, InHand, InQueue, InWork, Q, Discard
<1> QED
  BY <1>2, <1>3 DEF OnePerPlugin

LEMMA OneQueue ==
  ASSUME Typed, OnePerPlugin, NEW l \in Lanes, Queue(l)
  PROVE  OnePerPlugin'
<1>1. PICK job \in hand[l] : /\ hand' = [hand EXCEPT ![l] = @ \ {job}]
                             /\ queue' = [queue EXCEPT ![l] = Append(@, job)]
  BY DEF Queue
<1>2. /\ hand'[l] = hand[l] \ {job} /\ queue'[l] = Append(queue[l], job)
      /\ \A m \in Lanes \ {l} : hand'[m] = hand[m] /\ queue'[m] = queue[m]
  BY <1>1 DEF Typed, LanesTyped, HandTyped, QueueTyped
<1>3. /\ job \in Job /\ queue[l] \in Seq(Job) /\ Len(queue[l]) \in Nat
  BY <1>1, LaneTypes
<1>4. /\ Len(queue'[l]) = Len(queue[l]) + 1
      /\ \A i \in 1..Len(queue[l]) : queue'[l][i] = queue[l][i]
      /\ queue'[l][Len(queue[l]) + 1] = job
  BY <1>2, <1>3, AppendProperties
<1>5. CASE l = "hooks"
  <2>1. hand'["plugins"] = hand["plugins"] /\ queue'["plugins"] = queue["plugins"]
    BY <1>2, <1>5, LaneTypes
  <2>2. \A i \in 1..Len(queue'[l]) : i \in 1..Len(queue[l]) \/ i = Len(queue[l]) + 1
    BY <1>3, <1>4
  <2>3. Kinds'
    BY <1>1, <1>2, <1>4, <1>5, <2>1, <2>2 DEF OnePerPlugin, Kinds, Q, Queue, table
  <2>4. UNCHANGED <<subscriber, work, busy>>
    BY DEF Queue, table
  <2>5. \A p \in Plugins : Alone(p)'
    BY <2>1, <2>4 DEF OnePerPlugin, Alone, InHand, InQueue, InWork, Q
  <2> QED
    BY <2>3, <2>5 DEF OnePerPlugin
<1>6. CASE l = "plugins"
  <2>1. hand'["hooks"] = hand["hooks"] /\ queue'["hooks"] = queue["hooks"]
    BY <1>2, <1>6, LaneTypes
  <2>2. \A i \in 1..Len(Q') : i \in 1..Len(Q) \/ i = Len(Q) + 1
    BY <1>3, <1>4, <1>6 DEF Q
  <2>3. Kinds'
    BY <1>1, <1>2, <1>4, <1>6, <2>1, <2>2 DEF OnePerPlugin, Kinds, Q, Queue, table
  <2>4. ASSUME NEW p \in Plugins PROVE Alone(p)'
    <3>1. \A j : InHand(p, j)' <=> InHand(p, j) /\ j # job
      BY <1>2, <1>6 DEF InHand, Queue, table
    <3>2. \A i : InQueue(p, i)' => InQueue(p, i) \/ (i = Len(Q) + 1 /\ InHand(p, job))
      BY <1>1, <1>4, <1>6, <2>2 DEF InQueue, InHand, Queue, table, Q
    <3>3. ~InQueue(p, Len(Q) + 1)
      BY <1>3, <1>6 DEF InQueue, Q
    <3>4. \A w : InWork(p, w)' <=> InWork(p, w)
      BY DEF InWork, Queue, table
    <3>5. busy' = busy /\ Alone(p)
      BY DEF OnePerPlugin, Queue
    <3>6. CASE InHand(p, job)
      <4>1. \A j : ~InHand(p, j)'
        BY <3>1, <3>5, <3>6 DEF Alone
      <4>2. \A i : InQueue(p, i)' => i = Len(Q) + 1
        BY <3>2, <3>5, <3>6 DEF Alone
      <4> QED
        BY <3>4, <3>5, <3>6, <4>1, <4>2 DEF Alone
    <3>7. CASE ~InHand(p, job)
      BY <3>1, <3>2, <3>4, <3>5, <3>7 DEF Alone
    <3> QED
      BY <3>6, <3>7
  <2> QED
    BY <2>3, <2>4 DEF OnePerPlugin
<1> QED
  BY <1>5, <1>6 DEF Lanes

LEMMA OneTake ==
  ASSUME Typed, OnePerPlugin, NEW w \in Workers, Take(w)
  PROVE  OnePerPlugin'
<1> DEFINE l == LaneOfWorker(w)
           job == Head(queue[l])
<1>1. l \in Lanes /\ queue[l] # <<>> /\ work[w] = None
  BY DEF Take, LaneOfWorker, Lanes
<1>2. /\ queue[l] \in Seq(Job) /\ Len(queue[l]) \in Nat \ {0} /\ job = queue[l][1]
      /\ Len(Tail(queue[l])) = Len(queue[l]) - 1
      /\ \A i \in 1..Len(Tail(queue[l])) : Tail(queue[l])[i] = queue[l][i + 1]
      /\ job \in Job
  BY <1>1, LaneTypes, HeadTailProperties, EmptySeq
<1> DEFINE n == Len(queue[l])
<1>8. /\ n \in Nat /\ n >= 1 /\ Len(Tail(queue[l])) = n - 1
      /\ \A i \in 1..(n - 1) : i + 1 \in 1..n /\ i + 1 # 1 /\ Tail(queue[l])[i] = queue[l][i + 1]
  BY <1>2
<1>3. /\ queue'[l] = Tail(queue[l]) /\ \A m \in Lanes \ {l} : queue'[m] = queue[m]
      /\ hand' = hand /\ busy' = busy /\ subscriber' = subscriber
  BY <1>1 DEF Take, Typed, LanesTyped, QueueTyped, table
<1>4. /\ work'[w] = [job |-> job, age |-> 0, answer |-> "none"]
      /\ \A v \in Workers \ {w} : work'[v] = work[v]
  BY DEF Take, Typed, LanesTyped, WorkTyped
<1>5. work'[w] # None /\ work'[w].job = job
  BY <1>2, <1>4, NoneAssumption DEF Task
<1>6. CASE w \in HookWorkers
  <2>1. l = "hooks" /\ w \notin PluginWorkers
    BY <1>6, SetsAssumption DEF LaneOfWorker
  <2>2. \A v \in PluginWorkers : work'[v] = work[v]
    BY <1>4, <2>1 DEF Workers
  <2>3. queue'["plugins"] = queue["plugins"]
    BY <1>3, <2>1, LaneTypes
  <2>4. Kinds'
    <3>1. \A i \in 1..Len(queue'["hooks"]) : i + 1 \in 1..Len(queue["hooks"])
                                             /\ queue'["hooks"][i] = queue["hooks"][i + 1]
      BY <1>3, <1>8, <2>1, Zenon
    <3>2. 1 \in 1..Len(queue["hooks"]) /\ job = queue["hooks"][1]
      BY <1>2, <2>1
    <3>3. \A v \in HookWorkers : work'[v] # None => v = w \/ work'[v] = work[v]
      BY <1>4 DEF Workers
    <3>4. Kinds
      BY DEF OnePerPlugin
    <3>5. \A i \in 1..Len(queue'["hooks"]) : subscriber[queue'["hooks"][i].id] \in Hooks
      BY <3>1, <3>4 DEF Kinds
    <3>6. \A v \in HookWorkers : work'[v] # None => subscriber[work'[v].job.id] \in Hooks
      BY <1>5, <3>2, <3>3, <3>4 DEF Kinds
    <3> QED
      BY <1>3, <2>2, <2>3, <3>4, <3>5, <3>6 DEF Kinds, Q
  <2>5. \A p \in Plugins : Alone(p)'
    BY <1>3, <2>2, <2>3 DEF OnePerPlugin, Alone, InHand, InQueue, InWork, Q
  <2> QED
    BY <2>4, <2>5 DEF OnePerPlugin
<1>7. CASE w \notin HookWorkers
  <2>1. l = "plugins" /\ w \in PluginWorkers
    BY <1>7 DEF LaneOfWorker, Workers
  <2>2. \A v \in HookWorkers : work'[v] = work[v]
    BY <1>4, <1>7 DEF Workers
  <2>3. queue'["hooks"] = queue["hooks"]
    BY <1>3, <2>1, LaneTypes
  <2>4. \A i \in 1..Len(Q') : i + 1 \in 1..Len(Q) /\ Q'[i] = Q[i + 1] /\ i + 1 # 1
    BY <1>3, <1>8, <2>1, Zenon DEF Q
  <2>5. 1 \in 1..Len(Q) /\ job = Q[1]
    BY <1>2, <2>1 DEF Q
  <2>6. \A v \in PluginWorkers : v # w => work'[v] = work[v]
    BY <1>4 DEF Workers
  <2>7. Kinds'
    BY <1>3, <1>5, <2>2, <2>3, <2>4, <2>5, <2>6 DEF OnePerPlugin, Kinds
  <2>8. ASSUME NEW p \in Plugins PROVE Alone(p)'
    <3>1. \A j : InHand(p, j)' <=> InHand(p, j)
      BY <1>3 DEF InHand
    <3>2. \A i : InQueue(p, i)' => InQueue(p, i + 1) /\ i \in Nat /\ i >= 1
      BY <1>3, <2>4 DEF InQueue
    <3>3. \A v : InWork(p, v)' => InWork(p, v) \/ (v = w /\ InQueue(p, 1))
      BY <1>3, <1>5, <2>5, <2>6 DEF InWork, InQueue
    <3>4. Alone(p) /\ busy' = busy
      BY <1>3 DEF OnePerPlugin
    <3>5. \A i : InQueue(p, i)' => ~InQueue(p, 1)
      BY <3>2, <3>4 DEF Alone
    <3>6. \A i, k : InQueue(p, i)' /\ InQueue(p, k)' => i = k
      <4> SUFFICES ASSUME NEW i, NEW k, InQueue(p, i)', InQueue(p, k)' PROVE i = k
        OBVIOUS
      <4>1. i + 1 = k + 1 /\ i \in Nat /\ k \in Nat
        BY <3>2, <3>4 DEF Alone
      <4> QED
        BY <4>1
    <3> QED
      BY <3>1, <3>2, <3>3, <3>4, <3>5, <3>6 DEF Alone
  <2> QED
    BY <2>7, <2>8 DEF OnePerPlugin
<1> QED
  BY <1>6, <1>7

LEMMA OneAttempt ==
  ASSUME Typed, OnePerPlugin, NEW w \in Workers, Attempt(w)
  PROVE  OnePerPlugin'
<1>1. PICK a : work' = [work EXCEPT ![w].answer = a]
  BY DEF Attempt
<1>2. work[w] \in Task
  BY LaneTypes DEF Attempt, Sends
<1>3. /\ \A v \in Workers \ {w} : work'[v] = work[v]
      /\ work'[w] = [work[w] EXCEPT !.answer = a]
  BY <1>1 DEF Typed, LanesTyped, WorkTyped
<1>4. work'[w].job = work[w].job /\ work[w] # None
  BY <1>2, <1>3, NoneAssumption DEF Task
<1>5. \A v \in Workers : work'[v] # None => work[v] # None /\ work'[v].job = work[v].job
  BY <1>3, <1>4
<1>6. Kinds'
  BY <1>5 DEF OnePerPlugin, Kinds, Q, Attempt, table, Workers
<1>7. \A p \in Plugins : Alone(p)'
  BY <1>5 DEF OnePerPlugin, Alone, InHand, InQueue, InWork, Q, Attempt, table, Workers
<1> QED
  BY <1>6, <1>7 DEF OnePerPlugin

LEMMA OneSettle ==
  ASSUME Typed, OnePerPlugin, NEW w \in Workers, Settle(w)
  PROVE  OnePerPlugin'
<1>1. /\ work'[w] = None /\ \A v \in Workers \ {w} : work'[v] = work[v]
      /\ hand' = hand /\ queue' = queue /\ subscriber' = subscriber
      /\ busy' = busy \ Releases(w) /\ work[w] # None
  BY DEF Settle, Typed, LanesTyped, WorkTyped
<1>2. Kinds'
  BY <1>1 DEF OnePerPlugin, Kinds, Q, Workers
<1>3. ASSUME NEW p \in Plugins PROVE Alone(p)'
  <2>1. Alone(p)
    BY DEF OnePerPlugin
  <2>2. \A v : InWork(p, v)' => InWork(p, v) /\ v # w
    BY <1>1 DEF InWork, Workers
  <2>3. (\A j : InHand(p, j)' <=> InHand(p, j)) /\ (\A i : InQueue(p, i)' <=> InQueue(p, i))
    BY <1>1 DEF InHand, InQueue, Q
  <2>4. p \in Releases(w) => InWork(p, w)
    BY <1>1 DEF Releases, InWork, Plugin
  <2>5. CASE InWork(p, w)
    BY <2>1, <2>2, <2>3, <2>5 DEF Alone
  <2>6. CASE ~InWork(p, w)
    BY <1>1, <2>1, <2>2, <2>3, <2>4, <2>6 DEF Alone
  <2> QED
    BY <2>5, <2>6
<1> QED
  BY <1>2, <1>3 DEF OnePerPlugin

LEMMA OneTime ==
  ASSUME Typed, OnePerPlugin, Tick \/ Restart
  PROVE  OnePerPlugin'
<1>1. CASE Tick
  <2>1. \A v \in Workers : work'[v] # None => work[v] # None /\ work'[v].job = work[v].job
    BY <1>1, LaneTypes DEF Tick, Task, Typed, LanesTyped, WorkTyped
  <2>2. Kinds'
    BY <1>1, <2>1 DEF OnePerPlugin, Kinds, Q, Tick, Workers
  <2>3. \A p \in Plugins : Alone(p)'
    BY <1>1, <2>1 DEF OnePerPlugin, Alone, InHand, InQueue, InWork, Q, Tick, Workers
  <2> QED
    BY <2>2, <2>3 DEF OnePerPlugin
<1>2. CASE Restart
  <2>1. hand' = [l \in Lanes |-> {}] /\ queue' = [l \in Lanes |-> <<>>] /\ work' = [w \in Workers |-> None]
    BY <1>2 DEF Restart
  <2>2. \A l \in Lanes : hand'[l] = {} /\ 1..Len(queue'[l]) = {}
    BY <2>1, EmptySeq
  <2> QED
    BY <2>1, <2>2, LaneTypes DEF OnePerPlugin, Kinds, Alone, InHand, InQueue, InWork, Q, Workers
<1> QED
  BY <1>1, <1>2

LEMMA OneInit == Init => OnePerPlugin
<1> SUFFICES ASSUME Init PROVE OnePerPlugin
  OBVIOUS
<1>1. \A l \in Lanes : hand[l] = {} /\ 1..Len(queue[l]) = {}
  BY EmptySeq DEF Init
<1> QED
  BY <1>1 DEF Init, OnePerPlugin, Kinds, Alone, InHand, InQueue, InWork, Q, Workers, Lanes

LEMMA OneNext ==
  ASSUME Typed, OnePerPlugin, [Next]_vars
  PROVE  OnePerPlugin'
<1>1. CASE UNCHANGED lanes
  BY <1>1, OneEmit
<1>2. ASSUME NEW d \in Deliveries, Emit(d) \/ Store(d) PROVE UNCHANGED lanes
  BY <1>2 DEF Emit, Store
<1>3. ASSUME NEW s \in Subscribers, Switch(s) \/ Remove(s) \/ Drop(s) PROVE UNCHANGED lanes
  BY <1>3 DEF Switch, Remove, Drop
<1>4. CASE Dispatch
  BY <1>4, OneLeaseHooks, OneLeasePlugins, OneDiscard, OneQueue DEF Dispatch
<1>5. ASSUME NEW w \in Workers, Works(w) PROVE OnePerPlugin'
  BY <1>5, OneTake, OneAttempt, OneSettle DEF Works
<1>6. CASE Tick \/ Restart
  BY <1>6, OneTime
<1>7. CASE UNCHANGED vars
  BY <1>1, <1>7 DEF vars
<1> QED
  BY <1>1, <1>2, <1>3, <1>4, <1>5, <1>6, <1>7 DEF Next

LEMMA OneAlways == Spec => [](Typed /\ OnePerPlugin)
<1>1. Typed /\ OnePerPlugin /\ [Next]_vars => (Typed /\ OnePerPlugin)'
  BY NextTyped, OneNext
<1> QED
  BY <1>1, InitTyped, OneInit, PTL DEF Spec

\* Only what is somewhere counts as in flight.
LEMMA FlightMeans ==
  ASSUME Typed, Kinds, NEW d \in Deliveries, NEW p \in Plugins, subscriber[d] = p, InFlight(d) > 0
  PROVE  \/ \E job : InHand(p, job) /\ job.id = d
         \/ \E i : InQueue(p, i) /\ Q[i].id = d
         \/ \E w : InWork(p, w) /\ work[w].job.id = d
<1> SUFFICES ASSUME ~ \E job : InHand(p, job) /\ job.id = d,
                    ~ \E i : InQueue(p, i) /\ Q[i].id = d,
                    ~ \E w : InWork(p, w) /\ work[w].job.id = d
             PROVE  FALSE
  OBVIOUS
<1>0. p \notin Hooks
  BY SetsAssumption
<1>1. Hands(d) = {}
  BY <1>0 DEF Hands, Lanes, InHand, Kinds
<1>2. Places(d) = {}
  <2>1. \A l \in Lanes : {i \in 1..Len(queue[l]) : queue[l][i].id = d} = {}
    BY <1>0 DEF Lanes, InQueue, Q, Kinds
  <2> QED
    BY <2>1 DEF Places
<1>3. Senders(d) = {}
  BY <1>0 DEF Senders, InWork, Kinds, Workers
<1> QED
  BY <1>1, <1>2, <1>3, FS_EmptySet DEF InFlight

\* OneAtATime: no plugin has two deliveries in flight, however long its calls take, whatever
\* the lease and whoever restarts or fails.
THEOREM PluginsOneAtATime == Spec => []OneAtATime
<1>1. ASSUME Typed, OnePerPlugin PROVE OneAtATime
  <2> SUFFICES ASSUME NEW p \in Plugins
               PROVE  Cardinality({d \in Deliveries : subscriber[d] = p /\ InFlight(d) > 0}) <= 1
    BY DEF OneAtATime
  <2> DEFINE S == {d \in Deliveries : subscriber[d] = p /\ InFlight(d) > 0}
  <2>1. Kinds /\ Alone(p)
    BY <1>1 DEF OnePerPlugin
  <2>2. \A d \in S : \/ \E job : InHand(p, job) /\ job.id = d
                     \/ \E i : InQueue(p, i) /\ Q[i].id = d
                     \/ \E w : InWork(p, w) /\ work[w].job.id = d
    BY <1>1, <2>1, FlightMeans
  <2>3. \A c, d \in S : c = d
    BY <2>1, <2>2 DEF Alone
  <2>4. CASE S = {}
    BY <2>4, FS_EmptySet
  <2>5. CASE S # {}
    <3>1. PICK d \in S : TRUE
      BY <2>5
    <3>2. S = {d}
      BY <2>3, <3>1
    <3>3. Cardinality({d}) = 1
      BY FS_Singleton
    <3> QED
      BY <3>2, <3>3
  <2> QED
    BY <2>4, <2>5
<1>2. Typed /\ OnePerPlugin => OneAtATime
  BY <1>1
<1> QED
  BY <1>2, OneAlways, PTL

-----------------------------------------------------------------------------
(* Why a delivery goes *)

Reached(job) == job.attempt <= tries[job.id] + 1

RowCause == \A d \in Deliveries : outbox[d] # None => outbox[d].attempt <= tries[d]
HandCause ==
    \A l \in Lanes : \A job \in hand[l] :
        Reached(job) /\ (Orphan(job) => subscriber[job.id] \in refused)
QueueCause == \A l \in Lanes : \A i \in 1..Len(queue[l]) : Reached(queue[l][i])
Told(task) ==
    /\ Reached(task.job)
    /\ task.answer # "none" => task.job.attempt <= tries[task.job.id]
    /\ task.answer = "ok" => accepted[task.job.id] > 0
    /\ task.answer = "gone" => subscriber[task.job.id] \in refused
WorkCause == \A w \in Workers : work[w] # None => Told(work[w])
OffCause == Subscribers \ on \subseteq refused

Causes == RowCause /\ HandCause /\ QueueCause /\ WorkCause /\ OffCause /\ GoneForCause

\* What the causes rest on is never taken back.
LEMMA HistoryGrows ==
  ASSUME Typed, [Next]_vars
  PROVE  /\ \A d \in Deliveries : tries[d] \in Nat /\ tries'[d] \in Nat /\ tries[d] <= tries'[d]
         /\ \A d \in Deliveries : accepted[d] > 0 => accepted'[d] > 0
         /\ refused \subseteq refused'
<1>1. CASE \E w \in Workers : Attempt(w)
  <2>1. PICK w \in Workers : Attempt(w)
    BY <1>1
  <2>2. work[w].job.id \in Deliveries
    BY <2>1, LaneTypes DEF Attempt, Sends, Job
  <2>3. tries' = [tries EXCEPT ![work[w].job.id] = @ + 1]
    BY <2>1 DEF Attempt
  <2>4. accepted' = [accepted EXCEPT ![work[w].job.id] = @ + 1] \/ accepted' = accepted
    BY <2>1 DEF Attempt
  <2>5. refused' = refused
    BY <2>1 DEF Attempt, endpoints
  <2> QED
    BY <2>2, <2>3, <2>4, <2>5 DEF Typed, HistoryTyped
<1>2. CASE ~ \E w \in Workers : Attempt(w)
  <2>1. tries' = tries /\ accepted' = accepted
    BY <1>2 DEF Next, Emit, Store, Switch, Remove, Drop, Dispatch, LeaseHooks, LeasePlugins, Discard, Queue,
                Works, Take, Settle, Tick, Restart, vars, history
  <2>2. refused \subseteq refused'
    BY <1>2 DEF Next, Emit, Store, Switch, Remove, Drop, Dispatch, LeaseHooks, LeasePlugins, Discard, Queue,
                Works, Take, Settle, Tick, Restart, vars, endpoints
  <2> QED
    BY <2>1, <2>2 DEF Typed, HistoryTyped
<1> QED
  BY <1>1, <1>2

LEMMA ReachedStays ==
  ASSUME Typed, [Next]_vars, NEW job \in Job, Reached(job)
  PROVE  Reached(job)'
<1>1. job.id \in Deliveries /\ job.attempt \in Nat
  BY BoundsAssumption DEF Job
<1> QED
  BY <1>1, HistoryGrows DEF Reached

LEMMA ToldStays ==
  ASSUME Typed, [Next]_vars, NEW task \in Task, subscriber[task.job.id] \in Subscribers, Told(task)
  PROVE  Told(task)'
<1>1. task.job \in Job /\ task.job.id \in Deliveries /\ task.job.attempt \in Nat
  BY BoundsAssumption DEF Task, Job
<1>2. Reached(task.job)'
  BY <1>1, ReachedStays DEF Told
<1>3. task.answer # "none" => task.job.attempt <= tries'[task.job.id]
  BY <1>1, HistoryGrows DEF Told
<1>4. task.answer = "ok" => accepted'[task.job.id] > 0
  BY <1>1, HistoryGrows DEF Told
<1>5. task.answer = "gone" => subscriber'[task.job.id] \in refused'
  BY <1>1, HistoryGrows, SubscriberStays DEF Told
<1> QED
  BY <1>2, <1>3, <1>4, <1>5 DEF Told

LEMMA Known ==
  ASSUME Typed, Kinds
  PROVE  /\ \A l \in Lanes : \A job \in hand[l] : job \in Job /\ subscriber[job.id] \in Subscribers
         /\ \A w \in Workers : work[w] # None => /\ work[w] \in Task
                                                 /\ subscriber[work[w].job.id] \in Subscribers
<1>1. \A l \in Lanes : \A job \in hand[l] : job \in Job
  BY LaneTypes
<1>2. \A l \in Lanes : \A job \in hand[l] : subscriber[job.id] \in Subscribers
  BY DEF Kinds, Lanes, Subscribers
<1>3. \A w \in Workers : work[w] # None => work[w] \in Task
  BY LaneTypes
<1>4. \A w \in Workers : work[w] # None => subscriber[work[w].job.id] \in Subscribers
  BY DEF Kinds, Workers, Subscribers
<1> QED
  BY <1>1, <1>2, <1>3, <1>4

LEMMA OffKept ==
  ASSUME Typed, OffCause, [Next]_vars
  PROVE  OffCause'
<1>1. CASE \E s \in Subscribers : Switch(s) \/ Remove(s)
  BY <1>1 DEF OffCause, Switch, Remove
<1>2. CASE ~ \E s \in Subscribers : Switch(s) \/ Remove(s)
  <2>1. on' = on
    BY <1>2 DEF Next, Emit, Store, Drop, Dispatch, LeaseHooks, LeasePlugins, Discard, Queue,
                Works, Take, Attempt, Settle, Tick, Restart, vars, endpoints
  <2> QED
    BY <2>1, HistoryGrows DEF OffCause
<1> QED
  BY <1>1, <1>2

LEMMA RowKept ==
  ASSUME Typed, RowCause, WorkCause, [Next]_vars
  PROVE  RowCause'
<1> SUFFICES ASSUME NEW d \in Deliveries, outbox'[d] # None
             PROVE  outbox'[d].attempt <= tries'[d]
  BY DEF RowCause
<1>1. tries[d] \in Nat /\ tries'[d] \in Nat /\ tries[d] <= tries'[d]
  BY HistoryGrows
<1>2. outbox[d] # None => outbox[d] \in Row /\ outbox[d].attempt \in Nat /\ outbox[d].attempt <= tries[d]
  BY DEF RowCause, Typed, TableTyped, Row
<1>3. SUFFICES \/ outbox[d] # None /\ outbox'[d].attempt = outbox[d].attempt
               \/ outbox'[d].attempt = 0
               \/ outbox'[d].attempt \in Nat /\ outbox'[d].attempt <= tries[d]
  BY <1>1, <1>2
<1>4. CASE \E c \in Deliveries : Store(c)
  BY <1>4 DEF Store, Typed, TableTyped
<1>5. CASE \E s \in Subscribers : Drop(s)
  BY <1>5 DEF Drop, Gone
<1>6. CASE LeaseHooks
  <2>1. PICK ds \in SUBSET Due("hooks") : Leased(ds)
    BY <1>6 DEF LeaseHooks
  <2> QED
    BY <1>2, <2>1 DEF Leased, Due, Row
<1>7. CASE LeasePlugins
  <2>1. PICK ds \in Claimable : Leased(ds)
    BY <1>7 DEF LeasePlugins
  <2> QED
    BY <1>2, <2>1 DEF Leased, Claimable, Due, Row
<1>8. CASE \E l \in Lanes : Discard(l)
  BY <1>8 DEF Discard, Gone
<1>9. ASSUME NEW w \in Workers, Settle(w)
      PROVE  \/ outbox[d] # None /\ outbox'[d].attempt = outbox[d].attempt
             \/ outbox'[d].attempt \in Nat /\ outbox'[d].attempt <= tries[d]
  <2> DEFINE c == work[w].job.id
             n == work[w].job.attempt
  <2>1. work[w] # None /\ work[w].answer # "none"
    BY <1>9 DEF Settle
  <2>2. n \in Nat /\ c \in Deliveries
    BY <2>1, LaneTypes, BoundsAssumption DEF Job
  <2>3. n <= tries[c]
    BY <2>1 DEF WorkCause, Told
  <2>4. \/ UNCHANGED outbox \/ Gone({c})
        \/ outbox' = [outbox EXCEPT ![c] = [attempt |-> n, due |-> Backoff[n]]]
    BY <1>9 DEF Settle
  <2> QED
    BY <2>2, <2>3, <2>4 DEF Gone, Typed, TableTyped
<1>10. CASE Tick
  BY <1>2, <1>10 DEF Tick, Row
<1>11. CASE outbox' = outbox
  BY <1>11
<1>12. \/ outbox' = outbox \/ Tick \/ (\E w \in Workers : Settle(w)) \/ (\E l \in Lanes : Discard(l))
       \/ LeasePlugins \/ LeaseHooks \/ (\E s \in Subscribers : Drop(s)) \/ (\E c \in Deliveries : Store(c))
  BY DEF Next, Emit, Switch, Remove, Dispatch, Queue, Works, Take, Attempt, Restart, vars, table
<1> QED
  BY <1>4, <1>5, <1>6, <1>7, <1>8, <1>9, <1>10, <1>11, <1>12

LEMMA HandKept ==
  ASSUME Typed, Kinds, RowCause, HandCause, OffCause, [Next]_vars
  PROVE  HandCause'
<1>1. ASSUME NEW l \in Lanes, NEW job \in hand[l]
      PROVE  Reached(job)' /\ subscriber'[job.id] = subscriber[job.id]
  BY <1>1, Known, ReachedStays, SubscriberStays DEF HandCause, Job
<1>2. refused \subseteq refused'
  BY HistoryGrows
<1>3. ASSUME NEW ds \in SUBSET Deliveries, NEW job \in Jobs(ds), \A d \in ds : outbox[d] # None
      PROVE  Reached(job)'
  <2>1. PICK d \in ds : job = [id |-> d, attempt |-> outbox[d].attempt + 1]
    BY DEF Jobs
  <2>2. outbox[d].attempt \in Nat /\ outbox[d].attempt <= tries[d]
    BY <1>3 DEF RowCause, Typed, TableTyped, Row
  <2>3. tries[d] \in Nat /\ tries'[d] \in Nat /\ tries[d] <= tries'[d]
    BY HistoryGrows
  <2> QED
    BY <2>1, <2>2, <2>3 DEF Reached
<1>4. CASE LeaseHooks
  <2>1. PICK ds \in SUBSET Due("hooks") : hand' = [hand EXCEPT !["hooks"] = Jobs(ds)] \/ UNCHANGED hand
    BY <1>4 DEF LeaseHooks
  <2>2. \A l \in Lanes : \A job \in hand'[l] : job \in hand[l] \/ job \in Jobs(ds)
    BY <2>1 DEF Typed, LanesTyped, HandTyped
  <2>3. ds \subseteq Deliveries /\ \A d \in ds : outbox[d] # None
    BY <2>1 DEF Due
  <2>4. \A l \in Lanes : \A job \in hand'[l] : Reached(job)'
    BY <1>1, <1>3, <2>2, <2>3
  <2>5. \A s \in Hooks : s \notin seen' => s \in refused'
    BY <1>4 DEF LeaseHooks, OffCause, Subscribers, endpoints
  <2> QED
    BY <2>4, <2>5 DEF HandCause, Orphan
<1>5. CASE LeasePlugins
  <2>1. PICK ds \in Claimable : hand' = [hand EXCEPT !["plugins"] = Jobs(ds)]
    BY <1>5 DEF LeasePlugins
  <2>2. \A l \in Lanes : \A job \in hand'[l] : job \in hand[l] \/ job \in Jobs(ds)
    BY <2>1 DEF Typed, LanesTyped, HandTyped
  <2>3. ds \subseteq Deliveries /\ \A d \in ds : outbox[d] # None /\ subscriber[d] \notin Hooks
    BY <2>1 DEF Claimable, Due, LaneOf
  <2>4. \A l \in Lanes : \A job \in hand'[l] : Reached(job)'
    BY <1>1, <1>3, <2>2, <2>3
  <2>5. UNCHANGED <<subscriber, seen, refused>>
    BY <1>5 DEF LeasePlugins, endpoints
  <2>6. \A job \in Jobs(ds) : subscriber[job.id] \notin Hooks
    BY <2>3 DEF Jobs
  <2>7. \A l \in Lanes : \A job \in hand'[l] : Orphan(job)' => subscriber'[job.id] \in refused'
    BY <2>2, <2>5, <2>6 DEF HandCause, Orphan
  <2> QED
    BY <2>4, <2>7 DEF HandCause
<1>6. CASE /\ \A l \in Lanes : hand'[l] \subseteq hand[l]
           /\ seen' = seen
  BY <1>1, <1>2, <1>6 DEF HandCause, Orphan
<1>7. CASE \E l \in Lanes : Discard(l) \/ Queue(l)
  <2>1. (\A l \in Lanes : hand'[l] \subseteq hand[l]) /\ seen' = seen
    BY <1>7 DEF Discard, Queue, Typed, LanesTyped, HandTyped
  <2> QED
    BY <1>6, <2>1
<1>8. CASE Restart
  BY <1>8 DEF Restart, HandCause
<1>9. CASE UNCHANGED <<hand, seen>>
  BY <1>6, <1>9
<1>10. \/ UNCHANGED <<hand, seen>> \/ Restart \/ LeasePlugins \/ LeaseHooks
       \/ \E l \in Lanes : Discard(l) \/ Queue(l)
  BY DEF Next, Emit, Store, Switch, Remove, Drop, Dispatch, Works, Take, Attempt, Settle, Tick, vars, lanes
<1> QED
  BY <1>4, <1>5, <1>7, <1>8, <1>9, <1>10

LEMMA QueueKept ==
  ASSUME Typed, HandCause, QueueCause, [Next]_vars
  PROVE  QueueCause'
<1> DEFINE Soon(job) == job.attempt <= tries'[job.id] + 1
<1>1. ASSUME NEW l \in Lanes, NEW i \in 1..Len(queue[l]) PROVE Soon(queue[l][i])
  <2>1. queue[l][i] \in Job /\ Reached(queue[l][i])
    BY LaneTypes DEF QueueCause
  <2> QED
    BY <2>1, ReachedStays DEF Reached
<1>2. ASSUME NEW l \in Lanes, Queue(l) PROVE QueueCause'
  <2>1. PICK job \in hand[l] : queue' = [queue EXCEPT ![l] = Append(@, job)]
    BY <1>2 DEF Queue
  <2>2. job \in Job /\ Reached(job) /\ queue[l] \in Seq(Job)
    BY <2>1, LaneTypes DEF HandCause
  <2>3. Soon(job)
    BY <2>2, ReachedStays DEF Reached
  <2>4. queue'[l] = Append(queue[l], job) /\ \A m \in Lanes \ {l} : queue'[m] = queue[m]
    BY <2>1 DEF Typed, LanesTyped, QueueTyped
  <2>5. /\ Len(queue'[l]) = Len(queue[l]) + 1
        /\ \A i \in 1..Len(queue[l]) : queue'[l][i] = queue[l][i]
        /\ queue'[l][Len(queue[l]) + 1] = job
    BY <2>2, <2>4, AppendProperties
  <2>6. \A i \in 1..Len(queue'[l]) : i \in 1..Len(queue[l]) \/ i = Len(queue[l]) + 1
    BY <2>2, <2>5, LaneTypes
  <2>7. \A i \in 1..Len(queue'[l]) : Soon(queue'[l][i])
    BY <1>1, <2>3, <2>5, <2>6
  <2> QED
    BY <1>1, <2>4, <2>7 DEF QueueCause, Reached
<1>3. ASSUME NEW w \in Workers, Take(w) PROVE QueueCause'
  <2> DEFINE l == LaneOfWorker(w)
  <2>1. l \in Lanes /\ queue[l] # <<>>
    BY <1>3 DEF Take, LaneOfWorker, Lanes
  <2>2. queue'[l] = Tail(queue[l]) /\ \A m \in Lanes \ {l} : queue'[m] = queue[m]
    BY <1>3, <2>1 DEF Take, Typed, LanesTyped, QueueTyped
  <2>3. /\ Len(queue[l]) \in Nat \ {0} /\ Len(Tail(queue[l])) = Len(queue[l]) - 1
        /\ \A i \in 1..Len(Tail(queue[l])) : Tail(queue[l])[i] = queue[l][i + 1]
    BY <2>1, LaneTypes, HeadTailProperties, EmptySeq
  <2>4. \A i \in 1..Len(Tail(queue[l])) : i + 1 \in 1..Len(queue[l])
    BY <2>3
  <2>5. \A i \in 1..Len(queue'[l]) : Soon(queue'[l][i])
    <3>1. \A i \in 1..Len(queue[l]) : Soon(queue[l][i])
      BY <1>1, <2>1
    <3>2. \A i \in 1..Len(Tail(queue[l])) : Soon(Tail(queue[l])[i])
      BY <2>3, <2>4, <3>1
    <3> QED
      BY <2>2, <3>2
  <2> QED
    BY <1>1, <2>2, <2>5 DEF QueueCause, Reached
<1>4. CASE Restart
  <2>1. \A l \in Lanes : queue'[l] = <<>>
    BY <1>4 DEF Restart
  <2> QED
    BY <2>1, EmptySeq DEF QueueCause
<1>5. CASE queue' = queue
  BY <1>1, <1>5 DEF QueueCause, Reached
<1>6. queue' = queue \/ Restart \/ (\E l \in Lanes : Queue(l)) \/ (\E w \in Workers : Take(w))
  BY DEF Next, Emit, Store, Switch, Remove, Drop, Dispatch, LeaseHooks, LeasePlugins, Discard, Works,
         Attempt, Settle, Tick, vars, lanes
<1> QED
  BY <1>2, <1>3, <1>4, <1>5, <1>6

LEMMA WorkKept ==
  ASSUME Typed, Kinds, QueueCause, WorkCause, OffCause, [Next]_vars
  PROVE  WorkCause'
<1> DEFINE Tells(task) == /\ task.job.attempt <= tries'[task.job.id] + 1
                          /\ task.answer # "none" => task.job.attempt <= tries'[task.job.id]
                          /\ task.answer = "ok" => accepted'[task.job.id] > 0
                          /\ task.answer = "gone" => subscriber'[task.job.id] \in refused'
<1>1. SUFFICES ASSUME NEW v \in Workers, work'[v] # None PROVE Tells(work'[v])
  BY DEF WorkCause, Told, Reached
<1>2. ASSUME work[v] # None PROVE Tells(work[v])
  BY <1>2, Known, ToldStays DEF WorkCause, Told, Reached
<1>3. CASE work'[v] = work[v]
  BY <1>1, <1>2, <1>3
<1>4. ASSUME NEW w \in Workers, Take(w) PROVE Tells(work'[v])
  <2> DEFINE l == LaneOfWorker(w)
             job == Head(queue[l])
  <2>1. l \in Lanes /\ queue[l] # <<>>
    BY <1>4 DEF Take, LaneOfWorker, Lanes
  <2>2. job = queue[l][1] /\ 1 \in 1..Len(queue[l])
    BY <2>1, LaneTypes, HeadTailProperties, EmptySeq
  <2>3. Reached(job) /\ job \in Job
    BY <2>1, <2>2, LaneTypes DEF QueueCause
  <2>4. job.attempt <= tries'[job.id] + 1
    BY <2>3, ReachedStays DEF Reached
  <2>5. work' = [work EXCEPT ![w] = [job |-> job, age |-> 0, answer |-> "none"]]
    BY <1>4 DEF Take
  <2>6. CASE v = w
    <3>1. work'[v] = [job |-> job, age |-> 0, answer |-> "none"]
      BY <2>5, <2>6 DEF Typed, LanesTyped, WorkTyped
    <3>2. work'[v].job = job /\ work'[v].answer = "none"
      BY <3>1
    <3> QED
      BY <2>4, <3>2
  <2>7. CASE v # w
    BY <1>3, <2>5, <2>7 DEF Typed, LanesTyped, WorkTyped
  <2> QED
    BY <2>6, <2>7
<1>5. ASSUME NEW w \in Workers, Attempt(w) PROVE Tells(work'[v])
  <2> DEFINE d == work[w].job.id
  <2>1. work[w] \in Task /\ d \in Deliveries /\ work[w] # None /\ subscriber[d] \in Subscribers
    BY <1>5, Known DEF Attempt, Sends, Task, Job
  <2>2. PICK a : /\ work' = [work EXCEPT ![w].answer = a]
                 /\ tries' = [tries EXCEPT ![d] = @ + 1]
                 /\ \/ a = "ok" /\ accepted' = [accepted EXCEPT ![d] = @ + 1]
                    \/ a = "failed"
                    \/ a = "gone" /\ subscriber[d] \notin on
    BY <1>5 DEF Attempt, Plugin
  <2>3. CASE v = w
    <3>1. work'[v] = [work[w] EXCEPT !.answer = a]
      BY <2>2, <2>3 DEF Typed, LanesTyped, WorkTyped
    <3>2. work'[v].job = work[w].job /\ work'[v].answer = a
      BY <2>1, <3>1 DEF Task
    <3>3. tries'[d] = tries[d] + 1 /\ tries[d] \in Nat
      BY <2>1, <2>2 DEF Typed, HistoryTyped
    <3>4. work[w].job.attempt \in Nat /\ work[w].job.attempt <= tries[d] + 1
      BY <2>1, LaneTypes, BoundsAssumption DEF WorkCause, Told, Reached, Job
    <3>5. a = "ok" => accepted'[d] > 0
      BY <2>1, <2>2 DEF Typed, HistoryTyped
    <3>6. subscriber' = subscriber /\ refused' = refused
      BY <1>5 DEF Attempt, table, endpoints
    <3>7. a = "gone" => subscriber[d] \in refused
      BY <2>1, <2>2 DEF OffCause
    <3> QED
      BY <3>2, <3>3, <3>4, <3>5, <3>6, <3>7
  <2>4. CASE v # w
    BY <1>3, <2>2, <2>4 DEF Typed, LanesTyped, WorkTyped
  <2> QED
    BY <2>3, <2>4
<1>6. ASSUME NEW w \in Workers, Settle(w) PROVE work'[v] = work[v]
  BY <1>1, <1>6 DEF Settle, Typed, LanesTyped, WorkTyped
<1>7. CASE Tick
  <2>1. work[v] # None /\ (work'[v] = work[v] \/ work'[v] = [work[v] EXCEPT !.age = 1])
    BY <1>1, <1>7 DEF Tick
  <2>2. work'[v].job = work[v].job /\ work'[v].answer = work[v].answer
    BY <2>1, LaneTypes DEF Task
  <2> QED
    BY <1>2, <2>1, <2>2
<1>8. CASE Restart
  BY <1>1, <1>8 DEF Restart
<1>9. \/ work' = work \/ Restart \/ Tick
      \/ \E w \in Workers : Take(w) \/ Attempt(w) \/ Settle(w)
  BY DEF Next, Emit, Store, Switch, Remove, Drop, Dispatch, LeaseHooks, LeasePlugins, Discard, Queue,
         Works, vars, lanes
<1> QED
  BY <1>3, <1>4, <1>5, <1>6, <1>7, <1>8, <1>9

LEMMA GoneKept ==
  ASSUME Typed, Kinds, HandCause, WorkCause, GoneForCause, [Next]_vars
  PROVE  GoneForCause'
<1> SUFFICES ASSUME NEW d \in Deliveries, stage'[d] = "gone"
             PROVE  accepted'[d] > 0 \/ tries'[d] >= MaxAttempts \/ subscriber'[d] \in refused'
  BY DEF GoneForCause
<1> DEFINE Cause == accepted[d] > 0 \/ tries[d] >= MaxAttempts \/ subscriber[d] \in refused
<1>1. ASSUME stage[d] # "new", Cause
      PROVE  accepted'[d] > 0 \/ tries'[d] >= MaxAttempts \/ subscriber'[d] \in refused'
  <2>1. subscriber'[d] = subscriber[d]
    BY <1>1, SubscriberStays DEF Typed, TableTyped
  <2> QED
    BY <1>1, <2>1, HistoryGrows, BoundsAssumption
<1>2. CASE stage[d] = "gone"
  BY <1>1, <1>2 DEF GoneForCause
<1>3. CASE stage[d] # "gone"
  <2>1. ASSUME NEW s \in Subscribers, Drop(s) PROVE stage[d] # "new" /\ Cause
    <3>1. outbox[d] # None /\ subscriber[d] = s /\ s \in dropping
      BY <1>3, <2>1 DEF Drop, Gone
    <3> QED
      BY <3>1 DEF Typed, TableTyped, EndsTyped
  <2>2. ASSUME NEW l \in Lanes, Discard(l) PROVE stage[d] # "new" /\ Cause
    <3>1. PICK job \in hand[l] : /\ Orphan(job)
                                 /\ \/ Gone({job.id} \cap {c \in Deliveries : outbox[c] # None})
                                    \/ UNCHANGED stage
      BY <2>2 DEF Discard
    <3>2. job.id = d /\ outbox[d] # None
      BY <1>3, <3>1 DEF Gone
    <3>3. subscriber[d] \in refused
      BY <3>1, <3>2 DEF HandCause
    <3> QED
      BY <3>2, <3>3 DEF Typed, TableTyped
  <2>3. ASSUME NEW w \in Workers, Settle(w) PROVE stage[d] # "new" /\ Cause
    <3>1. work[w] # None /\ work[w].answer # "none"
      BY <2>3 DEF Settle
    <3>2. work[w].job.id = d /\ outbox[d] # None /\ Over(work[w])
      BY <1>3, <2>3 DEF Settle, Gone
    <3>3. Told(work[w])
      BY <3>1 DEF WorkCause
    <3>4. work[w].job.attempt \in Nat /\ tries[d] \in Nat
      BY <3>1, LaneTypes, BoundsAssumption DEF Job, Typed, HistoryTyped
    <3>5. Cause
      BY <3>1, <3>2, <3>3, <3>4, BoundsAssumption DEF Told, Over
    <3> QED
      BY <3>2, <3>5 DEF Typed, TableTyped
  <2>4. \/ \E s \in Subscribers : Drop(s)
        \/ \E l \in Lanes : Discard(l)
        \/ \E w \in Workers : Settle(w)
    <3>1. stage'[d] # stage[d]
      BY <1>3
    <3>2. ~ Restart
      BY <1>3 DEF Restart
    <3>3. ~ \E c \in Deliveries : Emit(c) \/ Store(c)
      BY <1>3 DEF Emit, Store, Typed, TableTyped
    <3> QED
      BY <3>1, <3>2, <3>3 DEF Next, Switch, Remove, Dispatch, LeaseHooks, LeasePlugins, Queue, Works, Take,
                              Attempt, Tick, vars, table
  <2> QED
    BY <1>1, <2>1, <2>2, <2>3, <2>4
<1> QED
  BY <1>2, <1>3

LEMMA InitCauses == Init => Causes
<1> SUFFICES ASSUME Init PROVE Causes
  OBVIOUS
<1>1. \A l \in Lanes : 1..Len(queue[l]) = {}
  BY EmptySeq DEF Init
<1> QED
  BY <1>1 DEF Init, Causes, RowCause, HandCause, QueueCause, WorkCause, OffCause, GoneForCause

LEMMA CausesNext ==
  ASSUME Typed, OnePerPlugin, Causes, [Next]_vars
  PROVE  Causes'
BY OffKept, RowKept, HandKept, QueueKept, WorkKept, GoneKept DEF Causes, OnePerPlugin

\* GoneForCause: no restart, failing write, lease that ran out or duplicate in flight makes
\* the outbox forget a delivery nobody took and nobody refused.
THEOREM NothingForgotten == Spec => []GoneForCause
<1>1. Typed /\ OnePerPlugin /\ Causes /\ [Next]_vars => Causes'
  BY CausesNext
<1>2. Causes => GoneForCause
  BY DEF Causes
<1> QED
  BY <1>1, <1>2, InitCauses, OneAlways, PTL DEF Spec

-----------------------------------------------------------------------------
(* Where a delivery to an endpoint is *)

HQ == queue["hooks"]
HH == hand["hooks"]

HasJob(d, job) == job \in HH /\ job.id = d
HasPlace(d, i) == i \in 1..Len(HQ) /\ HQ[i].id = d
HasWorker(d, w) == w \in HookWorkers /\ work[w] # None /\ work[w].job.id = d

\* An endpoint's delivery is in one place.
Single(d) ==
    /\ \A j, k : HasJob(d, j) /\ HasJob(d, k) => j = k
    /\ \A i, k : HasPlace(d, i) /\ HasPlace(d, k) => i = k
    /\ \A v, w : HasWorker(d, v) /\ HasWorker(d, w) => v = w
    /\ \A j, i : ~(HasJob(d, j) /\ HasPlace(d, i))
    /\ \A j, w : ~(HasJob(d, j) /\ HasWorker(d, w))
    /\ \A i, w : ~(HasPlace(d, i) /\ HasWorker(d, w))

FlyingStored == \A d \in Deliveries : Flying(d) => stage[d] \in {"stored", "gone"}

\* The workers that are free by the next tick.
W == Cardinality(HookWorkers)
Ready == {w \in HookWorkers : work[w] = None \/ work[w].age = 1}

\* How many the workers take until they have taken d, at most.
Turn(d, n) ==
    \/ HasPlace(d, n)
    \/ n = Len(HQ) + Cardinality(HH) /\ \E job : HasJob(d, job)

\* The lease of a delivery outlasts what is ahead of it and its own attempt.
Lasts(d) ==
    outbox[d] # None =>
        /\ \A n : Turn(d, n) => n + 2 * W <= W * outbox[d].due + Cardinality(Ready)
        /\ \A w : HasWorker(d, w) => outbox[d].due + work[w].age >= 2

LaneInv ==
    /\ \A d \in Deliveries : Single(d) /\ Lasts(d)
    /\ Len(HQ) <= QueueLength /\ IsFiniteSet(HH)

\* webhookLease holds a full channel and a batch, each worker's attempt under way and one
\* more: with four workers 28 timeouts, shared by four, in 60.
LeaseOutlasts ==
    /\ IsFiniteSet(HookWorkers)
    /\ QueueLength + Batch + 2 * W <= W * Lease

-----------------------------------------------------------------------------
(* What is in flight was stored *)

\* Nothing takes off but from the table.
LEMMA FlyingFrom ==
  ASSUME Typed, [Next]_vars, NEW d \in Deliveries, Flying(d)'
  PROVE  Flying(d) \/ outbox[d] # None
<1> SUFFICES ASSUME outbox[d] = None PROVE Flying(d)
  OBVIOUS
<1>1. ASSUME NEW ds, \A c \in ds : outbox[c] # None
      PROVE  \A job \in Jobs(ds) : job.id # d
  BY <1>1 DEF Jobs
<1>2. ASSUME NEW l \in Lanes, NEW job \in hand'[l], job.id = d PROVE Flying(d)
  <2>1. CASE LeaseHooks
    <3>1. PICK ds \in SUBSET Due("hooks") : hand' = [hand EXCEPT !["hooks"] = Jobs(ds)] \/ UNCHANGED hand
      BY <2>1 DEF LeaseHooks
    <3>2. \A c \in ds : outbox[c] # None
      BY <3>1 DEF Due
    <3>3. job \in hand[l]
      BY <1>1, <1>2, <3>1, <3>2 DEF Typed, LanesTyped, HandTyped
    <3> QED
      BY <1>2, <3>3 DEF Flying
  <2>2. CASE LeasePlugins
    <3>1. PICK ds \in Claimable : hand' = [hand EXCEPT !["plugins"] = Jobs(ds)]
      BY <2>2 DEF LeasePlugins
    <3>2. \A c \in ds : outbox[c] # None
      BY <3>1 DEF Claimable, Due
    <3>3. job \in hand[l]
      BY <1>1, <1>2, <3>1, <3>2 DEF Typed, LanesTyped, HandTyped
    <3> QED
      BY <1>2, <3>3 DEF Flying
  <2>3. CASE \E m \in Lanes : Discard(m) \/ Queue(m)
    <3>1. hand'[l] \subseteq hand[l]
      BY <2>3 DEF Discard, Queue, Typed, LanesTyped, HandTyped
    <3> QED
      BY <1>2, <3>1 DEF Flying
  <2>4. CASE Restart
    BY <1>2, <2>4 DEF Restart
  <2>5. CASE hand' = hand
    BY <1>2, <2>5 DEF Flying
  <2> QED
    BY <2>1, <2>2, <2>3, <2>4, <2>5 DEF Next, Emit, Store, Switch, Remove, Drop, Dispatch, Works, Take, Attempt,
       Settle, Tick, vars, lanes
<1>3. ASSUME NEW l \in Lanes, NEW i \in 1..Len(queue'[l]), queue'[l][i].id = d PROVE Flying(d)
  <2>1. ASSUME NEW m \in Lanes, Queue(m) PROVE Flying(d)
    <3>1. PICK job \in hand[m] : queue' = [queue EXCEPT ![m] = Append(@, job)]
      BY <2>1 DEF Queue
    <3>2. CASE m = l
      <4>1. queue'[l] = Append(queue[l], job) /\ job \in Job /\ queue[l] \in Seq(Job)
        BY <3>1, <3>2, LaneTypes DEF Typed, LanesTyped, QueueTyped
      <4>2. (i \in 1..Len(queue[l]) /\ queue'[l][i] = queue[l][i]) \/ queue'[l][i] = job
        BY <4>1, AppendProperties, LaneTypes
      <4> QED
        BY <1>3, <3>1, <3>2, <4>2 DEF Flying
    <3>3. CASE m # l
      BY <1>3, <3>1, <3>3 DEF Typed, LanesTyped, QueueTyped, Flying
    <3> QED
      BY <3>2, <3>3
  <2>2. ASSUME NEW w \in Workers, Take(w) PROVE Flying(d)
    <3> DEFINE m == LaneOfWorker(w)
    <3>1. m \in Lanes /\ queue[m] # <<>>
      BY <2>2 DEF Take, LaneOfWorker, Lanes
    <3>2. queue'[m] = Tail(queue[m]) /\ \A k \in Lanes \ {m} : queue'[k] = queue[k]
      BY <2>2, <3>1 DEF Take, Typed, LanesTyped, QueueTyped
    <3>3. /\ Len(queue[m]) \in Nat \ {0} /\ Len(Tail(queue[m])) = Len(queue[m]) - 1
          /\ \A k \in 1..Len(Tail(queue[m])) : Tail(queue[m])[k] = queue[m][k + 1]
      BY <3>1, LaneTypes, HeadTailProperties, EmptySeq
    <3>4. \A k \in 1..Len(Tail(queue[m])) : k + 1 \in 1..Len(queue[m])
      BY <3>3
    <3>5. CASE m = l
      <4>1. i + 1 \in 1..Len(queue[l]) /\ queue'[l][i] = queue[l][i + 1]
        BY <3>2, <3>3, <3>4, <3>5
      <4> QED
        BY <1>3, <4>1 DEF Flying
    <3>6. CASE m # l
      BY <1>3, <3>2, <3>6 DEF Flying
    <3> QED
      BY <3>5, <3>6
  <2>3. CASE Restart
    <3>1. queue'[l] = <<>>
      BY <2>3 DEF Restart
    <3> QED
      BY <1>3, <3>1, EmptySeq
  <2>4. CASE queue' = queue
    BY <1>3, <2>4 DEF Flying
  <2> QED
    BY <2>1, <2>2, <2>3, <2>4 DEF Next, Emit, Store, Switch, Remove, Drop, Dispatch, LeaseHooks, LeasePlugins,
       Discard, Works, Attempt, Settle, Tick, vars, lanes
<1>4. ASSUME NEW v \in Workers, work'[v] # None, work'[v].job.id = d PROVE Flying(d)
  <2>1. ASSUME NEW w \in Workers, Take(w) PROVE Flying(d)
    <3> DEFINE m == LaneOfWorker(w)
    <3>1. m \in Lanes /\ queue[m] # <<>>
      BY <2>1 DEF Take, LaneOfWorker, Lanes
    <3>2. 1 \in 1..Len(queue[m]) /\ Head(queue[m]) = queue[m][1]
      BY <3>1, LaneTypes, HeadTailProperties, EmptySeq
    <3>3. CASE v = w
      <4>1. work'[v] = [job |-> Head(queue[m]), age |-> 0, answer |-> "none"]
        BY <2>1, <3>3 DEF Take, Typed, LanesTyped, WorkTyped
      <4>2. work'[v].job = Head(queue[m])
        BY <4>1
      <4> QED
        BY <1>4, <3>1, <3>2, <4>2 DEF Flying
    <3>4. CASE v # w
      BY <1>4, <2>1, <3>4 DEF Take, Typed, LanesTyped, WorkTyped, Flying
    <3> QED
      BY <3>3, <3>4
  <2>2. ASSUME NEW w \in Workers, Attempt(w) PROVE Flying(d)
    <3>1. PICK a : work' = [work EXCEPT ![w].answer = a]
      BY <2>2 DEF Attempt
    <3>2. work[w] # None /\ work[w] \in Task
      BY <2>2, LaneTypes DEF Attempt, Sends
    <3>3. work[v] # None /\ work'[v].job = work[v].job
      BY <1>4, <3>1, <3>2 DEF Typed, LanesTyped, WorkTyped, Task
    <3> QED
      BY <1>4, <3>3 DEF Flying
  <2>3. ASSUME NEW w \in Workers, Settle(w) PROVE Flying(d)
    BY <1>4, <2>3 DEF Settle, Typed, LanesTyped, WorkTyped, Flying
  <2>4. CASE Tick
    <3>1. work[v] # None /\ (work'[v] = work[v] \/ work'[v] = [work[v] EXCEPT !.age = 1])
      BY <1>4, <2>4 DEF Tick
    <3>2. work'[v].job = work[v].job
      BY <3>1, LaneTypes DEF Task
    <3> QED
      BY <1>4, <3>1, <3>2 DEF Flying
  <2>5. CASE Restart
    BY <1>4, <2>5 DEF Restart
  <2>6. CASE work' = work
    BY <1>4, <2>6 DEF Flying
  <2> QED
    BY <2>1, <2>2, <2>3, <2>4, <2>5, <2>6 DEF Next, Emit, Store, Switch, Remove, Drop, Dispatch, LeaseHooks,
       LeasePlugins, Discard, Queue, Works, vars, lanes
<1>5. Lanes' = Lanes /\ Workers' = Workers
  OBVIOUS
<1> QED
  BY <1>2, <1>3, <1>4 DEF Flying

\* What was stored stays stored or goes.
LEMMA StoredStays ==
  ASSUME Typed, [Next]_vars, NEW d \in Deliveries, stage[d] \in {"stored", "gone"}
  PROVE  stage'[d] \in {"stored", "gone"}
<1>1. CASE \E c \in Deliveries : Emit(c) \/ Store(c)
  BY <1>1 DEF Emit, Store, Typed, TableTyped
<1>2. CASE \E s \in Subscribers : Drop(s)
  BY <1>2 DEF Drop, Gone
<1>3. CASE \E l \in Lanes : Discard(l)
  BY <1>3 DEF Discard, Gone
<1>4. CASE \E w \in Workers : Settle(w)
  BY <1>4 DEF Settle, Gone
<1>5. CASE Restart
  BY <1>5 DEF Restart
<1>6. CASE stage' = stage
  BY <1>6
<1> QED
  BY <1>1, <1>2, <1>3, <1>4, <1>5, <1>6 DEF Next, Switch, Remove, Dispatch, LeaseHooks, LeasePlugins, Queue,
     Works, Take, Attempt, Tick, vars, table

LEMMA FlyingStoredKept ==
  ASSUME Typed, FlyingStored, [Next]_vars
  PROVE  FlyingStored'
<1> SUFFICES ASSUME NEW d \in Deliveries, Flying(d)' PROVE stage'[d] \in {"stored", "gone"}
  BY DEF FlyingStored
<1>1. stage[d] \in {"stored", "gone"}
  BY FlyingFrom DEF FlyingStored, Typed, TableTyped
<1> QED
  BY <1>1, StoredStays

-----------------------------------------------------------------------------
(* A lease outlasts what is ahead *)

LEMMA ReadyCount ==
  ASSUME LeaseOutlasts
  PROVE  W \in Nat /\ Cardinality(Ready) \in Nat /\ Cardinality(Ready) <= W /\ IsFiniteSet(Ready)
<1>1. Ready \subseteq HookWorkers
  BY DEF Ready
<1> QED
  BY <1>1, FS_Subset, FS_CardinalityType DEF LeaseOutlasts, W

LEMMA TwoTicks ==
  ASSUME NEW w \in Nat, NEW due \in Nat, NEW r \in Nat, r <= w, NEW n \in Nat, n >= 1,
         n + 2 * w <= w * due + r
  PROVE  due >= 2
<1>1. CASE due = 0
  BY <1>1
<1>2. CASE due = 1
  BY <1>2
<1> QED
  BY <1>1, <1>2

LEMMA TickOff ==
  ASSUME NEW w \in Nat, NEW due \in Nat, due >= 1
  PROVE  w * (due - 1) + w = w * due
OBVIOUS

LEMMA RowTypes ==
  ASSUME Typed, NEW d \in Deliveries, outbox[d] # None
  PROVE  outbox[d].due \in Nat /\ outbox[d] \in Row
BY BoundsAssumption DEF Typed, TableTyped, Row

LEMMA LaneNumbers ==
  ASSUME Typed, LaneInv
  PROVE  /\ Len(HQ) \in Nat /\ Cardinality(HH) \in Nat
         /\ HQ \in Seq(Job) /\ HH \in SUBSET Job
         /\ \A job : job \in HH => Cardinality(HH) >= 1
<1>1. HQ \in Seq(Job) /\ HH \in SUBSET Job /\ Len(HQ) \in Nat
  BY LaneTypes DEF HQ, HH
<1>2. Cardinality(HH) \in Nat
  BY FS_CardinalityType DEF LaneInv
<1>3. ASSUME NEW job \in HH PROVE Cardinality(HH) >= 1
  <2>1. Cardinality(HH) # 0
    BY <1>3, FS_EmptySet DEF LaneInv
  <2> QED
    BY <1>2, <2>1
<1> QED
  BY <1>1, <1>2, <1>3

LEMMA TurnType ==
  ASSUME Typed, LaneInv, NEW d, NEW n, Turn(d, n)
  PROVE  n \in Nat /\ n >= 1
<1>1. CASE HasPlace(d, n)
  BY <1>1, LaneNumbers DEF HasPlace
<1>2. CASE n = Len(HQ) + Cardinality(HH) /\ \E job : HasJob(d, job)
  BY <1>2, LaneNumbers DEF HasJob
<1> QED
  BY <1>1, <1>2 DEF Turn

Aboard(d) == (\E n : Turn(d, n)) \/ (\E w : HasWorker(d, w))

\* What is in flight is for an endpoint, and its lease has not run out.
LEMMA AboardMeans ==
  ASSUME Typed, Kinds, LaneInv, LeaseOutlasts, NEW d \in Deliveries, Aboard(d)
  PROVE  /\ Flying(d) /\ subscriber[d] \in Hooks
         /\ outbox[d] # None => outbox[d].due >= 1
<1>0. "hooks" \in Lanes /\ HookWorkers \subseteq Workers
  BY DEF Lanes, Workers
<1>1. ASSUME NEW n, Turn(d, n)
      PROVE  /\ Flying(d) /\ subscriber[d] \in Hooks
             /\ outbox[d] # None => outbox[d].due >= 1
  <2>1. Flying(d) /\ subscriber[d] \in Hooks
    <3>1. CASE HasPlace(d, n)
      BY <1>0, <3>1 DEF HasPlace, HQ, Flying, Kinds
    <3>2. CASE \E job : HasJob(d, job)
      BY <1>0, <3>2 DEF HasJob, HH, Flying, Kinds
    <3> QED
      BY <1>1, <3>1, <3>2 DEF Turn
  <2>2. ASSUME outbox[d] # None PROVE outbox[d].due >= 1
    <3>1. n + 2 * W <= W * outbox[d].due + Cardinality(Ready)
      BY <1>1, <2>2 DEF LaneInv, Lasts
    <3>2. outbox[d].due >= 2 /\ outbox[d].due \in Nat
      BY <1>1, <2>2, <3>1, TwoTicks, ReadyCount, TurnType, RowTypes
    <3> QED
      BY <3>2
  <2> QED
    BY <2>1, <2>2
<1>2. ASSUME NEW w, HasWorker(d, w)
      PROVE  /\ Flying(d) /\ subscriber[d] \in Hooks
             /\ outbox[d] # None => outbox[d].due >= 1
  <2>1. Flying(d) /\ subscriber[d] \in Hooks
    BY <1>0, <1>2 DEF HasWorker, Flying, Kinds
  <2>2. work[w].age \in {0, 1}
    BY <1>0, <1>2, LaneTypes DEF HasWorker, Task
  <2>3. ASSUME outbox[d] # None PROVE outbox[d].due >= 1
    <3>1. outbox[d].due + work[w].age >= 2 /\ outbox[d].due \in Nat
      BY <1>2, <2>3, RowTypes DEF LaneInv, Lasts
    <3> QED
      BY <2>2, <3>1
  <2> QED
    BY <2>1, <2>3
<1> QED
  BY <1>1, <1>2 DEF Aboard

\* Nothing but time and its own settling changes the row of what is in flight.
LEMMA RowStays ==
  ASSUME Typed, Kinds, FlyingStored, LaneInv, LeaseOutlasts, [Next]_vars, ~Tick,
         NEW d \in Deliveries, Aboard(d), \A w : HasWorker(d, w) => ~Settle(w), outbox'[d] # None
  PROVE  outbox[d] # None /\ outbox'[d].due = outbox[d].due
<1>1. /\ stage[d] \in {"stored", "gone"} /\ subscriber[d] \in Hooks
      /\ outbox[d] # None => outbox[d].due >= 1
  BY AboardMeans DEF FlyingStored
<1>2. d \notin Due("hooks") /\ d \notin Due("plugins")
  <2>1. outbox[d] # None => outbox[d].due # 0
    BY <1>1
  <2> QED
    BY <2>1 DEF Due
<1>3. CASE \E c \in Deliveries : Store(c)
  BY <1>1, <1>3 DEF Store, Typed, TableTyped
<1>4. CASE \E s \in Subscribers : Drop(s)
  BY <1>4 DEF Drop, Gone
<1>5. CASE LeaseHooks
  <2>1. PICK ds \in SUBSET Due("hooks") : Leased(ds)
    BY <1>5 DEF LeaseHooks
  <2> QED
    BY <1>2, <2>1 DEF Leased
<1>6. CASE LeasePlugins
  <2>1. PICK ds \in Claimable : Leased(ds)
    BY <1>6 DEF LeasePlugins
  <2> QED
    BY <1>2, <2>1 DEF Leased, Claimable
<1>7. CASE \E l \in Lanes : Discard(l)
  BY <1>7 DEF Discard, Gone
<1>8. ASSUME NEW w \in Workers, Settle(w)
      PROVE  outbox[d] # None /\ outbox'[d].due = outbox[d].due
  <2> DEFINE c == work[w].job.id
             n == work[w].job.attempt
  <2>1. work[w] # None /\ c \in Deliveries
    BY <1>8, LaneTypes DEF Settle, Job
  <2>2. c # d
    <3>1. CASE w \in HookWorkers
      BY <1>8, <2>1, <3>1 DEF HasWorker
    <3>2. CASE w \in PluginWorkers
      BY <1>1, <2>1, <3>2, SetsAssumption DEF Kinds
    <3> QED
      BY <3>1, <3>2 DEF Workers
  <2>3. \/ UNCHANGED outbox \/ Gone({c})
        \/ outbox' = [outbox EXCEPT ![c] = [attempt |-> n, due |-> Backoff[n]]]
    BY <1>8 DEF Settle
  <2> QED
    BY <2>1, <2>2, <2>3 DEF Gone, Typed, TableTyped
<1>9. CASE outbox' = outbox
  BY <1>9
<1> QED
  BY <1>3, <1>4, <1>5, <1>6, <1>7, <1>8, <1>9 DEF Next, Emit, Switch, Remove, Dispatch, Queue, Works, Take,
     Attempt, Restart, vars, table

\* A step that brings nothing of an endpoint's nearer its end or further from it.
LaneKept ==
    /\ HH' \subseteq HH /\ HQ' = HQ
    /\ \A w \in HookWorkers :
          work'[w] # None => work[w] # None /\ work'[w].job = work[w].job /\ work'[w].age = work[w].age
    /\ Ready \subseteq Ready'

LEMMA LaneKeptStep ==
  ASSUME Typed, Kinds, FlyingStored, LaneInv, LeaseOutlasts, [Next]_vars, ~Tick, LaneKept
  PROVE  LaneInv'
<1>0. \A w \in HookWorkers : Settle(w) => work'[w] = None
  BY DEF Settle, Typed, LanesTyped, WorkTyped, Workers
<1>1. /\ \A d, j : HasJob(d, j)' => HasJob(d, j)
      /\ \A d, i : HasPlace(d, i)' <=> HasPlace(d, i)
      /\ \A d, w : HasWorker(d, w)' => HasWorker(d, w) /\ work'[w].age = work[w].age
  BY DEF LaneKept, HasJob, HasPlace, HasWorker
<1>2. ASSUME NEW d \in Deliveries PROVE Single(d)'
  <2>1. Single(d)
    BY DEF LaneInv
  <2> QED
    BY <1>1, <2>1 DEF Single
<1>3. /\ IsFiniteSet(HH') /\ Cardinality(HH') <= Cardinality(HH)
      /\ Cardinality(HH') \in Nat /\ Cardinality(HH) \in Nat
  BY FS_Subset, FS_CardinalityType DEF LaneKept, LaneInv
<1>4. /\ Cardinality(Ready) <= Cardinality(Ready') /\ Cardinality(Ready') \in Nat
      /\ Cardinality(Ready) \in Nat /\ W \in Nat
  <2>1. Ready' \subseteq HookWorkers
    BY DEF Ready
  <2>2. IsFiniteSet(Ready')
    BY <2>1, FS_Subset DEF LeaseOutlasts
  <2> QED
    BY <2>2, ReadyCount, FS_Subset, FS_CardinalityType DEF LaneKept
<1>5. ASSUME NEW d \in Deliveries, outbox'[d] # None, Aboard(d), \A w : HasWorker(d, w) => ~Settle(w)
      PROVE  outbox[d] # None /\ outbox'[d].due = outbox[d].due /\ outbox[d].due \in Nat
  BY <1>5, RowStays, RowTypes
<1>6. ASSUME NEW d \in Deliveries, outbox'[d] # None PROVE Lasts(d)'
  <2>0. Single(d) /\ Lasts(d)
    BY DEF LaneInv
  <2>1. ASSUME NEW n, Turn(d, n)' PROVE n + 2 * W <= W * outbox'[d].due + Cardinality(Ready')
    <3>1. \E m \in Nat : Turn(d, m) /\ n \in Nat /\ n <= m
      <4>1. CASE HasPlace(d, n)'
        <5>1. Turn(d, n)
          BY <1>1, <4>1 DEF Turn
        <5> QED
          BY <5>1, TurnType
      <4>2. CASE n = Len(HQ') + Cardinality(HH') /\ \E job : HasJob(d, job)'
        <5>0. PICK job : HasJob(d, job)'
          BY <4>2
        <5>1. Turn(d, Len(HQ) + Cardinality(HH))
          BY <1>1, <5>0 DEF Turn
        <5>2. HQ' = HQ /\ Len(HQ) \in Nat
          BY LaneNumbers DEF LaneKept
        <5> QED
          BY <1>3, <4>2, <5>1, <5>2
      <4> QED
        BY <2>1, <4>1, <4>2 DEF Turn
    <3>2. PICK m \in Nat : Turn(d, m) /\ n \in Nat /\ n <= m
      BY <3>1
    <3>3. \A w : ~HasWorker(d, w)
      BY <2>0, <3>2 DEF Turn, Single
    <3>4. outbox[d] # None /\ outbox'[d].due = outbox[d].due /\ outbox[d].due \in Nat
      BY <1>5, <1>6, <3>2, <3>3 DEF Aboard
    <3>5. m + 2 * W <= W * outbox[d].due + Cardinality(Ready)
      BY <2>0, <3>2, <3>4 DEF Lasts
    <3>6. W * outbox[d].due \in Nat
      BY <1>4, <3>4
    <3> QED
      BY <1>4, <3>2, <3>4, <3>5, <3>6
  <2>2. ASSUME NEW w, HasWorker(d, w)' PROVE outbox'[d].due + work'[w].age >= 2
    <3>1. HasWorker(d, w) /\ work'[w].age = work[w].age /\ \A v : HasWorker(d, v) => v = w
      BY <1>1, <2>0, <2>2 DEF Single
    <3>2. ~Settle(w)
      BY <1>0, <2>2 DEF HasWorker
    <3>3. outbox[d] # None /\ outbox'[d].due = outbox[d].due
      BY <1>5, <1>6, <3>1, <3>2 DEF Aboard
    <3> QED
      BY <2>0, <3>1, <3>3 DEF Lasts
  <2>3. W' = W
    BY DEF W
  <2> QED
    BY <2>1, <2>2, <2>3 DEF Lasts
<1>7. \A d \in Deliveries : Lasts(d)'
  BY <1>6 DEF Lasts
<1> QED
  BY <1>2, <1>3, <1>7 DEF LaneInv, LaneKept

\* Most steps are of that kind.
LEMMA LaneKeptBy ==
  ASSUME Typed, Kinds, LaneInv,
         \/ UNCHANGED lanes \/ LeasePlugins \/ Queue("plugins")
         \/ \E l \in Lanes : Discard(l)
         \/ \E w \in Workers : Attempt(w) \/ Settle(w)
         \/ \E w \in Workers \ HookWorkers : Take(w)
  PROVE  LaneKept
<1>0. "hooks" \in Lanes /\ "plugins" \in Lanes /\ HookWorkers \subseteq Workers
  BY DEF Lanes, Workers
<1>1. CASE UNCHANGED lanes
  BY <1>1 DEF lanes, LaneKept, HH, HQ, Ready
<1>2. CASE LeasePlugins
  <2>1. PICK jobs : hand' = [hand EXCEPT !["plugins"] = jobs]
    BY <1>2 DEF LeasePlugins
  <2>2. HH' = HH
    BY <1>0, <2>1 DEF HH, Typed, LanesTyped, HandTyped
  <2> QED
    BY <1>2, <2>2 DEF LeasePlugins, LaneKept, HQ, Ready
<1>3. CASE Queue("plugins")
  <2>1. PICK job : /\ hand' = [hand EXCEPT !["plugins"] = @ \ {job}]
                   /\ queue' = [queue EXCEPT !["plugins"] = Append(@, job)]
    BY <1>3 DEF Queue
  <2>2. HH' = HH /\ HQ' = HQ
    BY <1>0, <2>1 DEF HH, HQ, Typed, LanesTyped, HandTyped, QueueTyped
  <2> QED
    BY <1>3, <2>2 DEF Queue, LaneKept, Ready
<1>4. ASSUME NEW l \in Lanes, Discard(l) PROVE LaneKept
  <2>1. PICK job : hand' = [hand EXCEPT ![l] = @ \ {job}]
    BY <1>4 DEF Discard
  <2>2. HH' \subseteq HH
    BY <1>0, <2>1 DEF HH, Typed, LanesTyped, HandTyped
  <2> QED
    BY <1>4, <2>2 DEF Discard, LaneKept, HQ, Ready
<1>5. ASSUME NEW w \in Workers, Attempt(w) PROVE LaneKept
  <2>1. PICK a : work' = [work EXCEPT ![w].answer = a]
    BY <1>5 DEF Attempt
  <2>2. work[w] # None /\ work[w] \in Task
    BY <1>5, LaneTypes DEF Attempt, Sends
  <2>3. \A v \in HookWorkers : work'[v] # None =>
            work[v] # None /\ work'[v].job = work[v].job /\ work'[v].age = work[v].age
    BY <1>0, <2>1, <2>2 DEF Typed, LanesTyped, WorkTyped, Task
  <2>4. \A v \in HookWorkers : work[v] = None \/ work[v].age = 1 => work'[v] = None \/ work'[v].age = 1
    BY <1>0, <2>1, <2>2 DEF Typed, LanesTyped, WorkTyped, Task
  <2> QED
    BY <1>5, <2>3, <2>4 DEF Attempt, LaneKept, HH, HQ, Ready
<1>6. ASSUME NEW w \in Workers, Settle(w) PROVE LaneKept
  <2>1. work' = [work EXCEPT ![w] = None]
    BY <1>6 DEF Settle
  <2>2. \A v \in HookWorkers : work'[v] = None \/ work'[v] = work[v]
    BY <1>0, <2>1 DEF Typed, LanesTyped, WorkTyped
  <2> QED
    BY <1>6, <2>2 DEF Settle, LaneKept, HH, HQ, Ready
<1>7. ASSUME NEW w \in Workers \ HookWorkers, Take(w) PROVE LaneKept
  <2>1. LaneOfWorker(w) = "plugins"
    BY DEF LaneOfWorker
  <2>2. HQ' = HQ
    BY <1>0, <1>7, <2>1 DEF Take, HQ, Typed, LanesTyped, QueueTyped
  <2>3. \A v \in HookWorkers : work'[v] = work[v]
    BY <1>0, <1>7 DEF Take, Typed, LanesTyped, WorkTyped
  <2> QED
    BY <1>7, <2>2, <2>3 DEF Take, LaneKept, HH, Ready
<1> QED
  BY <1>1, <1>2, <1>3, <1>4, <1>5, <1>6, <1>7

\* Events are emitted one at a time, so there are finitely many of them.
Emitted == {d \in Deliveries : subscriber[d] # None}

LEMMA EmittedKept ==
  ASSUME Typed, [Next]_vars, IsFiniteSet(Emitted)
  PROVE  IsFiniteSet(Emitted')
<1>1. CASE \E c \in Deliveries : Emit(c)
  <2>1. PICK c \in Deliveries : Emit(c)
    BY <1>1
  <2>2. Emitted' \subseteq Emitted \cup {c}
    BY <2>1 DEF Emit, Emitted, Typed, TableTyped
  <2> QED
    BY <2>2, FS_AddElement, FS_Subset
<1>2. CASE ~ \E c \in Deliveries : Emit(c)
  <2>1. subscriber' = subscriber
    BY <1>2 DEF Next, Store, Switch, Remove, Drop, Dispatch, LeaseHooks, LeasePlugins, Discard, Queue,
                Works, Take, Attempt, Settle, Tick, Restart, vars, table
  <2> QED
    BY <2>1 DEF Emitted
<1> QED
  BY <1>1, <1>2

LEMMA JobsCount ==
  ASSUME NEW ds, IsFiniteSet(ds)
  PROVE  IsFiniteSet(Jobs(ds)) /\ Cardinality(Jobs(ds)) <= Cardinality(ds)
<1> DEFINE ids == [job \in Jobs(ds) |-> job.id]
<1>1. ids \in [Jobs(ds) -> ds]
  BY DEF Jobs
<1>2. \A j, k \in Jobs(ds) : ids[j] = ids[k] => j = k
  BY DEF Jobs
<1>3. ids \in Injection(Jobs(ds), ds)
  BY <1>1, <1>2 DEF Injection, IsInjective
<1> QED
  BY <1>3, FS_Injection

\* A batch is leased for longer than the channel and the workers have to do before it.
LEMMA LaneLease ==
  ASSUME Typed, Kinds, FlyingStored, LaneInv, LeaseOutlasts, IsFiniteSet(Emitted), LeaseHooks
  PROVE  LaneInv'
<1>1. PICK ds \in SUBSET Due("hooks") :
         /\ (Cardinality(ds) = Batch) \/ (ds = Due("hooks") /\ Cardinality(ds) < Batch)
         /\ Leased(ds)
         /\ hand' = [hand EXCEPT !["hooks"] = Jobs(ds)] \/ UNCHANGED hand
  BY DEF LeaseHooks
<1>2. /\ HH = {} /\ HQ' = HQ /\ work' = work /\ Ready' = Ready /\ W' = W
      /\ HH' = {} \/ HH' = Jobs(ds)
  BY <1>1, LaneTypes DEF LeaseHooks, HH, HQ, Ready, W, Typed, LanesTyped, HandTyped
<1>3. ds \subseteq Deliveries /\ \A d \in ds : outbox[d] # None /\ outbox[d].due = 0
  BY <1>1 DEF Due
<1>4. /\ IsFiniteSet(HH') /\ Cardinality(HH') \in Nat /\ Cardinality(HH') <= Batch
  <2>1. IsFiniteSet(ds) /\ Cardinality(ds) <= Batch
    <3>1. ds \subseteq Emitted
      BY <1>3 DEF Emitted, Typed, TableTyped
    <3>2. Cardinality(ds) \in Nat /\ IsFiniteSet(ds)
      BY <3>1, FS_Subset, FS_CardinalityType
    <3> QED
      BY <1>1, <3>2, BoundsAssumption
  <2>2. IsFiniteSet(Jobs(ds)) /\ Cardinality(Jobs(ds)) <= Cardinality(ds)
    BY <2>1, JobsCount
  <2>3. Cardinality(ds) \in Nat /\ Cardinality(Jobs(ds)) \in Nat
    BY <2>1, <2>2, FS_CardinalityType
  <2>4. Cardinality({}) = 0 /\ IsFiniteSet({})
    BY FS_EmptySet
  <2>5. CASE HH' = {}
    BY <2>4, <2>5, BoundsAssumption
  <2>6. CASE HH' = Jobs(ds)
    <3>1. Cardinality(Jobs(ds)) <= Batch
      BY <2>1, <2>2, <2>3, BoundsAssumption
    <3> QED
      BY <2>2, <2>3, <2>6, <3>1
  <2> QED
    BY <1>2, <2>5, <2>6
<1>5. ASSUME NEW d \in ds PROVE ~Aboard(d)
  <2>1. d \in Deliveries /\ outbox[d] # None /\ ~(outbox[d].due >= 1)
    BY <1>3
  <2> QED
    BY <2>1, AboardMeans
<1>6. /\ \A d, j : HasJob(d, j)' => d \in ds /\ j = [id |-> d, attempt |-> outbox[d].attempt + 1]
      /\ \A d, i : HasPlace(d, i)' <=> HasPlace(d, i)
      /\ \A d, w : HasWorker(d, w)' <=> HasWorker(d, w)
  BY <1>2 DEF HasJob, HasPlace, HasWorker, Jobs
<1>7. ASSUME NEW d \in Deliveries PROVE Single(d)'
  <2>1. Single(d)
    BY DEF LaneInv
  <2>2. CASE d \in ds
    <3>1. (\A i : ~HasPlace(d, i)) /\ (\A w : ~HasWorker(d, w))
      BY <1>5, <2>2 DEF Aboard, Turn
    <3> QED
      BY <1>6, <3>1 DEF Single
  <2>3. CASE d \notin ds
    BY <1>6, <2>1, <2>3 DEF Single
  <2> QED
    BY <2>2, <2>3
<1>8. ASSUME NEW d \in Deliveries, outbox'[d] # None PROVE Lasts(d)'
  <2>1. CASE d \in ds
    <3>1. outbox'[d].due = Lease
      BY <1>1, <1>3, <2>1 DEF Leased, Typed, TableTyped, Row
    <3>2. \A w : ~HasWorker(d, w)'
      BY <1>5, <1>6, <2>1 DEF Aboard
    <3>3. \A n : Turn(d, n)' => n = Len(HQ) + Cardinality(HH')
      BY <1>2, <1>5, <1>6, <2>1 DEF Aboard, Turn
    <3>4. Len(HQ) \in Nat /\ Len(HQ) <= QueueLength
      BY LaneNumbers DEF LaneInv
    <3>5. W \in Nat /\ W * Lease \in Nat /\ Cardinality(Ready) \in Nat
      BY ReadyCount, BoundsAssumption
    <3>6. (Len(HQ) + Cardinality(HH')) + 2 * W <= W * Lease + Cardinality(Ready)
      BY <1>4, <3>4, <3>5, BoundsAssumption DEF LeaseOutlasts
    <3> QED
      BY <1>2, <3>1, <3>2, <3>3, <3>6 DEF Lasts
  <2>2. CASE d \notin ds
    <3>1. outbox'[d] = outbox[d]
      BY <1>1, <2>2 DEF Leased
    <3>2. \A n : Turn(d, n)' => HasPlace(d, n)
      BY <1>6, <2>2 DEF Turn
    <3>3. \A n : Turn(d, n)' => Turn(d, n)
      BY <3>2 DEF Turn
    <3> QED
      BY <1>2, <1>6, <1>8, <3>1, <3>3 DEF LaneInv, Lasts
  <2> QED
    BY <2>1, <2>2
<1>9. \A d \in Deliveries : Lasts(d)'
  BY <1>8 DEF Lasts
<1> QED
  BY <1>2, <1>4, <1>7, <1>9 DEF LaneInv

\* The dispatcher gives the channel what it holds, which is no further from its turn.
LEMMA LaneQueue ==
  ASSUME Typed, Kinds, FlyingStored, LaneInv, LeaseOutlasts, Queue("hooks"), [Next]_vars
  PROVE  LaneInv'
<1>1. PICK job \in HH : /\ hand' = [hand EXCEPT !["hooks"] = @ \ {job}]
                        /\ queue' = [queue EXCEPT !["hooks"] = Append(@, job)]
  BY DEF Queue, HH
<1>2. /\ HH' = HH \ {job} /\ HQ' = Append(HQ, job)
      /\ HQ \in Seq(Job) /\ job \in Job /\ Len(HQ) \in Nat
  BY <1>1, LaneTypes DEF HH, HQ, Typed, LanesTyped, HandTyped, QueueTyped
<1>3. /\ Len(HQ') = Len(HQ) + 1
      /\ \A i \in 1..Len(HQ) : HQ'[i] = HQ[i]
      /\ HQ'[Len(HQ) + 1] = job
  BY <1>2, AppendProperties
<1>4. UNCHANGED <<outbox, work>> /\ Len(HQ) < QueueLength
  BY DEF Queue, table, Room, HQ
<1>5. /\ Cardinality(HH) \in Nat /\ Cardinality(HH) >= 1
      /\ IsFiniteSet(HH') /\ Cardinality(HH') = Cardinality(HH) - 1
  <2>1. Cardinality(HH) \in Nat /\ Cardinality(HH) >= 1
    BY LaneNumbers
  <2> QED
    BY <1>1, <1>2, <2>1, FS_RemoveElement, FS_Subset DEF LaneInv
<1>6. /\ \A d, j : HasJob(d, j)' <=> HasJob(d, j) /\ j # job
      /\ \A d, i : HasPlace(d, i)' <=> HasPlace(d, i) \/ (i = Len(HQ) + 1 /\ job.id = d)
      /\ \A d, w : HasWorker(d, w)' <=> HasWorker(d, w)
      /\ \A d : job.id = d => HasJob(d, job)
      /\ \A d : ~HasPlace(d, Len(HQ) + 1)
  <2>1. \A i : i \in 1..Len(HQ') <=> i \in 1..Len(HQ) \/ i = Len(HQ) + 1
    BY <1>2, <1>3
  <2>2. Len(HQ) + 1 \notin 1..Len(HQ)
    BY <1>2
  <2>3. \A d, i : HasPlace(d, i)' <=> HasPlace(d, i) \/ (i = Len(HQ) + 1 /\ job.id = d)
    BY <1>3, <2>1, <2>2 DEF HasPlace
  <2> QED
    BY <1>1, <1>2, <1>4, <2>2, <2>3 DEF HasJob, HasPlace, HasWorker
<1>7. ASSUME NEW d \in Deliveries PROVE Single(d)'
  <2>1. Single(d)
    BY DEF LaneInv
  <2>2. CASE job.id = d
    <3>1. \A j : ~HasJob(d, j)'
      BY <1>6, <2>1, <2>2 DEF Single
    <3>2. \A i : HasPlace(d, i)' => i = Len(HQ) + 1
      BY <1>6, <2>1, <2>2 DEF Single
    <3>3. \A w : ~HasWorker(d, w)'
      BY <1>6, <2>1, <2>2 DEF Single
    <3> QED
      BY <3>1, <3>2, <3>3 DEF Single
  <2>3. CASE job.id # d
    BY <1>6, <2>1, <2>3 DEF Single
  <2> QED
    BY <2>2, <2>3
<1>8. \A d, n : Turn(d, n)' => Turn(d, n) \/ (n = Len(HQ) + 1 /\ HasJob(d, job))
  <2>1. Len(HQ') + Cardinality(HH') = Len(HQ) + Cardinality(HH)
    BY <1>2, <1>3, <1>5
  <2> QED
    BY <1>6, <2>1 DEF Turn
<1>9. Ready' = Ready /\ W' = W
  BY <1>4 DEF Ready, W
<1>10. ASSUME NEW d \in Deliveries, outbox[d] # None PROVE Lasts(d)'
  <2>1. Lasts(d)
    BY DEF LaneInv
  <2>2. ASSUME NEW n, Turn(d, n)' PROVE n + 2 * W <= W * outbox[d].due + Cardinality(Ready)
    <3>1. CASE Turn(d, n)
      BY <1>10, <2>1, <3>1 DEF Lasts
    <3>2. CASE n = Len(HQ) + 1 /\ HasJob(d, job)
      <4>1. Turn(d, Len(HQ) + Cardinality(HH))
        BY <3>2 DEF Turn
      <4>2. (Len(HQ) + Cardinality(HH)) + 2 * W <= W * outbox[d].due + Cardinality(Ready)
        BY <1>10, <2>1, <4>1 DEF Lasts
      <4>3. W * outbox[d].due \in Nat /\ W \in Nat /\ Cardinality(Ready) \in Nat
        BY <1>10, ReadyCount, RowTypes
      <4> QED
        BY <1>2, <1>5, <3>2, <4>2, <4>3
    <3> QED
      BY <1>8, <2>2, <3>1, <3>2
  <2>3. \A w : HasWorker(d, w)' => outbox'[d].due + work'[w].age >= 2
    BY <1>4, <1>6, <1>10, <2>1 DEF Lasts
  <2> QED
    BY <1>4, <1>9, <2>2, <2>3 DEF Lasts
<1>11. \A d \in Deliveries : Lasts(d)'
  BY <1>4, <1>10 DEF Lasts
<1>12. Len(HQ') <= QueueLength
  BY <1>2, <1>3, <1>4, BoundsAssumption
<1> QED
  BY <1>5, <1>7, <1>11, <1>12 DEF LaneInv

\* A worker that takes the next one was ready, and everything behind moves up.
LEMMA LaneTake ==
  ASSUME Typed, Kinds, LaneInv, LeaseOutlasts, NEW w \in HookWorkers, Take(w)
  PROVE  LaneInv'
<1> DEFINE job == HQ[1]
<1>0. w \in Workers /\ LaneOfWorker(w) = "hooks" /\ "hooks" \in Lanes
  BY DEF Workers, LaneOfWorker, Lanes
<1>1. /\ HQ # <<>> /\ HQ \in Seq(Job) /\ Len(HQ) \in Nat /\ Len(HQ) >= 1 /\ Head(HQ) = job
      /\ job \in Job /\ Tail(HQ) \in Seq(Job) /\ Len(Tail(HQ)) = Len(HQ) - 1
      /\ \A i \in 1..Len(Tail(HQ)) : Tail(HQ)[i] = HQ[i + 1]
  <2>1. HQ # <<>> /\ HQ \in Seq(Job)
    BY <1>0, LaneTypes DEF Take, HQ
  <2>2. Len(HQ) \in Nat /\ Len(HQ) # 0
    BY <2>1, EmptySeq, LenProperties
  <2> QED
    BY <2>1, <2>2, HeadTailProperties
<1>2. /\ HQ' = Tail(HQ) /\ HH' = HH /\ outbox' = outbox /\ work[w] = None
      /\ work'[w] = [job |-> job, age |-> 0, answer |-> "none"]
      /\ \A v \in Workers \ {w} : work'[v] = work[v]
  BY <1>0, <1>1 DEF Take, Typed, LanesTyped, QueueTyped, WorkTyped, HQ, HH, table
<1>3. work'[w] # None /\ work'[w].job = job /\ work'[w].age = 0
  BY <1>1, <1>2, NoneAssumption DEF Task
<1>4. /\ \A i \in 1..Len(HQ') : i \in Nat /\ i >= 1 /\ i + 1 \in 1..Len(HQ) /\ HQ'[i] = HQ[i + 1] /\ i + 1 # 1
      /\ 1 \in 1..Len(HQ) /\ Len(HQ') = Len(HQ) - 1
  BY <1>1, <1>2
<1>5. /\ \A d, j : HasJob(d, j)' <=> HasJob(d, j)
      /\ \A d, i : HasPlace(d, i)' => HasPlace(d, i + 1) /\ i \in Nat /\ i >= 1 /\ i + 1 # 1
      /\ \A d, v : HasWorker(d, v)' => HasWorker(d, v) \/ (v = w /\ HasPlace(d, 1))
      /\ \A d, v : v # w => (HasWorker(d, v)' <=> HasWorker(d, v))
  <2>1. \A d, v : HasWorker(d, v)' => HasWorker(d, v) \/ (v = w /\ HasPlace(d, 1))
    BY <1>2, <1>3, <1>4 DEF HasWorker, HasPlace, Workers
  <2>2. \A d, v : v # w => (HasWorker(d, v)' <=> HasWorker(d, v))
    BY <1>2 DEF HasWorker, Workers
  <2> QED
    BY <1>2, <1>4, <2>1, <2>2 DEF HasJob, HasPlace
<1>6. ASSUME NEW d \in Deliveries PROVE Single(d)'
  <2>1. Single(d)
    BY DEF LaneInv
  <2>2. \A i, k : HasPlace(d, i)' /\ HasPlace(d, k)' => i = k
    <3> SUFFICES ASSUME NEW i, NEW k, HasPlace(d, i)', HasPlace(d, k)' PROVE i = k
      OBVIOUS
    <3>1. i + 1 = k + 1 /\ i \in Nat /\ k \in Nat
      BY <1>5, <2>1 DEF Single
    <3> QED
      BY <3>1
  <2>3. \A i, v : ~(HasPlace(d, i)' /\ HasWorker(d, v)')
    BY <1>5, <2>1 DEF Single
  <2>4. \A v, u : HasWorker(d, v)' /\ HasWorker(d, u)' => v = u
    BY <1>5, <2>1 DEF Single
  <2>5. \A j, v : ~(HasJob(d, j)' /\ HasWorker(d, v)')
    BY <1>5, <2>1 DEF Single
  <2> QED
    BY <1>5, <2>1, <2>2, <2>3, <2>4, <2>5 DEF Single
<1>7. /\ Ready' = Ready \ {w} /\ w \in Ready /\ W' = W
      /\ Cardinality(Ready') = Cardinality(Ready) - 1 /\ Cardinality(Ready) \in Nat /\ W \in Nat
  <2>1. w \in Ready
    BY <1>2 DEF Ready
  <2>2. Ready' = Ready \ {w}
    BY <1>2, <1>3 DEF Ready, Workers
  <2> QED
    BY <2>1, <2>2, ReadyCount, FS_RemoveElement DEF W
<1>8. \A d, n : Turn(d, n)' => Turn(d, n + 1) /\ n \in Int
  <2> SUFFICES ASSUME NEW d, NEW n, Turn(d, n)' PROVE Turn(d, n + 1) /\ n \in Int
    OBVIOUS
  <2>1. CASE HasPlace(d, n)'
    BY <1>5, <2>1 DEF Turn
  <2>2. CASE n = Len(HQ') + Cardinality(HH') /\ \E j : HasJob(d, j)'
    <3>1. n = Len(HQ') + Cardinality(HH) /\ \E j : HasJob(d, j)
      BY <1>2, <1>5, <2>2
    <3>2. n \in Int /\ n + 1 = Len(HQ) + Cardinality(HH)
      BY <1>1, <1>4, <3>1, LaneNumbers
    <3> QED
      BY <3>1, <3>2 DEF Turn
  <2> QED
    BY <2>1, <2>2 DEF Turn
<1>9. ASSUME NEW d \in Deliveries, outbox[d] # None PROVE Lasts(d)'
  <2>1. Lasts(d) /\ Single(d) /\ outbox[d].due \in Nat /\ W * outbox[d].due \in Nat
    BY <1>7, <1>9, RowTypes DEF LaneInv
  <2>2. ASSUME NEW n, Turn(d, n)' PROVE n + 2 * W <= W * outbox[d].due + Cardinality(Ready')
    <3>1. (n + 1) + 2 * W <= W * outbox[d].due + Cardinality(Ready) /\ n \in Int
      BY <1>8, <1>9, <2>1, <2>2 DEF Lasts
    <3> QED
      BY <1>7, <2>1, <3>1
  <2>3. ASSUME NEW v, HasWorker(d, v)' PROVE outbox[d].due + work'[v].age >= 2
    <3>1. CASE HasWorker(d, v) /\ v # w
      BY <1>2, <1>9, <2>1, <3>1 DEF Lasts, HasWorker, Workers
    <3>2. CASE v = w
      <4>1. HasPlace(d, 1)
        BY <1>2, <1>5, <2>3, <3>2 DEF HasWorker
      <4>2. 1 + 2 * W <= W * outbox[d].due + Cardinality(Ready)
        BY <1>9, <2>1, <4>1 DEF Lasts, Turn
      <4>3. outbox[d].due >= 2
        BY <2>1, <4>2, ReadyCount, TwoTicks
      <4> QED
        BY <1>3, <2>1, <3>2, <4>3
    <3> QED
      BY <1>5, <2>3, <3>1, <3>2
  <2> QED
    BY <1>2, <1>7, <2>2, <2>3 DEF Lasts
<1>10. \A d \in Deliveries : Lasts(d)'
  BY <1>2, <1>9 DEF Lasts
<1>11. Len(HQ') <= QueueLength /\ IsFiniteSet(HH')
  BY <1>1, <1>2, <1>4, BoundsAssumption DEF LaneInv
<1> QED
  BY <1>6, <1>10, <1>11 DEF LaneInv

\* Time passes only when every worker has had its tick or has nothing to take, and then
\* each of them takes one more before the next.
LEMMA LaneTick ==
  ASSUME Typed, Kinds, LaneInv, LeaseOutlasts, Tick
  PROVE  LaneInv'
<1>0. HookWorkers \subseteq Workers /\ "hooks" \in Lanes
  BY DEF Workers, Lanes
<1>1. HQ' = HQ /\ HH' = HH /\ W' = W
  BY DEF Tick, HQ, HH, W
<1>2. \A w \in HookWorkers : (work'[w] = None <=> work[w] = None)
                             /\ (work[w] # None => work'[w].job = work[w].job /\ work'[w].age = 1)
  <2>1. ASSUME NEW w \in HookWorkers, work[w] # None
        PROVE  work'[w] # None /\ work'[w].job = work[w].job /\ work'[w].age = 1
    <3>1. work'[w] = [work[w] EXCEPT !.age = 1] /\ work[w] \in Task
      BY <1>0, <2>1, LaneTypes DEF Tick
    <3>2. [work[w] EXCEPT !.age = 1] \in Task
      BY <3>1 DEF Task
    <3> QED
      BY <3>1, <3>2, NoneAssumption DEF Task
  <2>2. ASSUME NEW w \in HookWorkers, work[w] = None PROVE work'[w] = None
    BY <1>0, <2>2 DEF Tick
  <2> QED
    BY <2>1, <2>2
<1>3. /\ \A d, j : HasJob(d, j)' <=> HasJob(d, j)
      /\ \A d, i : HasPlace(d, i)' <=> HasPlace(d, i)
      /\ \A d, w : HasWorker(d, w)' <=> HasWorker(d, w)
      /\ \A d, n : Turn(d, n)' <=> Turn(d, n)
  BY <1>1, <1>2 DEF HasJob, HasPlace, HasWorker, Turn
<1>4. \A d \in Deliveries : Single(d)'
  BY <1>3 DEF LaneInv, Single
<1>5. ASSUME NEW d, NEW n, Turn(d, n)
      PROVE  Ready = {} /\ Ready' = HookWorkers
  <2>1. HQ # <<>>
    <3>1. CASE HasPlace(d, n)
      BY <3>1, LaneNumbers, EmptySeq DEF HasPlace
    <3>2. CASE \E job : HasJob(d, job)
      <4>1. ~(Len(HQ) < QueueLength)
        BY <1>0, <3>2 DEF Tick, Prompt, Room, HasJob, HH, HQ
      <4>2. Len(HQ) # 0
        BY <4>1, LaneNumbers, BoundsAssumption
      <4> QED
        BY <4>2, LaneNumbers, EmptySeq
    <3> QED
      BY <1>5, <3>1, <3>2 DEF Turn
  <2>2. \A w \in HookWorkers : work[w] # None /\ work[w].age = 0
    BY <1>0, <2>1 DEF Tick, Prompt, LaneOfWorker, HQ
  <2> QED
    BY <1>2, <2>2 DEF Ready
<1>6. ASSUME NEW d \in Deliveries, outbox'[d] # None PROVE Lasts(d)'
  <2>1. /\ Lasts(d) /\ outbox[d] # None /\ outbox[d].due \in Nat /\ W \in Nat
        /\ outbox[d].due > 0 => outbox'[d].due = outbox[d].due - 1
    <3>1. outbox[d] # None
      BY <1>6 DEF Tick
    <3>2. outbox[d].due \in Nat /\ outbox[d] \in Row
      BY <3>1, RowTypes
    <3>3. outbox[d].due > 0 => outbox'[d] = [outbox[d] EXCEPT !.due = @ - 1]
      BY <3>1 DEF Tick
    <3>4. outbox[d].due > 0 => outbox'[d].due = outbox[d].due - 1
      BY <3>2, <3>3 DEF Row
    <3> QED
      BY <3>1, <3>2, <3>4, ReadyCount DEF LaneInv
  <2>2. ASSUME NEW n, Turn(d, n)' PROVE n + 2 * W <= W * outbox'[d].due + Cardinality(Ready')
    <3>1. Turn(d, n) /\ n \in Nat /\ n >= 1
      BY <1>3, <2>2, TurnType
    <3>2. n + 2 * W <= W * outbox[d].due + Cardinality(Ready)
      BY <2>1, <3>1 DEF Lasts
    <3>3. outbox[d].due >= 2
      BY <2>1, <3>1, <3>2, ReadyCount, TwoTicks
    <3>4. Cardinality(Ready) = 0 /\ Cardinality(Ready') = W
      BY <1>5, <3>1, FS_EmptySet DEF W
    <3>5. W * (outbox[d].due - 1) + W = W * outbox[d].due
      BY <2>1, <3>3, TickOff
    <3>6. outbox'[d].due = outbox[d].due - 1
      BY <2>1, <3>3
    <3>7. W * outbox[d].due \in Nat
      BY <2>1
    <3>8. n + 2 * W <= W * (outbox[d].due - 1) + W
      BY <3>2, <3>4, <3>5, <3>7
    <3> QED
      BY <3>4, <3>6, <3>8
  <2>3. ASSUME NEW w, HasWorker(d, w)' PROVE outbox'[d].due + work'[w].age >= 2
    <3>1. HasWorker(d, w) /\ work'[w].age = 1
      BY <1>2, <1>3, <2>3 DEF HasWorker
    <3>2. work[w].age = 0
      BY <3>1 DEF Tick, Prompt, HasWorker
    <3>3. outbox[d].due >= 2
      BY <2>1, <3>1, <3>2 DEF Lasts
    <3> QED
      BY <2>1, <3>1, <3>3
  <2> QED
    BY <1>1, <2>2, <2>3 DEF Lasts
<1>7. \A d \in Deliveries : Lasts(d)'
  BY <1>6 DEF Lasts
<1> QED
  BY <1>1, <1>4, <1>7 DEF LaneInv

NothingOut == Len(HQ) = 0 /\ HH = {} /\ \A w \in HookWorkers : work[w] = None

\* Before anything is in flight, and after a restart.
LEMMA LaneEmpty == NothingOut => LaneInv
<1> SUFFICES ASSUME NothingOut PROVE LaneInv
  OBVIOUS
<1>1. \A d : /\ \A j : ~HasJob(d, j)
             /\ \A i : ~HasPlace(d, i)
             /\ \A w : ~HasWorker(d, w)
  BY DEF NothingOut, HasJob, HasPlace, HasWorker
<1> QED
  BY <1>1, FS_EmptySet, BoundsAssumption DEF NothingOut, LaneInv, Single, Lasts, Turn

LEMMA LaneEmptyAfter == (NothingOut => LaneInv)'
BY LaneEmpty, PTL

LEMMA LaneStep ==
  ASSUME Typed, Kinds, FlyingStored, LaneInv, LeaseOutlasts, IsFiniteSet(Emitted), [Next]_vars
  PROVE  LaneInv'
<1>0. "hooks" \in Lanes /\ HookWorkers \subseteq Workers
  BY DEF Lanes, Workers
<1>1. CASE Restart
  <2>1. Len(HQ') = 0 /\ HH' = {}
    BY <1>0, <1>1, EmptySeq DEF Restart, HQ, HH
  <2>2. \A w \in HookWorkers : work'[w] = None
    BY <1>0, <1>1 DEF Restart
  <2> QED
    BY <2>1, <2>2, LaneEmptyAfter DEF NothingOut
<1>2. CASE Tick
  BY <1>2, LaneTick
<1>3. CASE \/ UNCHANGED lanes \/ LeasePlugins \/ Queue("plugins")
           \/ \E l \in Lanes : Discard(l)
           \/ \E w \in Workers : Attempt(w) \/ Settle(w)
           \/ \E w \in Workers \ HookWorkers : Take(w)
  <2>1. LaneKept
    BY <1>3, LaneKeptBy
  <2>2. CASE ~Tick
    BY <2>1, <2>2, LaneKeptStep
  <2> QED
    BY <1>2, <2>2
<1>4. CASE LeaseHooks
  BY <1>4, LaneLease
<1>5. CASE Queue("hooks")
  BY <1>5, LaneQueue
<1>6. ASSUME NEW w \in HookWorkers, Take(w) PROVE LaneInv'
  BY <1>6, LaneTake
<1>7. CASE (\E d \in Deliveries : Emit(d) \/ Store(d))
           \/ (\E s \in Subscribers : Switch(s) \/ Remove(s) \/ Drop(s)) \/ UNCHANGED vars
  <2>1. UNCHANGED lanes
    BY <1>7 DEF Emit, Store, Switch, Remove, Drop, vars
  <2> QED
    BY <1>3, <2>1
<1> QED
  BY <1>1, <1>2, <1>3, <1>4, <1>5, <1>6, <1>7 DEF Next, Dispatch, Works, Lanes

LEMMA LaneInit == Init => LaneInv /\ FlyingStored /\ IsFiniteSet(Emitted)
<1> SUFFICES ASSUME Init PROVE LaneInv /\ FlyingStored /\ IsFiniteSet(Emitted)
  OBVIOUS
<1>1. \A l \in Lanes : hand[l] = {} /\ 1..Len(queue[l]) = {} /\ Len(queue[l]) = 0
  BY EmptySeq DEF Init
<1>2. NothingOut
  BY <1>1 DEF Init, NothingOut, HQ, HH, Lanes, Workers
<1>3. FlyingStored
  BY <1>1 DEF Init, FlyingStored, Flying
<1>4. Emitted = {}
  BY DEF Init, Emitted
<1> QED
  BY <1>2, <1>3, <1>4, LaneEmpty, FS_EmptySet

Kept == Typed /\ OnePerPlugin /\ FlyingStored /\ LaneInv /\ IsFiniteSet(Emitted)

LEMMA KeptNext ==
  ASSUME LeaseOutlasts, Kept, [Next]_vars
  PROVE  Kept'
<1>1. Typed' /\ OnePerPlugin' /\ FlyingStored'
  BY NextTyped, OneNext, FlyingStoredKept DEF Kept
<1>2. LaneInv'
  BY LaneStep DEF Kept, OnePerPlugin
<1>3. IsFiniteSet(Emitted')
  BY EmittedKept DEF Kept
<1> QED
  BY <1>1, <1>2, <1>3 DEF Kept

LEMMA InitKept == Init => Kept
BY InitTyped, OneInit, LaneInit DEF Kept

LEMMA KeptAlways ==
  ASSUME LeaseOutlasts
  PROVE  Spec => []Kept
<1>1. Kept /\ [Next]_vars => Kept'
  BY KeptNext
<1> QED
  BY <1>1, InitKept, PTL DEF Spec

-----------------------------------------------------------------------------
(* A delivery is sent by one worker *)

JobAt(d, l, job) == l \in Lanes /\ job \in hand[l] /\ job.id = d
PlaceAt(d, l, i) == l \in Lanes /\ i \in 1..Len(queue[l]) /\ queue[l][i].id = d
SenderAt(d, w) == w \in Workers /\ work[w] # None /\ work[w].job.id = d

\* In either lane, what is in flight is in one place.
OnePlace(d) ==
    /\ \A l, m, j, k : JobAt(d, l, j) /\ JobAt(d, m, k) => l = m /\ j = k
    /\ \A l, m, i, k : PlaceAt(d, l, i) /\ PlaceAt(d, m, k) => l = m /\ i = k
    /\ \A v, w : SenderAt(d, v) /\ SenderAt(d, w) => v = w
    /\ \A l, j, m, i : ~(JobAt(d, l, j) /\ PlaceAt(d, m, i))
    /\ \A l, j, w : ~(JobAt(d, l, j) /\ SenderAt(d, w))
    /\ \A l, i, w : ~(PlaceAt(d, l, i) /\ SenderAt(d, w))

LEMMA InOnePlace ==
  ASSUME Kept, NEW d \in Deliveries
  PROVE  OnePlace(d)
<1> DEFINE p == subscriber[d]
<1>0. Kinds /\ Single(d) /\ \A q \in Plugins : Alone(q)
  BY DEF Kept, OnePerPlugin, LaneInv
<1>1. CASE p \in Hooks
  <2>1. p \notin Plugins
    BY <1>1, SetsAssumption
  <2>2. \A l, j : JobAt(d, l, j) => l = "hooks" /\ HasJob(d, j)
    BY <1>0, <2>1 DEF Kinds, JobAt, HasJob, HH, Lanes
  <2>3. \A l, i : PlaceAt(d, l, i) => l = "hooks" /\ HasPlace(d, i)
    BY <1>0, <2>1 DEF Kinds, PlaceAt, HasPlace, HQ, Q, Lanes
  <2>4. \A w : SenderAt(d, w) => HasWorker(d, w)
    BY <1>0, <2>1 DEF Kinds, SenderAt, HasWorker, Workers
  <2> QED
    BY <1>0, <2>2, <2>3, <2>4 DEF Single, OnePlace
<1>2. CASE p \in Plugins
  <2>1. p \notin Hooks
    BY <1>2, SetsAssumption
  <2>2. \A l, j : JobAt(d, l, j) => l = "plugins" /\ InHand(p, j)
    BY <1>0, <2>1 DEF Kinds, JobAt, InHand, Lanes
  <2>3. \A l, i : PlaceAt(d, l, i) => l = "plugins" /\ InQueue(p, i)
    BY <1>0, <2>1 DEF Kinds, PlaceAt, InQueue, Q, Lanes
  <2>4. \A w : SenderAt(d, w) => InWork(p, w)
    BY <1>0, <2>1 DEF Kinds, SenderAt, InWork, Workers
  <2>5. Alone(p)
    BY <1>0, <1>2
  <2> QED
    BY <2>2, <2>3, <2>4, <2>5 DEF Alone, OnePlace
<1>3. CASE p \notin Hooks \cup Plugins
  <2>1. \A l, j : ~JobAt(d, l, j)
    BY <1>0, <1>3 DEF Kinds, JobAt, Lanes
  <2>2. \A l, i : ~PlaceAt(d, l, i)
    BY <1>0, <1>3 DEF Kinds, PlaceAt, Q, Lanes
  <2>3. \A w : ~SenderAt(d, w)
    BY <1>0, <1>3 DEF Kinds, SenderAt, Workers
  <2> QED
    BY <2>1, <2>2, <2>3 DEF OnePlace
<1> QED
  BY <1>1, <1>2, <1>3

LEMMA AtMostOne ==
  ASSUME NEW S, \A x, y \in S : x = y
  PROVE  /\ Cardinality(S) = 0 \/ Cardinality(S) = 1
         /\ S = {} => Cardinality(S) = 0
<1>1. CASE S = {}
  BY <1>1, FS_EmptySet
<1>2. CASE S # {}
  <2>1. PICK x \in S : TRUE
    BY <1>2
  <2>2. S = {x}
    BY <2>1
  <2>3. Cardinality({x}) = 1
    BY FS_Singleton
  <2> QED
    BY <1>2, <2>2, <2>3
<1> QED
  BY <1>1, <1>2

\* OneSender: no delivery waits for or is sent by two workers at once, as long as a lease is
\* longer than it takes the workers to get through a full channel and a batch, which is what
\* webhookLease's comment counts on. A plugin's delivery does not even need that.
THEOREM NothingSentBeside ==
  ASSUME LeaseOutlasts
  PROVE  Spec => []OneSender
<1>1. ASSUME Kept PROVE OneSender
  <2> SUFFICES ASSUME NEW d \in Deliveries PROVE InFlight(d) <= 1
    BY DEF OneSender
  <2>1. OnePlace(d)
    BY <1>1, InOnePlace
  <2>2. /\ \A l \in Hands(d) : \E j : JobAt(d, l, j)
        /\ \A x \in Places(d) : \E l, i : x = <<l, i>> /\ PlaceAt(d, l, i)
        /\ \A w \in Senders(d) : SenderAt(d, w)
    BY DEF Hands, Places, Senders, JobAt, PlaceAt, SenderAt
  <2>3. /\ \A x, y \in Hands(d) : x = y
        /\ \A x, y \in Places(d) : x = y
        /\ \A x, y \in Senders(d) : x = y
    BY <2>1, <2>2 DEF OnePlace
  <2>4. /\ Hands(d) # {} => Places(d) = {} /\ Senders(d) = {}
        /\ Places(d) # {} => Senders(d) = {}
    BY <2>1, <2>2 DEF OnePlace
  <2>5. /\ Cardinality(Hands(d)) = 0 \/ Cardinality(Hands(d)) = 1
        /\ Hands(d) = {} => Cardinality(Hands(d)) = 0
    BY <2>3, AtMostOne
  <2>6. /\ Cardinality(Places(d)) = 0 \/ Cardinality(Places(d)) = 1
        /\ Places(d) = {} => Cardinality(Places(d)) = 0
    BY <2>3, AtMostOne
  <2>7. /\ Cardinality(Senders(d)) = 0 \/ Cardinality(Senders(d)) = 1
        /\ Senders(d) = {} => Cardinality(Senders(d)) = 0
    BY <2>3, AtMostOne
  <2> QED
    BY <2>4, <2>5, <2>6, <2>7 DEF InFlight
<1>2. Kept => OneSender
  BY <1>1
<1> QED
  BY <1>2, KeptAlways, PTL

-----------------------------------------------------------------------------
(* A delivery is repeated for a cause *)

Open(d) == outbox[d] # None \/ Flying(d) \/ stage[d] \in {"new", "looked"}

\* A delivery that may still be sent, and was not just taken, was taken no more often than
\* something went wrong.
Spare == \A d \in Deliveries : Open(d) /\ ~Took(d) => accepted[d] <= trouble

LEMMA FlyingIs ==
  ASSUME NEW d
  PROVE  Flying(d) <=> (\E l, j : JobAt(d, l, j)) \/ (\E l, i : PlaceAt(d, l, i)) \/ \E w : SenderAt(d, w)
BY DEF Flying, JobAt, PlaceAt, SenderAt

LEMMA FlyingIsAfter ==
  ASSUME NEW d
  PROVE  Flying(d)' <=> (\E l, j : JobAt(d, l, j)') \/ (\E l, i : PlaceAt(d, l, i)') \/ \E w : SenderAt(d, w)'
BY DEF Flying, JobAt, PlaceAt, SenderAt

LEMMA TroubleCounts ==
  ASSUME Typed, [Next]_vars
  PROVE  /\ trouble \in Nat /\ (trouble' = trouble \/ trouble' = trouble + 1)
         /\ Restart => trouble' = trouble + 1
<1>1. trouble \in Nat
  BY BoundsAssumption DEF Typed, BoundsTyped
<1>2. \A l \in Lanes : Discard(l) => trouble' = trouble \/ trouble' = trouble + 1
  BY DEF Discard, Trouble, bounds
<1>3. \A w \in Workers : Attempt(w) \/ Settle(w) => trouble' = trouble \/ trouble' = trouble + 1
  BY DEF Attempt, Settle, Trouble, bounds
<1>4. \A d \in Deliveries : Store(d) => trouble' = trouble \/ trouble' = trouble + 1
  BY DEF Store, Trouble, bounds
<1>5. LeaseHooks => trouble' = trouble \/ trouble' = trouble + 1
  BY DEF LeaseHooks, Trouble, bounds
<1>6. Restart => trouble' = trouble + 1
  BY DEF Restart, Trouble
<1> QED
  BY <1>1, <1>2, <1>3, <1>4, <1>5, <1>6 DEF Next, Emit, Switch, Remove, Drop, Dispatch, LeasePlugins, Queue,
     Works, Take, Tick, vars, bounds

\* Nothing is open again.
LEMMA OpenFrom ==
  ASSUME Typed, [Next]_vars, NEW d \in Deliveries, Open(d)'
  PROVE  Open(d)
<1>1. CASE Flying(d)'
  BY <1>1, FlyingFrom DEF Open
<1>2. CASE outbox'[d] # None
  <2>1. stage'[d] = "stored"
    BY <1>2, NextTyped DEF Typed, TableTyped
  <2>2. stage[d] \in {"new", "looked"} \/ stage[d] = "stored"
    <3>1. CASE \E c \in Deliveries : Store(c)
      BY <2>1, <3>1 DEF Store, Typed, TableTyped
    <3>2. CASE \E c \in Deliveries : Emit(c)
      BY <2>1, <3>2 DEF Emit, Typed, TableTyped
    <3>3. CASE \E s \in Subscribers : Drop(s)
      BY <2>1, <3>3 DEF Drop, Gone
    <3>4. CASE \E l \in Lanes : Discard(l)
      BY <2>1, <3>4 DEF Discard, Gone
    <3>5. CASE \E w \in Workers : Settle(w)
      BY <2>1, <3>5 DEF Settle, Gone
    <3>6. CASE Restart
      BY <2>1, <3>6 DEF Restart
    <3>7. CASE stage' = stage
      BY <2>1, <3>7
    <3> QED
      BY <3>1, <3>2, <3>3, <3>4, <3>5, <3>6, <3>7 DEF Next, Switch, Remove, Dispatch, LeaseHooks,
         LeasePlugins, Queue, Works, Take, Attempt, Tick, vars, table
  <2> QED
    BY <2>2 DEF Open, Typed, TableTyped
<1>3. CASE stage'[d] \in {"new", "looked"}
  <2>1. stage[d] \in {"stored", "gone", "lost"} => stage'[d] \notin {"new", "looked"}
    <3>1. CASE stage[d] \in {"stored", "gone"}
      BY <3>1, StoredStays
    <3>2. CASE stage[d] = "lost"
      <4>1. CASE \E c \in Deliveries : Emit(c) \/ Store(c)
        BY <3>2, <4>1 DEF Emit, Store, Typed, TableTyped
      <4>2. CASE (\E s \in Subscribers : Drop(s)) \/ (\E l \in Lanes : Discard(l))
        BY <3>2, <4>2 DEF Drop, Discard, Gone
      <4>3. CASE \E w \in Workers : Settle(w)
        BY <3>2, <4>3 DEF Settle, Gone
      <4>4. CASE Restart
        BY <3>2, <4>4 DEF Restart
      <4>5. CASE stage' = stage
        BY <3>2, <4>5
      <4> QED
        BY <4>1, <4>2, <4>3, <4>4, <4>5 DEF Next, Switch, Remove, Dispatch, LeaseHooks, LeasePlugins, Queue,
           Works, Take, Attempt, Tick, vars, table
    <3> QED
      BY <3>1, <3>2
  <2> QED
    BY <1>3, <2>1 DEF Open, Typed, TableTyped
<1> QED
  BY <1>1, <1>2, <1>3 DEF Open

\* A worker that was told of a delivery keeps that answer until it settles it.
LEMMA AnswerStays ==
  ASSUME Typed, [Next]_vars, NEW w \in Workers, work[w] # None, work[w].answer = "ok", ~Settle(w), ~Restart
  PROVE  work'[w] # None /\ work'[w].job = work[w].job /\ work'[w].answer = "ok"
<1>0. work[w] \in Task
  BY LaneTypes
<1>1. CASE \E v \in Workers : Take(v)
  BY <1>1 DEF Take, Typed, LanesTyped, WorkTyped
<1>2. CASE \E v \in Workers : Attempt(v)
  <2>1. PICK v \in Workers : Attempt(v)
    BY <1>2
  <2>2. v # w
    BY <2>1 DEF Attempt, Sends
  <2> QED
    BY <2>1, <2>2 DEF Attempt, Typed, LanesTyped, WorkTyped
<1>3. CASE \E v \in Workers : Settle(v)
  <2>1. PICK v \in Workers : Settle(v)
    BY <1>3
  <2>2. v # w
    BY <2>1
  <2> QED
    BY <2>1, <2>2 DEF Settle, Typed, LanesTyped, WorkTyped
<1>4. CASE Tick
  <2>1. work'[w] = work[w] \/ work'[w] = [work[w] EXCEPT !.age = 1]
    BY <1>4 DEF Tick
  <2>2. [work[w] EXCEPT !.age = 1] \in Task /\ [work[w] EXCEPT !.age = 1].job = work[w].job
        /\ [work[w] EXCEPT !.age = 1].answer = "ok"
    BY <1>0 DEF Task
  <2> QED
    BY <2>1, <2>2, NoneAssumption
<1>5. CASE work' = work
  BY <1>5
<1> QED
  BY <1>1, <1>2, <1>3, <1>4, <1>5 DEF Next, Emit, Store, Switch, Remove, Drop, Dispatch, LeaseHooks,
     LeasePlugins, Discard, Queue, Works, vars, lanes

\* What was taken is settled for good, or something went wrong.
LEMMA TookSettles ==
  ASSUME Kept, [Next]_vars, NEW d \in Deliveries, Took(d), ~Took(d)', Open(d)'
  PROVE  trouble' = trouble + 1
<1> SUFFICES ASSUME ~Restart, trouble' # trouble + 1 PROVE FALSE
  BY TroubleCounts DEF Kept
<1>0. Typed /\ OnePlace(d) /\ FlyingStored
  BY InOnePlace DEF Kept
<1>1. PICK w : SenderAt(d, w) /\ work[w].answer = "ok"
  BY DEF Took, SenderAt
<1>2. w \in Workers /\ work[w] # None /\ work[w].job.id = d
  BY <1>1 DEF SenderAt
<1>3. Settle(w)
  <2> SUFFICES ASSUME ~Settle(w) PROVE FALSE
    OBVIOUS
  <2>1. work'[w] # None /\ work'[w].job = work[w].job /\ work'[w].answer = "ok"
    BY <1>0, <1>1, <1>2, AnswerStays
  <2> QED
    BY <1>2, <2>1 DEF Took, SenderAt
<1>4. outbox'[d] = None
  <2>1. ~Trouble
    BY DEF Trouble
  <2>2. Over(work[w])
    BY <1>1 DEF Over
  <2>3. \/ outbox[d] # None /\ Gone({d})
        \/ outbox[d] = None /\ UNCHANGED outbox
    BY <1>2, <1>3, <2>1, <2>2 DEF Settle
  <2> QED
    BY <2>3 DEF Gone
<1>5. stage'[d] \notin {"new", "looked"}
  <2>1. Flying(d)
    BY <1>1, FlyingIs
  <2>2. stage[d] \in {"stored", "gone"}
    BY <1>0, <2>1 DEF FlyingStored
  <2> QED
    BY <1>0, <2>2, StoredStays
<1>6. ~Flying(d)'
  <2>1. UNCHANGED <<hand, queue>> /\ work' = [work EXCEPT ![w] = None]
    BY <1>3 DEF Settle
  <2>2. \A l, j : ~JobAt(d, l, j)'
    BY <1>0, <1>1, <2>1 DEF OnePlace, JobAt
  <2>3. \A l, i : ~PlaceAt(d, l, i)'
    BY <1>0, <1>1, <2>1 DEF OnePlace, PlaceAt
  <2>4. \A v : SenderAt(d, v)' => v # w /\ SenderAt(d, v)
    BY <1>0, <1>2, <2>1 DEF SenderAt, Typed, LanesTyped, WorkTyped
  <2>5. \A v : ~SenderAt(d, v)'
    BY <1>0, <1>1, <2>4 DEF OnePlace
  <2> QED
    BY <2>2, <2>3, <2>5, FlyingIsAfter
<1> QED
  BY <1>4, <1>5, <1>6 DEF Open

\* An attempt starts with nothing to spare: no other worker was told of that delivery.
LEMMA AttemptCounts ==
  ASSUME Kept, Spare, [Next]_vars, NEW w \in Workers, Attempt(w), NEW d \in Deliveries
  PROVE  \/ accepted'[d] = accepted[d]
         \/ accepted[d] <= trouble /\ accepted'[d] = accepted[d] + 1 /\ (Took(d)' \/ trouble' = trouble + 1)
<1> DEFINE c == work[w].job.id
<1>0. Typed /\ work[w] # None /\ work[w] \in Task /\ c \in Deliveries /\ work[w].answer = "none"
  BY LaneTypes DEF Kept, Attempt, Sends, Job
<1>1. CASE c # d
  BY <1>0, <1>1 DEF Attempt, Typed, HistoryTyped, history
<1>2. CASE c = d
  <2>1. SenderAt(d, w)
    BY <1>0, <1>2 DEF SenderAt
  <2>2. ~Took(d)
    BY <1>0, <2>1, InOnePlace DEF Took, SenderAt, OnePlace
  <2>3. Open(d)
    BY <2>1, FlyingIs DEF Open
  <2>4. accepted[d] <= trouble
    BY <2>2, <2>3 DEF Spare
  <2>5. \/ accepted'[d] = accepted[d]
        \/ accepted'[d] = accepted[d] + 1 /\ (work' = [work EXCEPT ![w].answer = "ok"] \/ trouble' = trouble + 1)
    BY <1>0, <1>2 DEF Attempt, Trouble, Typed, HistoryTyped
  <2>6. work' = [work EXCEPT ![w].answer = "ok"] => Took(d)'
    <3> SUFFICES ASSUME work' = [work EXCEPT ![w].answer = "ok"] PROVE Took(d)'
      OBVIOUS
    <3>1. work'[w] = [work[w] EXCEPT !.answer = "ok"]
      BY <1>0 DEF Typed, LanesTyped, WorkTyped
    <3>2. work'[w] \in Task /\ work'[w].job.id = d /\ work'[w].answer = "ok"
      BY <1>0, <1>2, <3>1 DEF Task
    <3> QED
      BY <3>2, NoneAssumption DEF Took, SenderAt
  <2> QED
    BY <2>4, <2>5, <2>6
<1> QED
  BY <1>1, <1>2

LEMMA CountsStay ==
  ASSUME [Next]_vars, ~ \E w \in Workers : Attempt(w)
  PROVE  accepted' = accepted
BY DEF Next, Emit, Store, Switch, Remove, Drop, Dispatch, LeaseHooks, LeasePlugins, Discard, Queue,
       Works, Take, Settle, Tick, Restart, vars, history

LEMMA Addition ==
  ASSUME NEW a \in Nat, NEW b \in Nat, NEW t \in Nat, NEW u \in Nat, u = t \/ u = t + 1
  PROVE  /\ a <= 1 + t /\ b = a => b <= 1 + u
         /\ a <= 1 + t /\ b = a /\ u = t + 1 => b <= u
         /\ a <= t /\ b = a => b <= u
         /\ a <= t /\ b = a + 1 => b <= 1 + u
         /\ a <= t /\ b = a + 1 /\ u = t + 1 => b <= u
OBVIOUS

LEMMA SpareNext ==
  ASSUME Kept, Spare, RepeatsForCause, [Next]_vars
  PROVE  Spare' /\ RepeatsForCause'
<1> SUFFICES ASSUME NEW d \in Deliveries
             PROVE  /\ accepted'[d] <= 1 + trouble'
                    /\ Open(d)' /\ ~Took(d)' => accepted'[d] <= trouble'
  BY DEF Spare, RepeatsForCause
<1>1. /\ accepted[d] \in Nat /\ accepted'[d] \in Nat /\ trouble \in Nat /\ trouble' \in Nat
      /\ trouble' = trouble \/ trouble' = trouble + 1
      /\ accepted[d] <= 1 + trouble
  BY NextTyped, TroubleCounts, BoundsAssumption DEF Kept, Typed, HistoryTyped, RepeatsForCause
<1>2. CASE accepted'[d] = accepted[d]
  <2>1. accepted'[d] <= 1 + trouble'
    BY <1>1, <1>2, Addition
  <2>2. ASSUME Open(d)', ~Took(d)' PROVE accepted'[d] <= trouble'
    <3>1. CASE Took(d)
      <4>1. trouble' = trouble + 1
        BY <2>2, <3>1, TookSettles
      <4> QED
        BY <1>1, <1>2, <4>1, Addition
    <3>2. CASE ~Took(d)
      <4>1. accepted[d] <= trouble
        BY <2>2, <3>2, OpenFrom DEF Spare, Kept
      <4> QED
        BY <1>1, <1>2, <4>1, Addition
    <3> QED
      BY <3>1, <3>2
  <2> QED
    BY <2>1, <2>2
<1>3. CASE accepted'[d] # accepted[d]
  <2>1. PICK w \in Workers : Attempt(w)
    BY <1>3, CountsStay
  <2>2. accepted[d] <= trouble /\ accepted'[d] = accepted[d] + 1 /\ (Took(d)' \/ trouble' = trouble + 1)
    BY <1>3, <2>1, AttemptCounts
  <2> QED
    BY <1>1, <2>2, Addition
<1> QED
  BY <1>2, <1>3

\* RepeatsForCause: a subscriber is given an event it took once more only for a restart, a
\* write that failed or an answer that was lost, each of them once, as long as a lease is
\* longer than a full channel and a batch take: dispatchWebhooks, sendWebhook and
\* finishDelivery repeat nothing of their own accord.
THEOREM NothingRepeatedWithoutCause ==
  ASSUME LeaseOutlasts
  PROVE  Spec => []RepeatsForCause
<1>1. Init => Spare /\ RepeatsForCause
  BY BoundsAssumption DEF Init, Spare, RepeatsForCause
<1>2. Kept /\ Spare /\ RepeatsForCause /\ [Next]_vars => (Spare /\ RepeatsForCause)'
  BY SpareNext
<1> QED
  BY <1>1, <1>2, KeptAlways, PTL DEF Spec

-----------------------------------------------------------------------------
(* The outbox keeps the promise of EventDelivery *)

Meaning ==
    \A d \in Deliveries :
        /\ FateOf(d) = "new" <=> stage[d] \in {"new", "looked"}
        /\ FateOf(d) = "lost" <=> stage[d] = "lost"
        /\ FateOf(d) = "taken" <=> stage[d] \in {"stored", "gone"} /\ Took(d)
        /\ FateOf(d) = "owed" <=> stage[d] = "stored" /\ ~Took(d)
        /\ FateOf(d) = "stray" <=> stage[d] = "gone" /\ ~Took(d) /\ Flying(d)
        /\ FateOf(d) = "over" <=> stage[d] = "gone" /\ ~Took(d) /\ ~Flying(d)
        /\ FateOf(d) \in Promise!Fates
        /\ Took(d) => Flying(d)

LEMMA MeaningHolds == Typed => Meaning
<1> SUFFICES ASSUME Typed, NEW d \in Deliveries
             PROVE  /\ FateOf(d) = "new" <=> stage[d] \in {"new", "looked"}
                    /\ FateOf(d) = "lost" <=> stage[d] = "lost"
                    /\ FateOf(d) = "taken" <=> stage[d] \in {"stored", "gone"} /\ Took(d)
                    /\ FateOf(d) = "owed" <=> stage[d] = "stored" /\ ~Took(d)
                    /\ FateOf(d) = "stray" <=> stage[d] = "gone" /\ ~Took(d) /\ Flying(d)
                    /\ FateOf(d) = "over" <=> stage[d] = "gone" /\ ~Took(d) /\ ~Flying(d)
                    /\ FateOf(d) \in Promise!Fates
                    /\ Took(d) => Flying(d)
  BY DEF Meaning
<1> USE DEF Promise!Fates
<1>0. Took(d) => Flying(d)
  BY DEF Took, Flying
<1>1. stage[d] \in {"new", "looked", "stored", "lost", "gone"}
  BY DEF Typed, TableTyped
<1>2. CASE stage[d] \in {"new", "looked"}
  BY <1>0, <1>2 DEF FateOf
<1>3. CASE stage[d] = "lost"
  BY <1>0, <1>3 DEF FateOf
<1>4. CASE stage[d] \in {"stored", "gone"} /\ Took(d)
  BY <1>0, <1>4 DEF FateOf
<1>5. CASE stage[d] = "stored" /\ ~Took(d)
  BY <1>0, <1>5 DEF FateOf
<1>6. CASE stage[d] = "gone" /\ ~Took(d) /\ Flying(d)
  BY <1>0, <1>6 DEF FateOf
<1>7. CASE stage[d] = "gone" /\ ~Took(d) /\ ~Flying(d)
  BY <1>0, <1>7 DEF FateOf
<1> QED
  BY <1>1, <1>2, <1>3, <1>4, <1>5, <1>6, <1>7

LEMMA MeaningAfter == (Typed => Meaning)'
BY MeaningHolds, PTL

LEMMA FateSame ==
  ASSUME Typed, Typed', NEW d \in Deliveries,
         stage'[d] = stage[d] \/ {stage[d], stage'[d]} \subseteq {"new", "looked"},
         Took(d)' <=> Took(d), (Flying(d)' <=> Flying(d)) \/ stage[d] # "gone"
  PROVE  FateOf(d)' = FateOf(d)
BY MeaningHolds, MeaningAfter DEF Meaning, Typed, TableTyped

\* Only an attempt finds out that a delivery was taken.
LEMMA TookFrom ==
  ASSUME Typed, [Next]_vars, NEW d \in Deliveries, Took(d)', ~ \E w \in Workers : Attempt(w)
  PROVE  Took(d)
<1>1. PICK v \in Workers : work'[v] # None /\ work'[v].job.id = d /\ work'[v].answer = "ok"
  BY DEF Took
<1>2. CASE \E w \in Workers : Take(w)
  <2>1. PICK w \in Workers :
            \E job : work' = [work EXCEPT ![w] = [job |-> job, age |-> 0, answer |-> "none"]]
    BY <1>2 DEF Take
  <2>2. v # w
    BY <1>1, <2>1 DEF Typed, LanesTyped, WorkTyped
  <2> QED
    BY <1>1, <2>1, <2>2 DEF Took, Typed, LanesTyped, WorkTyped
<1>3. CASE \E w \in Workers : Settle(w)
  BY <1>1, <1>3 DEF Settle, Took, Typed, LanesTyped, WorkTyped
<1>4. CASE Tick
  <2>1. work[v] # None /\ (work'[v] = work[v] \/ work'[v] = [work[v] EXCEPT !.age = 1])
    BY <1>1, <1>4 DEF Tick
  <2>2. work'[v].job = work[v].job /\ work'[v].answer = work[v].answer
    BY <2>1, LaneTypes DEF Task
  <2> QED
    BY <1>1, <2>1, <2>2 DEF Took
<1>5. CASE Restart
  BY <1>1, <1>5 DEF Restart
<1>6. CASE work' = work
  BY <1>1, <1>6 DEF Took
<1> QED
  BY <1>2, <1>3, <1>4, <1>5, <1>6 DEF Next, Emit, Store, Switch, Remove, Drop, Dispatch, LeaseHooks,
     LeasePlugins, Discard, Queue, Works, vars, lanes

LEMMA TookStays ==
  ASSUME Typed, [Next]_vars, NEW d \in Deliveries, Took(d), ~Restart,
         ~ \E w \in Workers : SenderAt(d, w) /\ Settle(w)
  PROVE  Took(d)'
<1>1. PICK w \in Workers : work[w] # None /\ work[w].job.id = d /\ work[w].answer = "ok"
  BY DEF Took
<1>2. ~Settle(w)
  BY <1>1 DEF SenderAt
<1>3. work'[w] # None /\ work'[w].job = work[w].job /\ work'[w].answer = "ok"
  BY <1>1, <1>2, AnswerStays
<1> QED
  BY <1>1, <1>3 DEF Took

\* What is in flight stays there until it is discarded, settled or lost with the process.
LEMMA FlyingStays ==
  ASSUME Typed, [Next]_vars, NEW d \in Deliveries, Flying(d), ~Restart,
         ~ \E l \in Lanes : Discard(l), ~ \E w \in Workers : SenderAt(d, w) /\ Settle(w)
  PROVE  Flying(d)'
<1>0. "hooks" \in Lanes /\ "plugins" \in Lanes
  BY DEF Lanes
<1>1. ASSUME NEW l \in Lanes, NEW job \in hand[l], job.id = d PROVE Flying(d)'
  <2>1. ASSUME NEW m \in Lanes, Queue(m) PROVE Flying(d)'
    <3>1. PICK k \in hand[m] : /\ hand' = [hand EXCEPT ![m] = @ \ {k}]
                               /\ queue' = [queue EXCEPT ![m] = Append(@, k)]
      BY <2>1 DEF Queue
    <3>2. CASE m = l /\ k = job
      <4>1. /\ queue'[l] = Append(queue[l], job) /\ queue[l] \in Seq(Job) /\ job \in Job
            /\ Len(queue[l]) \in Nat
        BY <3>1, <3>2, LaneTypes DEF Typed, LanesTyped, QueueTyped
      <4>2. Len(queue'[l]) = Len(queue[l]) + 1 /\ queue'[l][Len(queue[l]) + 1] = job
        BY <4>1, AppendProperties
      <4>3. Len(queue[l]) + 1 \in 1..Len(queue'[l])
        BY <4>1, <4>2
      <4> QED
        BY <1>1, <4>2, <4>3 DEF Flying
    <3>3. CASE ~(m = l /\ k = job)
      <4>1. job \in hand'[l]
        BY <1>1, <3>1, <3>3 DEF Typed, LanesTyped, HandTyped
      <4> QED
        BY <1>1, <4>1 DEF Flying
    <3> QED
      BY <3>2, <3>3
  <2>2. CASE LeaseHooks
    <3>1. \E jobs : hand' = [hand EXCEPT !["hooks"] = jobs] \/ hand' = hand
      BY <2>2 DEF LeaseHooks
    <3>2. hand["hooks"] = {}
      BY <2>2 DEF LeaseHooks
    <3>3. job \in hand'[l]
      BY <1>1, <3>1, <3>2 DEF Typed, LanesTyped, HandTyped
    <3> QED
      BY <1>1, <3>3 DEF Flying
  <2>3. CASE LeasePlugins
    <3>1. \E jobs : hand' = [hand EXCEPT !["plugins"] = jobs]
      BY <2>3 DEF LeasePlugins
    <3>2. hand["plugins"] = {}
      BY <2>3 DEF LeasePlugins
    <3>3. job \in hand'[l]
      BY <1>1, <3>1, <3>2 DEF Typed, LanesTyped, HandTyped
    <3> QED
      BY <1>1, <3>3 DEF Flying
  <2>4. CASE hand' = hand
    BY <1>1, <2>4 DEF Flying
  <2> QED
    BY <2>1, <2>2, <2>3, <2>4 DEF Next, Emit, Store, Switch, Remove, Drop, Dispatch, Works, Take, Attempt,
       Settle, Tick, vars, lanes
<1>2. ASSUME NEW l \in Lanes, NEW i \in 1..Len(queue[l]), queue[l][i].id = d PROVE Flying(d)'
  <2>1. ASSUME NEW m \in Lanes, Queue(m) PROVE Flying(d)'
    <3>1. PICK k \in hand[m] : queue' = [queue EXCEPT ![m] = Append(@, k)]
      BY <2>1 DEF Queue
    <3>2. CASE m = l
      <4>1. /\ queue'[l] = Append(queue[l], k) /\ queue[l] \in Seq(Job) /\ k \in Job
            /\ Len(queue[l]) \in Nat
        BY <3>1, <3>2, LaneTypes DEF Typed, LanesTyped, QueueTyped
      <4>2. Len(queue'[l]) = Len(queue[l]) + 1 /\ queue'[l][i] = queue[l][i]
        BY <1>2, <4>1, AppendProperties
      <4>3. i \in 1..Len(queue'[l])
        BY <1>2, <4>1, <4>2
      <4> QED
        BY <1>2, <4>2, <4>3 DEF Flying
    <3>3. CASE m # l
      BY <1>2, <3>1, <3>3 DEF Typed, LanesTyped, QueueTyped, Flying
    <3> QED
      BY <3>2, <3>3
  <2>2. ASSUME NEW w \in Workers, Take(w) PROVE Flying(d)'
    <3> DEFINE m == LaneOfWorker(w)
    <3>1. m \in Lanes /\ queue[m] # <<>>
      BY <2>2 DEF Take, LaneOfWorker, Lanes
    <3>2. /\ queue'[m] = Tail(queue[m]) /\ \A k \in Lanes \ {m} : queue'[k] = queue[k]
          /\ work'[w] = [job |-> Head(queue[m]), age |-> 0, answer |-> "none"]
      BY <2>2, <3>1 DEF Take, Typed, LanesTyped, QueueTyped, WorkTyped
    <3>3. /\ Len(queue[m]) \in Nat \ {0} /\ Len(Tail(queue[m])) = Len(queue[m]) - 1
          /\ \A k \in 1..Len(Tail(queue[m])) : Tail(queue[m])[k] = queue[m][k + 1]
          /\ Head(queue[m]) = queue[m][1] /\ Head(queue[m]) \in Job
      BY <3>1, LaneTypes, HeadTailProperties, EmptySeq
    <3>4. CASE m # l
      BY <1>2, <3>2, <3>4 DEF Flying
    <3>5. CASE m = l /\ i = 1
      <4>1. work'[w].job.id = d /\ work'[w] \in Task
        BY <1>2, <3>2, <3>3, <3>5 DEF Task
      <4> QED
        BY <4>1, NoneAssumption DEF Flying
    <3>6. CASE m = l /\ i # 1
      <4>1. i - 1 \in 1..Len(Tail(queue[l])) /\ (i - 1) + 1 = i
        BY <1>2, <3>3, <3>6
      <4> DEFINE k == i - 1
      <4>2. k \in 1..Len(queue'[l])
        BY <3>2, <3>6, <4>1
      <4>3. queue'[l][k] = queue[l][k + 1]
        BY <3>2, <3>3, <3>6, <4>1
      <4>4. queue'[l][k].id = d
        BY <1>2, <4>1, <4>3
      <4> QED
        BY <4>2, <4>4 DEF Flying
    <3> QED
      BY <3>4, <3>5, <3>6
  <2>3. CASE queue' = queue
    BY <1>2, <2>3 DEF Flying
  <2> QED
    BY <2>1, <2>2, <2>3 DEF Next, Emit, Store, Switch, Remove, Drop, Dispatch, LeaseHooks, LeasePlugins,
       Discard, Works, Attempt, Settle, Tick, vars, lanes
<1>3. ASSUME NEW v \in Workers, work[v] # None, work[v].job.id = d PROVE Flying(d)'
  <2>1. ASSUME NEW r, work'[v] = r, r \in Task, r.job = work[v].job PROVE Flying(d)'
    BY <1>3, <2>1, NoneAssumption DEF Flying
  <2>2. work[v] \in Task
    BY <1>3, LaneTypes
  <2>3. ASSUME NEW w \in Workers, Take(w) PROVE Flying(d)'
    <3>1. work'[v] = work[v]
      BY <1>3, <2>3 DEF Take, Typed, LanesTyped, WorkTyped
    <3> QED
      BY <2>1, <2>2, <3>1
  <2>4. ASSUME NEW w \in Workers, Attempt(w) PROVE Flying(d)'
    <3>1. PICK a \in {"ok", "failed", "gone"} : work' = [work EXCEPT ![w].answer = a]
      BY <2>4 DEF Attempt
    <3>2. work'[v] \in Task /\ work'[v].job = work[v].job
      BY <2>2, <3>1 DEF Typed, LanesTyped, WorkTyped, Task
    <3> QED
      BY <2>1, <3>2
  <2>5. ASSUME NEW w \in Workers, Settle(w) PROVE Flying(d)'
    <3>1. w # v
      BY <1>3, <2>5 DEF SenderAt
    <3>2. work'[v] = work[v]
      BY <2>5, <3>1 DEF Settle, Typed, LanesTyped, WorkTyped
    <3> QED
      BY <2>1, <2>2, <3>2
  <2>6. CASE Tick
    <3>1. work'[v] = work[v] \/ work'[v] = [work[v] EXCEPT !.age = 1]
      BY <2>6 DEF Tick
    <3>2. [work[v] EXCEPT !.age = 1] \in Task /\ [work[v] EXCEPT !.age = 1].job = work[v].job
      BY <2>2 DEF Task
    <3> QED
      BY <2>1, <2>2, <3>1, <3>2
  <2>7. CASE work' = work
    BY <1>3, <2>7 DEF Flying
  <2> QED
    BY <2>3, <2>4, <2>5, <2>6, <2>7 DEF Next, Emit, Store, Switch, Remove, Drop, Dispatch, LeaseHooks,
       LeasePlugins, Discard, Queue, Works, vars, lanes
<1> QED
  BY <1>1, <1>2, <1>3 DEF Flying

\* Steps that leave the delivery's row alone, and what is known of it.
LEMMA FateStays ==
  ASSUME Typed, [Next]_vars, NEW d \in Deliveries, ~Restart,
         ~ \E l \in Lanes : Discard(l), ~ \E w \in Workers : Attempt(w),
         ~ \E w \in Workers : SenderAt(d, w) /\ Settle(w),
         stage'[d] = stage[d] \/ {stage[d], stage'[d]} \subseteq {"new", "looked"}
  PROVE  FateOf(d)' = FateOf(d)
<1>1. Took(d)' <=> Took(d)
  BY TookFrom, TookStays
<1>2. (Flying(d)' <=> Flying(d)) \/ stage[d] # "gone"
  BY FlyingFrom, FlyingStays DEF Typed, TableTyped
<1> QED
  BY <1>1, <1>2, NextTyped, FateSame

LEMMA FatesEqual ==
  ASSUME \A d \in Deliveries : FateOf(d)' = FateOf(d)
  PROVE  Fate' = Fate
BY DEF Fate

LEMMA FateExcept ==
  ASSUME NEW d \in Deliveries, NEW to, FateOf(d)' = to,
         \A c \in Deliveries \ {d} : FateOf(c)' = FateOf(c)
  PROVE  Fate' = [Fate EXCEPT ![d] = to]
BY DEF Fate

LEMMA FateAt == \A d \in Deliveries : Fate[d] = FateOf(d)
BY DEF Fate

LEMMA FateAtAfter == (\A d \in Deliveries : Fate[d] = FateOf(d))'
BY FateAt, PTL

\* Several at once.
LEMMA FatesMove ==
  ASSUME Typed, [Next]_vars, NEW ds, NEW moves,
         \A d \in Deliveries : FateOf(d)' # FateOf(d) => d \in ds /\ <<FateOf(d), FateOf(d)'>> \in moves
  PROVE  Promise!Only(ds, moves)
<1>1. Fate' \in [Deliveries -> Promise!Fates]
  BY NextTyped, MeaningAfter DEF Fate, Meaning
<1> QED
  BY <1>1, FateAt, FateAtAfter DEF Promise!Only

LEMMA EmitPromise ==
  ASSUME Typed, [Next]_vars, NEW d \in Deliveries, Emit(d)
  PROVE  Promise!Excuse
<1>1. \A c \in Deliveries : FateOf(c)' = FateOf(c)
  <2> SUFFICES ASSUME NEW c \in Deliveries PROVE FateOf(c)' = FateOf(c)
    OBVIOUS
  <2>1. work' = work /\ hand' = hand /\ queue' = queue
    BY DEF Emit, lanes
  <2>2. (Took(c)' <=> Took(c)) /\ (Flying(c)' <=> Flying(c))
    BY <2>1 DEF Took, Flying
  <2>3. stage'[c] = stage[c] \/ {stage[c], stage'[c]} \subseteq {"new", "looked"}
    BY DEF Emit, Typed, TableTyped
  <2> QED
    BY <2>2, <2>3, NextTyped, FateSame
<1>2. Excused \subseteq Excused'
  <2>1. subscriber[d] = None /\ \A c \in Deliveries \ {d} : subscriber'[c] = subscriber[c]
    BY DEF Emit, Typed, TableTyped
  <2>2. None \notin refused
    BY SetsAssumption DEF Typed, EndsTyped
  <2> QED
    BY <2>1, <2>2 DEF Emit, endpoints, Excused
<1> QED
  BY <1>1, <1>2, FatesEqual DEF Emit, history, bounds, Promise!Excuse

LEMMA StorePromise ==
  ASSUME Typed, FlyingStored, [Next]_vars, NEW d \in Deliveries, Store(d)
  PROVE  Promise!Owe(d) \/ Promise!Mishap
<1>1. work' = work /\ hand' = hand /\ queue' = queue
  BY DEF Store, lanes
<1>2. \A c \in Deliveries : (Took(c)' <=> Took(c)) /\ (Flying(c)' <=> Flying(c))
  BY <1>1 DEF Took, Flying
<1>3. \A c \in Deliveries \ {d} : FateOf(c)' = FateOf(c)
  <2> SUFFICES ASSUME NEW c \in Deliveries \ {d} PROVE FateOf(c)' = FateOf(c)
    OBVIOUS
  <2>1. stage'[c] = stage[c]
    BY DEF Store, Typed, TableTyped
  <2> QED
    BY <1>2, <2>1, NextTyped, FateSame
<1>4. FateOf(d) = "new" /\ ~Took(d)
  BY MeaningHolds DEF Store, Meaning, FlyingStored
<1>5. Excused' = Excused /\ UNCHANGED <<accepted, tries>>
  BY DEF Store, endpoints, history, Excused
<1>6. CASE stage' = [stage EXCEPT ![d] = "stored"] /\ UNCHANGED bounds
  <2>1. stage'[d] = "stored"
    BY <1>6 DEF Typed, TableTyped
  <2>2. FateOf(d)' = "owed"
    BY <1>2, <1>4, <2>1, NextTyped, MeaningAfter DEF Meaning
  <2> QED
    BY <1>3, <1>4, <1>5, <1>6, <2>2, FateAt, FateExcept DEF bounds, Promise!Owe, Promise!Becomes
<1>7. CASE stage' = [stage EXCEPT ![d] = "lost"] /\ Trouble
  <2>1. stage'[d] = "lost"
    BY <1>7 DEF Typed, TableTyped
  <2>2. FateOf(d)' = "lost"
    BY <2>1, NextTyped, MeaningAfter DEF Meaning
  <2>3. Promise!Only(Deliveries, {<<"new", "lost">>, <<"taken", "owed">>, <<"taken", "over">>, <<"stray", "over">>})
    BY <1>3, <1>4, <2>2, FatesMove
  <2> QED
    BY <1>5, <1>7, <2>3 DEF Trouble, Promise!Mishap
<1> QED
  BY <1>6, <1>7 DEF Store

LEMMA SubscribersPromise ==
  ASSUME Typed, [Next]_vars, NEW s \in Subscribers, Switch(s) \/ Remove(s)
  PROVE  Promise!Excuse
<1>1. work' = work /\ hand' = hand /\ queue' = queue /\ UNCHANGED <<subscriber, stage>>
  BY DEF Switch, Remove, lanes, table
<1>2. \A c \in Deliveries : FateOf(c)' = FateOf(c)
  <2> SUFFICES ASSUME NEW c \in Deliveries PROVE FateOf(c)' = FateOf(c)
    OBVIOUS
  <2>1. (Took(c)' <=> Took(c)) /\ (Flying(c)' <=> Flying(c))
    BY <1>1 DEF Took, Flying
  <2> QED
    BY <1>1, <2>1, NextTyped, FateSame
<1>3. Excused \subseteq Excused'
  BY <1>1 DEF Switch, Remove, Excused
<1>4. UNCHANGED <<accepted, tries, trouble>>
  BY DEF Switch, Remove, history
<1> QED
  BY <1>2, <1>3, <1>4, FatesEqual DEF Promise!Excuse

LEMMA DropPromise ==
  ASSUME Typed, [Next]_vars, NEW s \in Subscribers, Drop(s)
  PROVE  Promise!Withdraw
<1>1. work' = work /\ hand' = hand /\ queue' = queue /\ UNCHANGED <<subscriber, refused>>
  BY DEF Drop, lanes
<1>2. UNCHANGED <<accepted, tries, trouble, Excused>>
  BY <1>1 DEF Drop, history, bounds, Excused
<1>3. ASSUME NEW d \in Deliveries, FateOf(d)' # FateOf(d)
      PROVE  d \in Excused /\ <<FateOf(d), FateOf(d)'>> \in {<<"owed", "over">>, <<"owed", "stray">>}
  <2>1. (Took(d)' <=> Took(d)) /\ (Flying(d)' <=> Flying(d))
    BY <1>1 DEF Took, Flying
  <2>2. stage'[d] # stage[d]
    BY <1>3, <2>1, NextTyped, FateSame
  <2>3. outbox[d] # None /\ subscriber[d] = s /\ stage'[d] = "gone"
    BY <2>2 DEF Drop, Gone
  <2>4. stage[d] = "stored"
    BY <2>3 DEF Typed, TableTyped
  <2>5. d \in Excused
    BY <2>3 DEF Drop, Typed, EndsTyped, Excused
  <2>6. Typed'
    BY NextTyped
  <2>7. ~Took(d)
    BY <1>3, <2>1, <2>3, <2>4, <2>6, MeaningHolds, MeaningAfter DEF Meaning
  <2>8. FateOf(d) = "owed" /\ FateOf(d)' \in {"over", "stray"}
    BY <2>1, <2>3, <2>4, <2>6, <2>7, MeaningHolds, MeaningAfter DEF Meaning
  <2> QED
    BY <2>5, <2>8
<1>4. Promise!Only(Excused, {<<"owed", "over">>, <<"owed", "stray">>})
  BY <1>3, FatesMove
<1> QED
  BY <1>2, <1>4 DEF Promise!Withdraw

\* Leases, queues, turns and time are none of the promise's business.
LEMMA QuietPromise ==
  ASSUME Typed, [Next]_vars, ~Restart, ~ \E l \in Lanes : Discard(l), ~ \E w \in Workers : Attempt(w),
         ~ \E w \in Workers : Settle(w),
         UNCHANGED <<subscriber, stage, refused, accepted, tries>>
  PROVE  Promise!Mishap \/ UNCHANGED Promise!vars
<1>1. \A d \in Deliveries : FateOf(d)' = FateOf(d)
  BY FateStays
<1>2. Fate' = Fate /\ Excused' = Excused
  BY <1>1, FatesEqual DEF Excused
<1>3. CASE trouble' = trouble
  BY <1>2, <1>3 DEF Promise!vars
<1>4. CASE trouble' = trouble + 1
  <2>1. Promise!Only(Deliveries, {<<"new", "lost">>, <<"taken", "owed">>, <<"taken", "over">>, <<"stray", "over">>})
    BY <1>1, FatesMove
  <2> QED
    BY <1>2, <1>4, <2>1 DEF Promise!Mishap
<1> QED
  BY <1>3, <1>4, TroubleCounts

\* A restart takes what is in flight out of it.
LEMMA RestartPromise ==
  ASSUME Typed, [Next]_vars, Restart
  PROVE  Promise!Mishap
<1>1. ASSUME NEW d \in Deliveries PROVE ~Flying(d)' /\ ~Took(d)'
  <2>1. hand' = [l \in Lanes |-> {}] /\ queue' = [l \in Lanes |-> <<>>] /\ work' = [w \in Workers |-> None]
    BY DEF Restart
  <2>2. \A l \in Lanes : hand'[l] = {} /\ Len(queue'[l]) = 0
    BY <2>1, EmptySeq
  <2>3. \A w \in Workers : work'[w] = None
    BY <2>1
  <2> QED
    BY <2>2, <2>3 DEF Flying, Took
<1>2. ASSUME NEW d \in Deliveries, FateOf(d)' # FateOf(d)
      PROVE  <<FateOf(d), FateOf(d)'>>
                 \in {<<"new", "lost">>, <<"taken", "owed">>, <<"taken", "over">>, <<"stray", "over">>}
  <2>1. stage[d] \in {"new", "looked", "stored", "lost", "gone"} /\ Typed'
    BY NextTyped DEF Typed, TableTyped
  <2>2. stage'[d] = IF stage[d] = "looked" THEN "lost" ELSE stage[d]
    BY DEF Restart
  <2> QED
    BY <1>1, <1>2, <2>1, <2>2, MeaningHolds, MeaningAfter DEF Meaning
<1>3. Promise!Only(Deliveries, {<<"new", "lost">>, <<"taken", "owed">>, <<"taken", "over">>, <<"stray", "over">>})
  BY <1>2, FatesMove
<1> QED
  BY <1>3 DEF Restart, Trouble, history, Excused, Promise!Mishap

LEMMA DiscardPromise ==
  ASSUME Kept, Causes, [Next]_vars, NEW l \in Lanes, Discard(l)
  PROVE  (\E d \in Deliveries : Promise!Close(d)) \/ Promise!Mishap \/ UNCHANGED Promise!vars
<1>0. Typed /\ Typed' /\ FlyingStored
  BY NextTyped DEF Kept
<1>1. PICK job \in hand[l] :
          /\ Orphan(job)
          /\ hand' = [hand EXCEPT ![l] = @ \ {job}]
          /\ \/ Gone({job.id} \cap {d \in Deliveries : outbox[d] # None}) /\ UNCHANGED bounds
             \/ Trouble /\ UNCHANGED <<outbox, stage>>
  BY DEF Discard
<1> DEFINE d == job.id
<1>2. d \in Deliveries /\ job \in Job /\ work' = work /\ queue' = queue
  BY <1>0, <1>1, LaneTypes DEF Discard, Job
<1>3. JobAt(d, l, job) /\ Flying(d) /\ OnePlace(d)
  BY <1>1, <1>2, FlyingIs, InOnePlace DEF JobAt
<1>4. ~Took(d) /\ ~Took(d)' /\ ~Flying(d)'
  <2>1. ~Took(d) /\ ~Took(d)'
    BY <1>2, <1>3 DEF OnePlace, Took, SenderAt
  <2>2. \A m, j : ~JobAt(d, m, j)'
    BY <1>0, <1>1, <1>3 DEF OnePlace, JobAt, Typed, LanesTyped, HandTyped
  <2>3. \A m, i : ~PlaceAt(d, m, i)'
    <3>1. \A m, i : ~PlaceAt(d, m, i)
      BY <1>3 DEF OnePlace
    <3>2. \A m, i : PlaceAt(d, m, i)' <=> PlaceAt(d, m, i)
      BY <1>2 DEF PlaceAt
    <3> QED
      BY <3>1, <3>2
  <2>4. \A w : ~SenderAt(d, w)'
    BY <1>2, <1>3 DEF OnePlace, SenderAt
  <2> QED
    BY <2>1, <2>2, <2>3, <2>4, FlyingIsAfter
<1>5. ASSUME NEW c \in Deliveries \ {d} PROVE FateOf(c)' = FateOf(c)
  <2>1. stage'[c] = stage[c]
    BY <1>1 DEF Gone
  <2>2. Took(c)' <=> Took(c)
    BY <1>2 DEF Took
  <2>3. \A m, j : JobAt(c, m, j)' <=> JobAt(c, m, j)
    BY <1>0, <1>1 DEF JobAt, Typed, LanesTyped, HandTyped
  <2>4. \A m, i : PlaceAt(c, m, i)' <=> PlaceAt(c, m, i)
    BY <1>2 DEF PlaceAt
  <2>5. \A w : SenderAt(c, w)' <=> SenderAt(c, w)
    BY <1>2 DEF SenderAt
  <2>6. Flying(c)' <=> Flying(c)
    BY <2>3, <2>4, <2>5, FlyingIs, FlyingIsAfter
  <2> QED
    BY <1>0, <2>1, <2>2, <2>6, FateSame
<1>6. stage[d] \in {"stored", "gone"} /\ (stage[d] = "stored" <=> outbox[d] # None)
  BY <1>0, <1>2, <1>3 DEF FlyingStored, Typed, TableTyped
<1>7. FateOf(d) \in {"owed", "stray"} /\ (FateOf(d) = "owed" <=> stage[d] = "stored")
  BY <1>0, <1>2, <1>3, <1>4, <1>6, MeaningHolds DEF Meaning
<1>8. d \in Excused
  BY <1>1, <1>2 DEF Causes, HandCause, Excused
<1>9. UNCHANGED <<accepted, tries, Excused>>
  BY DEF Discard, endpoints, history, Excused
<1>10. CASE Gone({d} \cap {c \in Deliveries : outbox[c] # None}) /\ UNCHANGED bounds
  <2>1. stage'[d] = "gone"
    BY <1>2, <1>6, <1>10 DEF Gone
  <2>2. FateOf(d)' = "over"
    BY <1>0, <1>2, <1>4, <2>1, MeaningAfter DEF Meaning
  <2>3. Fate' = [Fate EXCEPT ![d] = "over"] /\ Fate[d] = FateOf(d)
    BY <1>2, <1>5, <2>2, FateAt, FateExcept
  <2>4. Promise!Close(d)
    BY <1>7, <1>8, <1>9, <1>10, <2>3 DEF bounds, Promise!Close, Promise!Becomes
  <2> QED
    BY <1>2, <2>4
<1>11. CASE Trouble /\ UNCHANGED <<outbox, stage>>
  <2>1. FateOf(d)' # FateOf(d) => <<FateOf(d), FateOf(d)'>> = <<"stray", "over">>
    BY <1>0, <1>2, <1>4, <1>6, <1>7, <1>11, MeaningAfter DEF Meaning
  <2>2. Promise!Only(Deliveries, {<<"new", "lost">>, <<"taken", "owed">>, <<"taken", "over">>, <<"stray", "over">>})
    BY <1>0, <1>5, <2>1, FatesMove
  <2> QED
    BY <1>9, <1>11, <2>2 DEF Trouble, Promise!Mishap
<1> QED
  BY <1>1, <1>10, <1>11

\* An attempt does with one delivery what its subscriber answers.
LEMMA AttemptPromise ==
  ASSUME Kept, [Next]_vars, NEW w \in Workers, Attempt(w)
  PROVE  \E d \in Deliveries : Promise!Take(d) \/ Promise!Refuse(d) \/ Promise!TakeUnheard(d)
<1>0. Typed /\ Typed' /\ FlyingStored
  BY NextTyped DEF Kept
<1>1. PICK d \in Deliveries : work[w] # None /\ work[w] \in Task /\ work[w].answer = "none" /\ work[w].job.id = d
  BY <1>0, LaneTypes DEF Attempt, Sends, Job
<1>2. PICK a \in {"ok", "failed", "gone"} :
          /\ work' = [work EXCEPT ![w].answer = a]
          /\ \/ a = "ok" /\ accepted' = [accepted EXCEPT ![d] = @ + 1] /\ UNCHANGED bounds
             \/ a # "ok" /\ UNCHANGED <<accepted, bounds>>
             \/ a # "ok" /\ Trouble /\ accepted' = [accepted EXCEPT ![d] = @ + 1]
  BY <1>1 DEF Attempt
<1>3. tries' = [tries EXCEPT ![d] = @ + 1] /\ UNCHANGED <<stage, hand, queue, Excused>>
  BY <1>1 DEF Attempt, table, endpoints, Excused
<1>4. /\ work'[w] # None /\ work'[w].job = work[w].job /\ work'[w].answer = a
      /\ \A v \in Workers \ {w} : work'[v] = work[v]
  <2>1. work'[w] = [work[w] EXCEPT !.answer = a] /\ \A v \in Workers \ {w} : work'[v] = work[v]
    BY <1>0, <1>2 DEF Typed, LanesTyped, WorkTyped
  <2>2. work'[w] \in Task /\ work'[w].job = work[w].job /\ work'[w].answer = a
    BY <1>1, <2>1 DEF Task
  <2> QED
    BY <2>1, <2>2, NoneAssumption
<1>5. SenderAt(d, w) /\ Flying(d) /\ OnePlace(d)
  BY <1>1, FlyingIs, InOnePlace DEF SenderAt
<1>6. \A v \in Workers : work[v] # None /\ work[v].job.id = d => v = w
  BY <1>5 DEF OnePlace, SenderAt
<1>7. ~Took(d) /\ (Took(d)' <=> a = "ok") /\ Flying(d)'
  <2>1. ~Took(d)
    BY <1>1, <1>6 DEF Took
  <2>2. Took(d)' <=> a = "ok"
    BY <1>1, <1>4, <1>6 DEF Took
  <2>3. Flying(d)'
    BY <1>1, <1>4 DEF Flying
  <2> QED
    BY <2>1, <2>2, <2>3
<1>8. ASSUME NEW c \in Deliveries \ {d} PROVE FateOf(c)' = FateOf(c)
  <2>1. \A v \in Workers : work'[v] # None /\ work'[v].job.id = c <=> work[v] # None /\ work[v].job.id = c
    BY <1>1, <1>4
  <2>2. Took(c)' <=> Took(c)
    BY <1>1, <1>4 DEF Took
  <2>3. Flying(c)' <=> Flying(c)
    BY <1>3, <2>1 DEF Flying
  <2> QED
    BY <1>0, <1>3, <2>2, <2>3, FateSame
<1>9. stage[d] \in {"stored", "gone"} /\ FateOf(d) \in {"owed", "stray"}
  BY <1>0, <1>1, <1>5, <1>7, MeaningHolds DEF FlyingStored, Meaning
<1>10. Fate[d] \in {"owed", "stray"}
  BY <1>1, <1>9, FateAt
<1>11. CASE a = "ok" /\ accepted' = [accepted EXCEPT ![d] = @ + 1] /\ UNCHANGED bounds
  <2>1. FateOf(d)' = "taken"
    BY <1>0, <1>1, <1>3, <1>7, <1>9, <1>11, MeaningAfter DEF Meaning
  <2>2. Fate' = [Fate EXCEPT ![d] = "taken"]
    BY <1>1, <1>8, <2>1, FateExcept
  <2>3. Promise!Take(d)
    BY <1>3, <1>10, <1>11, <2>2
       DEF bounds, Promise!Take, Promise!Becomes, Promise!Asked, Promise!Given
  <2> QED
    BY <1>1, <2>3
<1>12. CASE a # "ok"
  <2>1. FateOf(d)' = FateOf(d)
    BY <1>0, <1>1, <1>3, <1>5, <1>7, <1>12, FateSame
  <2>2. Fate' = Fate
    BY <1>8, <2>1, FatesEqual
  <2>3. CASE UNCHANGED <<accepted, bounds>>
    <3>1. Promise!Refuse(d)
      BY <1>3, <1>10, <2>2, <2>3 DEF bounds, Promise!Refuse, Promise!Asked
    <3> QED
      BY <1>1, <3>1
  <2>4. CASE Trouble /\ accepted' = [accepted EXCEPT ![d] = @ + 1]
    <3>1. Promise!TakeUnheard(d)
      BY <1>3, <1>10, <2>2, <2>4 DEF Trouble, Promise!TakeUnheard, Promise!Asked, Promise!Given
    <3> QED
      BY <1>1, <3>1
  <2> QED
    BY <1>2, <1>12, <2>3, <2>4
<1> QED
  BY <1>2, <1>11, <1>12

\* A worker that settles closes its delivery, puts it off, or finds it closed already.
LEMMA SettlePromise ==
  ASSUME Kept, Causes, [Next]_vars, ~Restart, ~ \E l \in Lanes : Discard(l), ~ \E v \in Workers : Attempt(v),
         NEW w \in Workers, Settle(w)
  PROVE  (\E d \in Deliveries : Promise!Close(d)) \/ Promise!Mishap \/ UNCHANGED Promise!vars
<1>0. Typed /\ Typed' /\ FlyingStored
  BY NextTyped DEF Kept
<1>1. PICK d \in Deliveries : work[w] # None /\ work[w] \in Task /\ work[w].answer # "none" /\ work[w].job.id = d
  BY <1>0, LaneTypes DEF Settle, Job
<1>2. work' = [work EXCEPT ![w] = None] /\ UNCHANGED <<subscriber, hand, queue>>
  BY DEF Settle
<1>3. UNCHANGED <<accepted, tries, Excused>>
  BY DEF Settle, endpoints, history, Excused
<1>4. SenderAt(d, w) /\ Flying(d) /\ OnePlace(d)
  BY <1>1, FlyingIs, InOnePlace DEF SenderAt
<1>5. ~Flying(d)' /\ ~Took(d)'
  <2>1. \A l, j : ~JobAt(d, l, j)'
    BY <1>2, <1>4 DEF OnePlace, JobAt
  <2>2. \A l, i : ~PlaceAt(d, l, i)'
    <3>1. \A l, i : ~PlaceAt(d, l, i)
      BY <1>4 DEF OnePlace
    <3>2. \A l, i : PlaceAt(d, l, i)' <=> PlaceAt(d, l, i)
      BY <1>2 DEF PlaceAt
    <3> QED
      BY <3>1, <3>2
  <2>3. \A v : SenderAt(d, v)' => v # w /\ SenderAt(d, v)
    BY <1>0, <1>1, <1>2 DEF SenderAt, Typed, LanesTyped, WorkTyped
  <2>4. \A v : ~SenderAt(d, v)'
    BY <1>4, <2>3 DEF OnePlace
  <2>5. ~Flying(d)'
    BY <2>1, <2>2, <2>4, FlyingIsAfter
  <2> QED
    BY <1>0, <1>1, <2>5, MeaningAfter DEF Meaning
<1>6. ASSUME NEW c \in Deliveries \ {d} PROVE FateOf(c)' = FateOf(c)
  <2>1. ~ \E v \in Workers : SenderAt(c, v) /\ Settle(v)
    <3> SUFFICES ASSUME NEW v \in Workers, SenderAt(c, v), Settle(v) PROVE FALSE
      OBVIOUS
    <3>1. work'[v] = None /\ v # w /\ work[v] # None
      BY <1>0, <1>1 DEF Settle, SenderAt, Typed, LanesTyped, WorkTyped
    <3> QED
      BY <1>0, <1>2, <3>1 DEF Typed, LanesTyped, WorkTyped
  <2>2. stage'[c] = stage[c]
    BY <1>1 DEF Settle, Gone
  <2> QED
    BY <1>0, <2>1, <2>2, FateStays
<1>7. stage[d] \in {"stored", "gone"} /\ (stage[d] = "stored" <=> outbox[d] # None)
  BY <1>0, <1>1, <1>4 DEF FlyingStored, Typed, TableTyped
<1>8. /\ FateOf(d) \in {"owed", "taken", "stray"} /\ Fate[d] = FateOf(d)
      /\ FateOf(d) = "owed" <=> stage[d] = "stored" /\ ~Took(d)
  BY <1>0, <1>1, <1>4, <1>7, FateAt, MeaningHolds DEF Meaning
<1>9. ASSUME FateOf(d)' = "over", UNCHANGED bounds,
             FateOf(d) = "owed" => tries[d] >= MaxAttempts \/ d \in Excused
      PROVE  Promise!Close(d)
  <2>1. Fate' = [Fate EXCEPT ![d] = "over"]
    BY <1>1, <1>6, <1>9, FateExcept
  <2> QED
    BY <1>3, <1>8, <1>9, <2>1 DEF bounds, Promise!Close, Promise!Becomes
<1>10. CASE outbox[d] # None /\ Over(work[w]) /\ Gone({d}) /\ UNCHANGED bounds
  <2>1. FateOf(d)' = "over"
    BY <1>0, <1>1, <1>5, <1>10, MeaningAfter DEF Gone, Meaning
  <2>2. Told(work[w])
    BY <1>1 DEF Causes, WorkCause
  <2>3. work[w].answer = "ok" => Took(d)
    BY <1>1 DEF Took
  <2>4. work[w].answer = "gone" => d \in Excused
    BY <1>1, <2>2 DEF Told, Excused
  <2>5. work[w].job.attempt >= MaxAttempts => tries[d] >= MaxAttempts
    <3>1. work[w].job.attempt <= tries[d] /\ work[w].job.attempt \in Nat /\ tries[d] \in Nat /\ MaxAttempts \in Nat
      BY <1>0, <1>1, <2>2, BoundsAssumption DEF Told, Reached, Task, Job, Typed, HistoryTyped
    <3> QED
      BY <3>1
  <2>6. FateOf(d) = "owed" => tries[d] >= MaxAttempts \/ d \in Excused
    BY <1>8, <1>10, <2>3, <2>4, <2>5 DEF Over
  <2> QED
    BY <1>1, <1>9, <1>10, <2>1, <2>6
<1>11. CASE outbox[d] # None /\ ~Over(work[w]) /\ UNCHANGED <<stage, bounds>>
  <2>1. ~Took(d)
    BY <1>4, <1>11 DEF Over, Took, OnePlace, SenderAt
  <2>2. FateOf(d)' = FateOf(d)
    BY <1>0, <1>1, <1>5, <1>7, <1>11, <2>1, FateSame
  <2>3. Fate' = Fate
    BY <1>6, <2>2, FatesEqual
  <2> QED
    BY <1>3, <1>11, <2>3 DEF bounds, Promise!vars
<1>12. CASE outbox[d] = None /\ UNCHANGED <<stage, bounds>>
  <2>1. FateOf(d)' = "over" /\ FateOf(d) # "owed"
    BY <1>0, <1>1, <1>5, <1>7, <1>8, <1>12, MeaningAfter DEF Meaning
  <2> QED
    BY <1>1, <1>9, <1>12, <2>1
<1>13. CASE Trouble /\ UNCHANGED stage
  <2>1. FateOf(d)' # FateOf(d)
          => <<FateOf(d), FateOf(d)'>> \in {<<"taken", "owed">>, <<"taken", "over">>, <<"stray", "over">>}
    BY <1>0, <1>1, <1>5, <1>7, <1>8, <1>13, MeaningHolds, MeaningAfter DEF Meaning
  <2>2. Promise!Only(Deliveries, {<<"new", "lost">>, <<"taken", "owed">>, <<"taken", "over">>, <<"stray", "over">>})
    BY <1>0, <1>6, <2>1, FatesMove
  <2> QED
    BY <1>3, <1>13, <2>2 DEF Trouble, Promise!Mishap
<1>14. \/ outbox[d] # None /\ Over(work[w]) /\ Gone({d}) /\ UNCHANGED bounds
       \/ outbox[d] # None /\ ~Over(work[w]) /\ UNCHANGED <<stage, bounds>>
       \/ outbox[d] = None /\ UNCHANGED <<stage, bounds>>
       \/ Trouble /\ UNCHANGED stage
  BY <1>1 DEF Settle
<1> QED
  BY <1>10, <1>11, <1>12, <1>13, <1>14

LEMMA PromiseStep ==
  ASSUME Kept, Causes, [Next]_vars
  PROVE  [Promise!Next]_(Promise!vars)
<1>0. Typed /\ FlyingStored
  BY DEF Kept
<1>1. CASE Restart
  BY <1>0, <1>1, RestartPromise DEF Promise!Next
<1>2. CASE \E l \in Lanes : Discard(l)
  BY <1>2, DiscardPromise DEF Promise!Next
<1>3. CASE \E w \in Workers : Attempt(w)
  BY <1>3, AttemptPromise DEF Promise!Next
<1>4. CASE (\E w \in Workers : Settle(w)) /\ ~Restart /\ ~(\E l \in Lanes : Discard(l))
           /\ ~(\E w \in Workers : Attempt(w))
  BY <1>4, SettlePromise DEF Promise!Next
<1>5. CASE \E d \in Deliveries : Emit(d)
  BY <1>0, <1>5, EmitPromise DEF Promise!Next
<1>6. CASE \E d \in Deliveries : Store(d)
  BY <1>0, <1>6, StorePromise DEF Promise!Next
<1>7. CASE \E s \in Subscribers : Switch(s) \/ Remove(s)
  BY <1>0, <1>7, SubscribersPromise DEF Promise!Next
<1>8. CASE \E s \in Subscribers : Drop(s)
  BY <1>0, <1>8, DropPromise DEF Promise!Next
<1>9. CASE ~Restart /\ ~(\E l \in Lanes : Discard(l)) /\ ~(\E w \in Workers : Attempt(w))
           /\ ~(\E w \in Workers : Settle(w))
           /\ (LeaseHooks \/ LeasePlugins \/ (\E l \in Lanes : Queue(l)) \/ (\E w \in Workers : Take(w))
               \/ Tick \/ UNCHANGED vars)
  <2>1. UNCHANGED <<subscriber, stage, refused, accepted, tries>>
    BY <1>9 DEF LeaseHooks, LeasePlugins, Queue, Take, Tick, vars, table, endpoints, history
  <2> QED
    BY <1>0, <1>9, <2>1, QuietPromise DEF Promise!Next
<1> QED
  BY <1>1, <1>2, <1>3, <1>4, <1>5, <1>6, <1>7, <1>8, <1>9 DEF Next, Dispatch, Works

LEMMA InitPromise == Init => Promise!Init
<1> SUFFICES ASSUME Init PROVE Promise!Init
  OBVIOUS
<1>1. \A d \in Deliveries : FateOf(d) = "new"
  BY DEF Init, FateOf
<1>2. Fate = [d \in Deliveries |-> "new"]
  BY <1>1 DEF Fate
<1>3. Excused = {}
  BY DEF Init, Excused
<1> QED
  BY <1>2, <1>3 DEF Init, Promise!Init

\* ImplementsPromise: what EmitWebhookEach, the dispatchers and the workers do is a delivery
\* as EventDelivery has it, step by step, as long as a lease is longer than a full channel
\* and a batch take: whatever happens to leases, queues and workers, what a subscriber took
\* is closed or forgotten with a mishap, and what it is owed is never just gone.
THEOREM OutboxKeepsPromise ==
  ASSUME LeaseOutlasts
  PROVE  Spec => ImplementsPromise
<1>1. Init => Causes
  BY InitCauses
<1>2. Kept /\ Causes /\ [Next]_vars => Causes'
  BY CausesNext DEF Kept
<1>3. Kept /\ Causes /\ [Next]_vars => [Promise!Next]_(Promise!vars)
  BY PromiseStep
<1> QED
  BY <1>1, <1>2, <1>3, InitPromise, KeptAlways, PTL DEF Spec, ImplementsPromise, Promise!Spec

=============================================================================
