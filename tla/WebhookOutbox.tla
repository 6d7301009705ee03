---------------------------- MODULE WebhookOutbox ----------------------------
(***************************************************************************)
(* The outbox through which events reach endpoints and plugins.  An event  *)
(* is stored as one delivery per subscriber; a dispatcher for each of the  *)
(* two lanes leases what is due and hands it to that lane's workers, who   *)
(* make one attempt and delete the delivery, or put it off by a backoff.   *)
(* A lease that runs out makes a delivery due again: that is how it comes  *)
(* back after the panel died, and why it must outlast the queue before it. *)
(*                                                                         *)
(* A tick is webhookTimeout, the longest an endpoint may take.             *)
(***************************************************************************)
EXTENDS Naturals, Sequences, FiniteSets

CONSTANTS
    Deliveries,
    Hooks, Plugins,
    HookWorkers, PluginWorkers,
    QueueLength,    \* of the channel to a lane's workers
    Batch,          \* webhookBatch
    Lease,          \* webhookLease in ticks
    MaxAttempts,    \* webhookMaxAttempts
    Backoff,        \* webhookBackoff in ticks, by the attempt that failed
    MaxSwitches,    \* bound: subscribers switched on and off or removed
    MaxTrouble,     \* bound: restarts, failing writes, lost answers
    None

Subscribers == Hooks \cup Plugins
Workers == HookWorkers \cup PluginWorkers
Lanes == {"hooks", "plugins"}

ASSUME SetsAssumption == /\ Deliveries \subseteq Nat
                         /\ Hooks \cap Plugins = {} /\ HookWorkers \cap PluginWorkers = {}
                         /\ None \notin Subscribers
ASSUME BoundsAssumption ==
    /\ QueueLength \in Nat \ {0} /\ Batch \in Nat \ {0}
    /\ Lease \in Nat \ {0} /\ MaxAttempts \in Nat \ {0}
    /\ Backoff \in [1..MaxAttempts -> 1..Lease]
    /\ MaxSwitches \in Nat /\ MaxTrouble \in Nat

VARIABLES
    subscriber,     \* whom a delivery is for
    outbox,         \* its row: the attempts made and the ticks until it is due
    stage,          \* not yet emitted, its subscriber looked up, stored, or gone
    on,             \* subscribers that are enabled
    dropping,       \* subscribers removed, whose deliveries are still to be dropped
    hand,           \* what a lane's dispatcher has leased and not yet queued
    seen,           \* the endpoints the dispatcher found enabled after its lease
    queue,          \* webhookCh, and the plugins' channel
    work,           \* what a worker is about
    busy,           \* pluginBusy
    accepted,       \* history: times a subscriber took a delivery
    tries,          \* history: attempts at it
    refused,        \* history: subscribers that were off or removed at some time
    switches, trouble

table == <<subscriber, outbox, stage>>
endpoints == <<on, dropping, refused>>
lanes == <<hand, seen, queue, work, busy>>
history == <<accepted, tries>>
bounds == <<switches, trouble>>
vars == <<table, endpoints, lanes, history, bounds>>

Row == [attempt: 0..MaxAttempts, due: 0..Lease]
Job == [id: Deliveries, attempt: 1..MaxAttempts]
Task == [job: Job, age: {0, 1}, answer: {"none", "ok", "failed", "gone"}]

ASSUME NoneAssumption == None \notin Row /\ None \notin Task

LaneOf(s) == IF s \in Hooks THEN "hooks" ELSE "plugins"
LaneOfWorker(w) == IF w \in HookWorkers THEN "hooks" ELSE "plugins"

Init ==
    /\ subscriber = [d \in Deliveries |-> None]
    /\ outbox = [d \in Deliveries |-> None]
    /\ stage = [d \in Deliveries |-> "new"]
    /\ on = Subscribers /\ dropping = {} /\ refused = {}
    /\ hand = [l \in Lanes |-> {}] /\ seen = {}
    /\ queue = [l \in Lanes |-> <<>>]
    /\ work = [w \in Workers |-> None]
    /\ busy = {}
    /\ accepted = [d \in Deliveries |-> 0] /\ tries = [d \in Deliveries |-> 0]
    /\ switches = 0 /\ trouble = 0

Trouble == trouble < MaxTrouble /\ trouble' = trouble + 1 /\ UNCHANGED switches

(* Events *)

\* EmitWebhookEach looks up who takes the event, and then stores the deliveries; they are
\* numbered here as they are emitted.
Emit(d) ==
    /\ stage[d] = "new" /\ \A c \in Deliveries : c < d => stage[c] # "new"
    /\ \E s \in on : subscriber' = [subscriber EXCEPT ![d] = s]
    /\ stage' = [stage EXCEPT ![d] = "looked"]
    /\ UNCHANGED <<outbox, endpoints, lanes, history, bounds>>

Store(d) ==
    /\ stage[d] = "looked"
    /\ \/ /\ outbox' = [outbox EXCEPT ![d] = [attempt |-> 0, due |-> 0]]
          /\ stage' = [stage EXCEPT ![d] = "stored"]
          /\ UNCHANGED bounds
       \/ /\ Trouble
          /\ stage' = [stage EXCEPT ![d] = "lost"]
          /\ UNCHANGED outbox
    /\ UNCHANGED <<subscriber, endpoints, lanes, history>>

(* Subscribers *)

\* UpdateWebhook and the plugin host switch one off or on again.
Switch(s) ==
    /\ switches < MaxSwitches /\ switches' = switches + 1 /\ UNCHANGED trouble
    /\ s \notin dropping
    /\ on' = IF s \in on THEN on \ {s} ELSE on \cup {s}
    /\ refused' = refused \cup {s}
    /\ dropping' = IF s \in on /\ s \in Plugins THEN dropping \cup {s} ELSE dropping
    /\ UNCHANGED <<table, lanes, history>>

\* DeleteWebhook removes the endpoint and then what waits for it; a plugin that stops has
\* its deliveries dropped too.
Remove(s) ==
    /\ switches < MaxSwitches /\ switches' = switches + 1 /\ UNCHANGED trouble
    /\ s \in on
    /\ on' = on \ {s}
    /\ refused' = refused \cup {s}
    /\ dropping' = dropping \cup {s}
    /\ UNCHANGED <<table, lanes, history>>

Gone(ds) ==
    /\ outbox' = [d \in Deliveries |-> IF d \in ds THEN None ELSE outbox[d]]
    /\ stage' = [d \in Deliveries |-> IF d \in ds THEN "gone" ELSE stage[d]]

Drop(s) ==
    /\ s \in dropping
    /\ dropping' = dropping \ {s}
    /\ Gone({d \in Deliveries : subscriber[d] = s /\ outbox[d] # None})
    /\ UNCHANGED <<subscriber, on, refused, lanes, history, bounds>>

(* The dispatchers *)

Due(l) == {d \in Deliveries : outbox[d] # None /\ outbox[d].due = 0 /\ LaneOf(subscriber[d]) = l}

ClaimableAny == {{d} : d \in Due("plugins")} \cup {{}}

\* LeasePluginDeliveries: one delivery of each active plugin that has none in flight.
Claimable ==
    {ds \in SUBSET {d \in Due("plugins") : subscriber[d] \in on \ busy} :
        \A c, d \in ds : c # d => subscriber[c] # subscriber[d]}

LeasedBriefly(ds) ==
    outbox' = [d \in Deliveries |-> IF d \in ds THEN [outbox[d] EXCEPT !.due = 1] ELSE outbox[d]]

Leased(ds) ==
    outbox' = [d \in Deliveries |-> IF d \in ds THEN [outbox[d] EXCEPT !.due = Lease] ELSE outbox[d]]

Jobs(ds) == {[id |-> d, attempt |-> outbox[d].attempt + 1] : d \in ds}

LeaseHooks ==
    /\ hand["hooks"] = {} /\ Due("hooks") # {}
    /\ \E ds \in SUBSET Due("hooks") :
        /\ \/ Cardinality(ds) = Batch
           \/ ds = Due("hooks") /\ Cardinality(ds) < Batch
        /\ Leased(ds)
        /\ \/ hand' = [hand EXCEPT !["hooks"] = Jobs(ds)] /\ UNCHANGED bounds
           \/ Trouble /\ UNCHANGED hand
    /\ seen' = on \cap Hooks
    /\ UNCHANGED <<subscriber, stage, endpoints, queue, work, busy, history>>

LeasePlugins ==
    /\ hand["plugins"] = {}
    /\ \E ds \in Claimable :
        /\ ds # {} /\ Cardinality(ds) <= Batch
        /\ Leased(ds)
        /\ hand' = [hand EXCEPT !["plugins"] = Jobs(ds)]
        /\ busy' = busy \cup {subscriber[d] : d \in ds}
    /\ UNCHANGED <<subscriber, stage, endpoints, seen, queue, work, history, bounds>>

OrphanUnseen(job) == subscriber[job.id] \notin seen
Orphan(job) == subscriber[job.id] \in Hooks \ seen

\* A delivery whose endpoint was removed or switched off is dropped; a write that fails
\* is ignored, and the lease brings it back.
Discard(l) ==
    /\ \E job \in hand[l] :
        /\ Orphan(job)
        /\ hand' = [hand EXCEPT ![l] = @ \ {job}]
        /\ \/ Gone({job.id} \cap {d \in Deliveries : outbox[d] # None}) /\ UNCHANGED bounds
           \/ Trouble /\ UNCHANGED <<outbox, stage>>
    /\ UNCHANGED <<subscriber, endpoints, seen, queue, work, busy, history>>

Room(l) == Len(queue[l]) < QueueLength
Queue(l) ==
    /\ Room(l)
    /\ \E job \in hand[l] :
        /\ ~Orphan(job)
        /\ hand' = [hand EXCEPT ![l] = @ \ {job}]
        /\ queue' = [queue EXCEPT ![l] = Append(@, job)]
    /\ UNCHANGED <<table, endpoints, seen, work, busy, history, bounds>>

(* The workers *)

Take(w) ==
    /\ work[w] = None
    /\ LET l == LaneOfWorker(w)
       IN /\ queue[l] # <<>>
          /\ work' = [work EXCEPT ![w] = [job |-> Head(queue[l]), age |-> 0, answer |-> "none"]]
          /\ queue' = [queue EXCEPT ![l] = Tail(@)]
    /\ UNCHANGED <<table, endpoints, hand, seen, busy, history, bounds>>

Sends(w) == work[w] # None /\ work[w].answer = "none"
Plugin(w) == subscriber[work[w].job.id]

\* The endpoint or plugin takes it, refuses it, or takes it and the answer is lost; a
\* plugin may be gone.
Attempt(w) ==
    /\ Sends(w)
    /\ LET d == work[w].job.id
           answers(a) == work' = [work EXCEPT ![w].answer = a]
       IN /\ tries' = [tries EXCEPT ![d] = @ + 1]
          /\ \/ /\ answers("ok")
                /\ accepted' = [accepted EXCEPT ![d] = @ + 1]
                /\ UNCHANGED bounds
             \/ answers("failed") /\ UNCHANGED <<accepted, bounds>>
             \/ /\ Trouble
                /\ answers("failed")
                /\ accepted' = [accepted EXCEPT ![d] = @ + 1]
             \/ /\ w \in PluginWorkers /\ Plugin(w) \notin on
                /\ answers("gone")
                /\ UNCHANGED <<accepted, bounds>>
    /\ UNCHANGED <<table, endpoints, hand, seen, queue, busy>>

OverSoon(task) == task.answer \in {"ok", "gone"} \/ task.job.attempt + 1 >= MaxAttempts
OverTried(task) == task.answer = "gone" \/ task.job.attempt >= MaxAttempts
Over(task) == task.answer \in {"ok", "gone"} \/ task.job.attempt >= MaxAttempts

ReleasesSuccess(w) == IF w \in PluginWorkers /\ work[w].answer = "ok" THEN {Plugin(w)} ELSE {}
Releases(w) == IF w \in PluginWorkers THEN {Plugin(w)} ELSE {}

\* Delivered, gone or out of attempts: the row is deleted. Otherwise it is due again
\* after a backoff. A write that fails leaves it to its lease.
Settle(w) ==
    /\ work[w] # None /\ work[w].answer # "none"
    /\ LET d == work[w].job.id
           n == work[w].job.attempt
       IN \/ /\ outbox[d] # None
             /\ IF Over(work[w]) THEN Gone({d})
                ELSE /\ outbox' = [outbox EXCEPT ![d] = [attempt |-> n, due |-> Backoff[n]]]
                     /\ UNCHANGED stage
             /\ UNCHANGED bounds
          \/ outbox[d] = None /\ UNCHANGED <<outbox, stage, bounds>>
          \/ Trouble /\ UNCHANGED <<outbox, stage>>
    /\ work' = [work EXCEPT ![w] = None]
    /\ busy' = busy \ Releases(w)
    /\ UNCHANGED <<subscriber, endpoints, hand, seen, queue, history>>

(* Time and restarts *)

\* Nothing that takes no time is put off for a tick, and an endpoint has one to answer.
Prompt ==
    /\ \A l \in Lanes : hand[l] # {} => ~Room(l) /\ \A job \in hand[l] : ~Orphan(job)
    /\ \A w \in Workers : work[w] = None => queue[LaneOfWorker(w)] = <<>>
    /\ \A w \in Workers : work[w] # None => work[w].answer = "none"
    /\ \A w \in HookWorkers : work[w] # None => work[w].age = 0

Waiting == \/ \E d \in Deliveries : outbox[d] # None /\ outbox[d].due > 0
           \/ \E w \in HookWorkers : work[w] # None /\ work[w].age = 0

Tick ==
    /\ Prompt /\ Waiting
    /\ outbox' = [d \in Deliveries |->
                    IF outbox[d] # None /\ outbox[d].due > 0
                    THEN [outbox[d] EXCEPT !.due = @ - 1] ELSE outbox[d]]
    /\ work' = [w \in Workers |-> IF w \in HookWorkers /\ work[w] # None
                                  THEN [work[w] EXCEPT !.age = 1] ELSE work[w]]
    /\ UNCHANGED <<subscriber, stage, endpoints, hand, seen, queue, busy, history, bounds>>

\* What was leased comes back with its lease; an event not yet stored is gone.
Restart ==
    /\ Trouble
    /\ hand' = [l \in Lanes |-> {}] /\ seen' = {}
    /\ queue' = [l \in Lanes |-> <<>>]
    /\ work' = [w \in Workers |-> None]
    /\ busy' = {}
    /\ stage' = [d \in Deliveries |-> IF stage[d] = "looked" THEN "lost" ELSE stage[d]]
    /\ dropping' = {}
    /\ UNCHANGED <<subscriber, outbox, on, refused, history>>

Dispatch == LeaseHooks \/ LeasePlugins \/ \E l \in Lanes : Discard(l) \/ Queue(l)
Works(w) == Take(w) \/ Attempt(w) \/ Settle(w)

Next == \/ \E d \in Deliveries : Emit(d) \/ Store(d)
        \/ \E s \in Subscribers : Switch(s) \/ Remove(s) \/ Drop(s)
        \/ Dispatch \/ (\E w \in Workers : Works(w))
        \/ Tick \/ Restart

Spec == Init /\ [][Next]_vars

\* Both dispatchers poll, workers go on, time passes.
FairSpec ==
    /\ Spec
    /\ WF_vars(LeaseHooks) /\ WF_vars(LeasePlugins)
    /\ \A l \in Lanes : WF_vars(Discard(l)) /\ WF_vars(Queue(l))
    /\ \A w \in Workers : WF_vars(Works(w))
    /\ WF_vars(Tick)
-------------------------------------------------------------------------------
TypeOK ==
    /\ subscriber \in [Deliveries -> Subscribers \cup {None}]
    /\ outbox \in [Deliveries -> Row \cup {None}]
    /\ stage \in [Deliveries -> {"new", "looked", "stored", "lost", "gone"}]
    /\ \A d \in Deliveries : /\ stage[d] = "new" <=> subscriber[d] = None
                             /\ stage[d] = "stored" <=> outbox[d] # None
    /\ on \subseteq Subscribers /\ dropping \subseteq refused /\ refused \subseteq Subscribers
    /\ hand \in [Lanes -> SUBSET Job] /\ seen \subseteq Hooks
    /\ queue \in [Lanes -> Seq(Job)]
    /\ work \in [Workers -> Task \cup {None}]
    /\ busy \subseteq Plugins
    /\ accepted \in [Deliveries -> Nat] /\ tries \in [Deliveries -> Nat]
    /\ switches \in 0..MaxSwitches /\ trouble \in 0..MaxTrouble

\* Where a delivery is in flight: with a dispatcher, in a channel or with a worker.
Hands(d) == {l \in Lanes : \E job \in hand[l] : job.id = d}
Places(d) == UNION {{<<l, i>> : i \in {i \in 1..Len(queue[l]) : queue[l][i].id = d}} : l \in Lanes}
Senders(d) == {w \in Workers : work[w] # None /\ work[w].job.id = d}
InFlight(d) == Cardinality(Hands(d)) + Cardinality(Places(d)) + Cardinality(Senders(d))

\* No delivery is in flight twice: "nothing leased is still waiting for a worker when its
\* lease runs out" (webhookLease).
OneSender == \A d \in Deliveries : InFlight(d) <= 1

\* A plugin is called with one event at a time (LeasePluginDeliveries).
OneAtATime ==
    \A p \in Plugins : Cardinality({d \in Deliveries : subscriber[d] = p /\ InFlight(d) > 0}) <= 1

\* A subscriber is given a delivery it took once more only for a restart, a write that
\* failed or an answer that was lost, each of them once.
RepeatsForCause == \A d \in Deliveries : accepted[d] <= 1 + trouble

\* A stored delivery goes only when it was taken, was tried often enough, or its
\* subscriber was switched off or removed: a restart loses none (EmitWebhook's header).
GoneForCause ==
    \A d \in Deliveries : stage[d] = "gone" =>
        accepted[d] > 0 \/ tries[d] >= MaxAttempts \/ subscriber[d] \in refused

\* What the subscribers are promised is the abstract delivery. Here one is owed while it has
\* a row, taken while a worker knows so and has yet to store it, and stray while it is in
\* flight without a row.
Flying(d) ==
    \/ \E l \in Lanes : \E job \in hand[l] : job.id = d
    \/ \E l \in Lanes : \E i \in 1..Len(queue[l]) : queue[l][i].id = d
    \/ \E w \in Workers : work[w] # None /\ work[w].job.id = d

Took(d) == \E w \in Workers : work[w] # None /\ work[w].job.id = d /\ work[w].answer = "ok"

FateOf(d) ==
    CASE stage[d] \in {"new", "looked"} -> "new"
      [] stage[d] = "lost" -> "lost"
      [] stage[d] \in {"stored", "gone"} /\ Took(d) -> "taken"
      [] stage[d] = "stored" /\ ~Took(d) -> "owed"
      [] stage[d] = "gone" /\ ~Took(d) /\ Flying(d) -> "stray"
      [] OTHER -> "over"
Fate == [d \in Deliveries |-> FateOf(d)]
Excused == {d \in Deliveries : subscriber[d] \in refused}

Promise == INSTANCE EventDelivery WITH
    fate <- Fate, given <- accepted, asked <- tries, excused <- Excused, mishaps <- trouble
ImplementsPromise == Promise!Spec

\* And every stored one goes in the end, unless its plugin stays switched off.
Delivered ==
    \A d \in Deliveries : <>[](stage[d] = "stored" => subscriber[d] \in Plugins \ on)
===============================================================================
