# TLA+ models of RosPanel

RosPanel is a VPN panel. One master runs the panel (web UI, REST API, MCP, Telegram bots), an SQLite
database and its own Xray; any number of nodes run an agent and an Xray each, and hold an outbound
long-poll to the master. Users buy plans through payment providers or by hand; the master itself can
be moved to another server.

The models here are about the parts of that where the order of things decides whether the program is
right: who has counted a byte, who has been paid, who is the master, which configuration runs, who
has got a message, which way a client's traffic takes. Each is written from the Go source; the
comments of a module name the functions its actions stand for.

Contents: 1 parts of the system, 2 modules and how they correspond to the code, 3 runs, 4 fairness,
5 proofs, 6 what the models say against the code's own words, 7 not modelled, 8 plan.

## 1. The parts of the system

Paths are relative to `src/internal`.

### Modelled

| part | code | state | operations | interacts with | what is hard | what makes it correct |
|---|---|---|---|---|---|---|
| node traffic | `nodeagent/state.go`, `carry.go`, `agent.go`, `lanes.go`; `server/node_api.go`, `core/manager_nodes_sync.go`, `store/nodes.go` | agent: `pending`, `inflight`, report ids, `state.json`, `carry.json`, `revoked`; panel: users' traffic, `last_report_id`, `enabled` | sample, build or repeat a report, send, give up, hear the answer, stop, crash, start; look the node up, book, hold and answer | one HTTP long-poll per node; Xray's counters below, users' quotas above | the answer to a booked report is lost; a request overtaken by its own resend; restarts of either side; a disk that fails; a node switched off and on under a held request | every byte is counted once, none is lost but in the memory of an agent that dies |
| payment orders | `core/manager_billing.go`, `manager_payments.go`, `manager_wallet.go`, `manager_wallet_extra.go`; `store/wallet.go`, `billing.go` | orders, balance, discount code, plan and term, referral reward | checkout (by hand, by provider), confirmation (webhook, poll, operator), cancellation (operator, sweep, a newer order), refund to the balance, refund or chargeback at the provider, buying and renewing from the balance, downgrade, cancelling a plan | providers' webhooks and polls; scheduled jobs; the operator | the same payment heard of twice or very late; an order cancelled and then paid; a refund before its payment; prices and balances read at checkout and used at delivery | an order settles once, the balance is what the orders say, nobody has time nobody paid for, captured money ends up as a paid order |
| moving the master | `migration/*.go`, `server/panel_migration.go`, `cmd/rospanel/candidate.go` | old master: `migration_state.json`, both fences, its database; candidate: its session, data, pairing token, mode | start, verify, switch (seven steps), roll back, decommission; install a candidate, apply a snapshot, promote, start as a server | HTTP between the two servers, DNS, systemd | either dies between any two saves; a promotion handled and not answered; requests handled after they were given up; verification, rollback, decommission and switch overlap | never no master, never one without the data, a promotion that is served is for good |
| Xray supervisor | `xray/supervisor.go`, `live_raw.go`, `live_inbounds.go`; `core/manager.go` (reconcile loop, live user sync), `nodeagent/agent.go` (pushed states) | `config.json` and `.bak`, the process, restart loops, `appliedCfg`, `rolledBack`, `suspended`, `closed` | apply, live change, restart, suspend, resume, stop; crash restart, rollback, promotion of a config, watchdog | called by the master's reconcile loop or by the agent; starts and kills a process | two locks; goroutines that go on while an operation runs; a live change that fails half way; a restart loop that wakes up late | one process at most, none where it is switched off, a node's Xray runs its file, a crash is not the end |
| node desired state | `core/manager_node_split.go`, `manager_node_state.go`, `manager_nodes_wake.go`, `manager.go`; `server/node_api.go`; `nodestate`, `nodeapi/split.go`, `nodeagent/split.go` | inputs with a version, a cache and a journal; wake channels; state tags; what the node holds and has saved | change, announce, wake; compare, send nothing, a name, a change or the whole; apply or refuse | the same request that carries the report of node traffic; the reconcile loop | a journal that was trimmed, a restarted panel, a lost answer, a change between the comparison and the hold | a tag names what is held; no change is slept through; the node comes to hold what the database says |
| broadcasts | `core/manager_broadcast.go`, `store/broadcasts.go`, `telegram/broadcast.go`, `server/panel_broadcast.go` | status, recipients' rows, attachment, quarantine | create, schedule, start, send a batch, mark it, pause, resume, cancel, retry, opt out, sweep | Telegram; the operator; the webhook outbox | outcomes written after the batch left; a status read and written without condition; a restart in between | nobody gets a message twice without a cause that is known, a finished run has nobody waiting |
| webhook outbox | `store/webhook_outbox.go`, `core/manager_webhooks.go`, `manager_plugin_events.go`, `plugin/events.go` | deliveries with leases and attempts, two channels, claims on plugins | emit, store, lease, queue, attempt, settle, drop | endpoints, plugins; everybody who emits events | a lease that runs out while its delivery waits or is sent; a subscriber removed in between | one sender at a time, a plugin handles one event at a time, nothing stored is forgotten |
| multi-hop rollout | `core/manager_multihop_rollout.go`, `manager_multihop_profiles.go`, `manager_cascade.go`, `xray/multihop_reverse.go` | the route's row with its live and its pending chain; what each server runs and last said it runs | create, change, disable, delete; a pass of the loop; report, answer, apply | the servers' long-polls; the operator | a server that answers late, moves, or falls out while a chain is built | traffic enters a route only when every hop behind the entry is there |

### Not modelled, with a protocol of their own

| part | code | state | operations | what is hard | what would make it correct |
|---|---|---|---|---|---|
| counter sampling, quota watch | `nodeagent/quota.go`, `state.go` | last counters, over-quota set | sample, watch | a restart of Xray between two readings; two readers of the counters | a delta is never booked twice nor negative |
| served users | `core/manager_node_served.go` | who a node may report for, with stamps | change, note, grace hour | the record changes between look and write | a node's reports count for those it served, and nobody else |
| one-shot commands | `core/manager_nodes_cmds.go`, `store/node_commands.go` | commands with their states | enqueue, hand over, clear | an answer that is lost | a command runs at most once (it does, and may not run at all) |
| registration requests | `store/registration_requests.go`, `registration_web_atomic.go`, `core/manager_signup*.go` | requests, invitations | request, approve, refuse | two operators, an expired request | one user per approved request |
| add-on orders | `core/manager_purchase.go`, `store/billing.go` | orders for devices, traffic, a change of plan | as plan orders, with another delivery | as plan orders | as plan orders |

### Without a protocol

Config generation, client formats and subscription rendering (pure functions); users, groups,
devices, sessions and settings (one transaction each); scheduled jobs (they call the parts above;
their effect on orders and terms is in `PaymentOrders`); abuse detection, shaping and bans
(thresholds); health, alerts and statistics (observation); Telegram dialogues; payment providers'
protocols (what they do with an invoice is an external part of `PaymentOrders`); the protocol
servers beside Xray; TLS and ACME; backups and updates; plugins; the HTTP and MCP surface; host
plumbing.

## 2. The modules

| module | what it is |
|---|---|
| `TrafficLedger` | what the panel promises about traffic: units are used, a set of outstanding ones is settled at a time |
| `NodeTraffic` | agent, wire and panel; implements `TrafficLedger` |
| `OrderBook` | what the panel promises about orders: opened, bought or banked once, refunded or returned once, and what each does to the balance |
| `PaymentOrders` | one user's orders, balance and term; implements `OrderBook` |
| `MasterMigration` | the old master, its candidates and the requests between them |
| `XraySupervisor` | one Xray under its supervisor, with the master's or the agent's loop that drives it |
| `NodeStateSync` | the panel's inputs, journal and wakes, the held requests, and a node |
| `Broadcasts` | broadcasts, their recipients, the worker, the operators |
| `EventDelivery` | what an event's delivery promises its subscriber: owed, taken, over, and only a mishap makes the sender forget |
| `WebhookOutbox` | the table of deliveries, two dispatchers, their channels and workers; implements `EventDelivery` |
| `MultiHopRollout` | one route, the servers it goes through, the rollout loop |
| `MC...` | symmetry, and constants that are not sets of model values |
| `...Proofs` | the theorems about the module of that name (section 5) |

A module that has no `MC` module is run by itself.

The systems share little state in the code either: traffic of a user reaches billing only as a
quota, a migration moves the database as a whole, a broadcast reaches the outbox as one event. A
node's long-poll carries both its report (`NodeTraffic`) and its state (`NodeStateSync`); the two
halves of the handler touch different state and are joined only by the order in which it runs them,
report first. What a node is sent (`NodeStateSync`) and what its supervisor makes of it
(`XraySupervisor`, `Push` onwards) meet in one value, the pushed configuration.

### NodeTraffic

Traffic is a set of units, each used once. What the panel adds to a user is the number of units it
books, so "counted once" is a statement about single units. Units belong to a user or to `Lane`, the
per-protocol traffic that is not any user's and only goes along in a report that is due. `ChunkMax`
is `trafficChunkMax`, the most users in one report.

| state | code |
|---|---|
| `pc`, `pending`, `inflight`, `inflightID`, `reportSeq`, `conn` | where `syncLoop` is; `Agent.pending` and `pendingLanes`, `inflight`, `inflightID`, `reportSeq`; the request it waits for |
| `lastSent`, `carry`, `revoked` | `state.json`'s `last_report_id`, `carry.json`, `revoked` |
| `slot` | a request on the wire and in its handler: report id and batch, what the handler read of the node (`knows`), the ack it computed, whether it was ingested switched off (`off`) |
| `enabled`, `lastReportID`, `books` | `nodes.enabled`, `nodes.last_report_id`, users' traffic |
| `used`, `refused`, `lost` | observation only |

| action | code |
|---|---|
| `Sample(u)` | `sampleStats`, into pending |
| `BuildFresh`, `BuildAgain`, `NoteReportID` | `buildSyncRequest`: promote pending (in chunks) under the next id, or the report in flight again; `noteReportID` saves the id before it leaves |
| `Send(s)`, `GiveUp`, `Receive` | `syncOnce`; a time-out; `syncLoop` with the answer: revoked or not, `settleReport` |
| `Stop`, `Crash`, `Start` | `keepTrafficOnStop`; death; `newAgent` with `restoreCarry` |
| `ReadNode(s)`, `Ingest(s)`, `IngestFails(s)`, `Answer(s)` | `handleNodeSync`: the look-up; `IngestNodeSync` with `ApplyNodeReport` in one transaction, or its failure; the hold and the verdict, which is read again |
| `Lose(s)` | the answer, or a request nobody waits for, is gone |
| `SetEnabled` | the operator |

A request the agent gave up stays in its slot and is handled at any later time, beside its own
resend: that is how reordering and duplication come in. `DiskFaults` lets every write, read and
removal of the agent's files fail; the properties that need its memory of ids are then only stated
without.

### PaymentOrders

One user, because nothing but the referrer's reward crosses users. Amounts are whole units and a
term is counted in ticks of `now`. Every plan write holds `applyPlanMu` and every database write is
a transaction, so a handler is one action unless it lets go in between: opening an invoice
(`StartProviderOrder`, then `Created` or `NotCreated`), a refund notification that has read its
order (`RefundedPaid` or `RefundedUnpaid`, then `RefundedCancels`) and the taking back of a term
(`ShortenTerm`, then `EndTerm`).

| state | code |
|---|---|
| `plan`, `exp`, `balance`, `promo` | `users.plan_id`, `expire_at`, `balance_kop`; the discount code attached to the next payment, or used |
| `order` | `payment_orders`: status, kind, plan, what was to be paid (`money`), what the balance pays (`bal`), code, refund, reward |
| `invoice` | the provider's side (external): creating, open, captured, returned, closed |
| `unpaidRead`, `takeBack` | handlers under way |
| `gifts`, `short`, `due`, `told` | observation: the operator's corrections, returned money the balance no longer had, the ticks of the term still to come that were bought, each with the order that bought it and its turn, orders whose refund was notified |
| `setBack`, `unbooked` | observation: orders set back to cancelled after they were paid, and what those have moved the balance by |

| action | code |
|---|---|
| `RequestManual`, `StartProviderOrder`, `Created`, `NotCreated` | `manualOrder`, `startProviderOrder`; they supersede what is still pending |
| `ProviderPaid`, `ConfirmPayment` | `confirmOrderPaid` for a webhook, a poll, the operator; with `markPaidIfOpenOn` it either delivers the plan (`Deliver`) or, when the code is used or another plan runs, credits the balance (`Bank`) |
| `CancelPaymentOrderIfPending` | the operator and the sweep |
| `RefundOrder` | `RefundOrder` to the balance |
| `RefundedPaid`, `RefundedUnpaid`, `RefundedCancels` | `handleProviderWebhook` with a refund: `ProviderRefundOrder`, or the cancellation of an order it read as unpaid |
| `ShortenTerm`, `EndTerm` | `takeBackTerm` |
| `BuyPlanFromBalance`, `RenewFromBalance`, `DowngradeExpired`, `CancelUserPlan`, `AdjustBalance` | the functions of these names or close to them |
| `Pays`, `Closes`, `Returns` | the payment system |

The operator may confirm an order whose invoice is still being created, and `NotCreated` then sets
it back although it was paid. Such an order is in `setBack` from there on: it may be paid once more,
and what it does to the balance is counted apart, so that the properties speak of every other order
in the same runs (section 6, 4).

### MasterMigration

| state | code |
|---|---|
| `sess` | `migration_state.json` of the old master: phase, role, fence, token, candidate |
| `up`, `fenced`, `db` | its process, `Manager.fenced` (the fence requests are checked against), how many changes its database has |
| `switch`, `attempt`, `call`, `rollback`, `verifying`, `retiring` with `asked` | requests under way, and the migration a decommission was checked in |
| `cand` | per server: session, pairing token, data (`NoData` or the `db` of its snapshot), `mode`: absent, down, passive, halfway and leaving (between the saves of a promotion and before it closes its passive server), server |
| `late`, `trouble` | requests given up and still to be handled; a bound |
| `astray`, `undone`, `reverted` | observation: the session is decommissioned by a request checked in another migration; candidates that took a snapshot after their promotion; candidates that took an older snapshot after a newer one |

`ExecuteSwitchover` is `RaiseFence`, `SetSwitching`, `Push`, `Pushed`, `Promote`, `Promoted`,
`StepAside`, `Demoted`, with `handleMigrationSwitch`'s `SyncFence` after it and `SwitchFails`
(`SetError`) where it returns early. A verification holds no lock and is two steps (`Verify`,
`Verified`); a decommission is three, the handler's check of the role, the role and the phase
(`AskDecommission`, `Decommission`, `Complete`), and the mutex is not held between them;
`CancelRollback` is `RollBack`, `RolledBack` and the handler's `Unfence`. The candidate's handlers
are `ApplySnapshot`, `PromoteRole` with `PromotePhase`, and `PromoteAgain` once it is promoted;
`Serve` is its way from the passive server to a full one, `CandidateStarts` (`Boot`) what it makes
of its session after a death. A request that was given up may be handled at any later time while the
passive server is open, also while it closes.

Abstracted: a save reaches the disk; the extraction of a snapshot is one step; the DNS adapters'
failures, which do not stop a switch; the expiry of a pairing token, which nothing checks
(`ValidatePairToken` has no caller).

### XraySupervisor

A configuration is a base and a set of users. A `Broken` base is one Xray does not load; `Custom`
bases differ only in inbounds the API can change. `host` says which of the two programs drives the
supervisor; everything below the callers is the same code.

| state | code |
|---|---|
| `disk`, `bak` | `config.json`, `config.json.bak` |
| `cur`, `dying`, `orphan` | `Supervisor.cur` with what its process runs, `stopProc` waiting for it; a process no field points at |
| `pending`, `loop` | `promoteWhenHealthy` between its check and its write; `superviseRestart` goroutines |
| `op` | who holds `runMu`, for what, and how far it is |
| `appliedCfg`, `fresh`, `recent`, `rolledBack`, `suspended`, `closed` | the fields of these names; `fresh` is `restarts = 0`, `recent` a `lastApply` within the rollback window |
| `due` | the watchdog has decided to restart |
| `want`, `ask`, `applied`, `configErr`, `revoked`, `call` | the callers: what should run, what their loop still has to do, `Manager.applied`, the recorded error, `Agent.revoked`, where the handler is |

| action | code |
|---|---|
| `Load`, `Fails` | Xray itself (external): it loads its file or exits, dies, stops answering |
| `Healthy`, `Promote`, `Age` | `promoteWhenHealthy` in two steps, as it lets go of the lock in between; the rollback window ends |
| `Monitor`, `Decide`, `Roll`, `Top`, `Wake` | `monitor`, then `superviseRestart`: roll back or not, look whether it is still wanted, sleep, look again |
| `Halt`, `Reap`, `StartProc`, `Note` | an operation under `runMu`: `stopProc` in two, `startProc`, what it notes at its end |
| `ApplySame`, `ApplyRefused`, `ApplyLive`, `Apply` | the ways through `Apply` |
| `Restart`, `WatchdogTick`, `WatchdogRestart`, `Stop` | a renewed certificate or the operator; the watchdog; shutdown |
| `Reconcile`, `SyncUsers`, `RemoveUsers`, `AddUsers`, `WriteConfig`, `SyncQuic` | the master's `reconcileLocked` and `syncUsers` with its calls one by one |
| `Push`, `RawUnchanged`, `RawLive`, `RawFailed`, `RawOther`, `BackToFile`, `Suspend`, `Resume` | the agent: a pushed configuration, `ApplyRaw` and its failures, switched off and on |

### NodeStateSync

A state is a structure (settings and the node's own row, a flag each), a row per user and the
blocked addresses. A version of the inputs is a position of `says`, which remembers what each said:
a tag can so be compared with what it names, which the code never does.

| state | code |
|---|---|
| `db` | the panel's database |
| `says`, `cache`, `fresh`, `journal` | versions of the inputs, `nodeInputsCache` and whether it is still good, `inputsJournal` with its floor |
| `memo`, `life`, `registered` | `nodeSplits`, `bootID`, whether the node has a wake channel |
| `loop`, `ask`, `due` | the reconcile loop, what it is asked for, a change whose wake is still to come |
| `held`, `saved`, `waits`, `req` | what the node holds, its `state.json`, the request it waits for; the panel's handlers |

| action | code |
|---|---|
| `ChangeUsers`, `ChangeBlocked`, `ChangeSettings`, `EditNode`, `Announce` | writes, and the wake after an edit |
| `LoopFull`, `LoopUsers`, `LoopSynced`, `LoopAlone`, `FleetChanged`, `Notify` | the reconcile loop: what it does of itself, whether the fleet's inputs changed, the wake |
| `Send`, `TakeChan`, `ReadInputs`, `Unchanged`, `Delta`, `Whole`, `WakeUp`, `HungUp` | `handleNodeSync`: node row and channel, inputs, the three kinds of answer, the hold |
| `NothingToApply`, `ApplySplit`, `ApplyDelta`, `Refuses` | the node's `applySplit`, and its refusals |
| `View`, `AgeCache`, `GivesUp`, `NodeRestart`, `PanelRestart` | a page that reads the same cache, its TTL, time-outs, restarts |

### Broadcasts

| state | code |
|---|---|
| `status`, `later`, `target`, `media`, `file` | the `broadcasts` and `broadcast_targets` rows, the attachment and its `file_id` |
| `listens` | opted in and not marked blocked |
| `start`, `creator`, `hook` | what is under way to start a broadcast; what the creator of a scheduled one is still doing; `broadcastHooks` |
| `worker`, `poisoned`, `rejects` | `BroadcastService`: where its step is, its quarantine, `textRejects` |
| `request` | operators' requests that have read the status and not yet written it |
| `copies`, `announced`, `lost`, `barred`, `left`, `spoilt` | observation only |

| action | code |
|---|---|
| `Create`, `Claim`, `List`, `NoAudience`, `ListFails`, `SaveMedia`, `SaveLater`, `Start`, `StartFails`, `CloseEmpty`, `Abandon`, `CancelStart` | `createBroadcast` (the row, then the attachment) and the schedule's tick, each write a step, with what a failing one leads to |
| `Ask`, `Write`, `Retry`, `OptOut` | the operator's requests in two steps, `RetryFailedBroadcast`, a person who opts out or in again |
| `Pick`, `Look`, `Prime`, `PrimeFails`, `PrimeUnanswered`, `RecordPrime`, `Cache`, `Send`, `SendUnanswered`, `Mark`, `Pause`, `Finish`, `Close` | the worker's step: the oldest run, its attachment, a batch, the outcomes, the end of the run |
| `QuarantineEnds`, `Sweep`, `Restart` | the quarantine of a run that lost track; `sweepMedia`; the panel dies and starts |

A scheduled broadcast is visible at once and its attachment is saved beside it: it may be claimed,
started and sent before it has its file. A person is `lost` to a run when a message has arrived and
is not recorded as sent, and `barred` while something keeps the run from sending it again; the one
message that is `lost` and never `barred` is an attachment whose upload arrived without an answer
(`PrimeUnanswered`). `spoilt` runs are those to which an operator's request was written during their
start, or whose closing out failed: section 6 says what happens to them.

### WebhookOutbox

A tick is `webhookTimeout`, the longest an endpoint may take; nothing that takes no time is put off
for one (`Prompt`). So a lease can run out only where the code makes it wait: for a worker, in a
channel, or before it.

| state | code |
|---|---|
| `subscriber`, `outbox`, `stage` | whom a delivery is for, its row with attempts and time, how far it has come |
| `on`, `dropping` | enabled endpoints and plugins; removed ones whose deliveries are still there |
| `hand`, `seen`, `queue`, `work`, `busy` | what a dispatcher has leased, the endpoints it then read, the two channels, the workers, `pluginBusy` |
| `accepted`, `tries`, `refused` | observation only |

| action | code |
|---|---|
| `Emit`, `Store` | `EmitWebhook`: who takes the event, then the rows |
| `Switch`, `Remove`, `Drop` | a subscriber switched, removed, and its deliveries with it |
| `LeaseHooks`, `LeasePlugins`, `Discard`, `Queue` | the dispatchers: lease, skip what has no subscriber, put into the channel |
| `Take`, `Attempt`, `Settle` | a worker: the claim on a plugin, the call, delete or back off |
| `Tick`, `Restart` | time; the panel dies and starts |

### MultiHopRollout

| state | code |
|---|---|
| `row`, `revisions` | the inbound: on, its live path, its pending deployment (`ready`, `entry`, `initial`); names given out |
| `place`, `serves` | a server's address and certificate as a version; whether it can be a hop |
| `look` | what a pass of the loop has read |
| `noted`, `held`, `phase`, `told`, `late` | `multiHopApplied`; what a server runs, where its request is, the answer under way, a report still to be handled |
| `switched`, `trouble` | a server has been taken out or back; a bound |

`Create`, `KeepLive`, `Deploy`, `Disable` and `Delete` are the operator's; a deployment may ask for
another chain, protection or, on a protected route, the same chain with other ports. `Move` and
`Switch` change a server. A pass of `advanceMultiHop` is `Look`, then one of `PlaceNext`,
`SwitchEntry`, `Promote`, `Wait`, because it reads before it takes the row's lock. A server is
`Report`, `Answer`, `Apply`; the master's own Xray takes `Reconcile` instead. `GiveUp`,
`ReportLate`, `Forget` and `PanelRestarts` are what goes wrong. `Serving` is the first rule of an
inbound, which is the one Xray follows.

## 3. The runs

| run | configuration | what it shows | bounds |
|---|---|---|---|
| `traffic` | `NodeTraffic.cfg` | `ExactlyOnce`, `ImplementsLedger` with lost, late and overtaken requests, restarts, crashes and a failing disk | one unit each of two users, one user to a report (so a second report waits behind the first), two requests open at once |
| `traffic_lossless` | `NodeTrafficLossless.cfg` | with a working disk: an ack means settled (`AckMeansSettled`), nothing slips (`Accounted`), and what is carried is settled once the trouble ends (`EventuallySettled`) | a unit of a user and one of the lane, two requests |
| `payments` | `PaymentOrders.cfg` | `BalanceIsOrders`, `DiscountOnce`, `RewardOnce`, `NoTimeForFree`, `ImplementsOrderBook` | two orders, two plans at 2, discount 1, a top-up of 2, three ticks, term of 1, grace of 1 |
| `payments_live` | `PaymentOrdersLive.cfg` | without a wallet: captured money ends up as a paid order (`CapturedIsDelivered`) | as above without gifts and top-ups |
| `payments_late_claim` | `PaymentOrdersLateClaim.cfg` | fails: `ReturnedIsSettled` | one plan, two ticks |
| `migration` | `MasterMigration.cfg` | `NeverHeadless`, `NoEmptyMaster`, `HandsOverAll`, `StandbyIsServed` | two migrations to either of two servers, the first to c1 (`FirstToOne`), a change, one failure or death; requests given up stay around |
| `supervisor` | `XraySupervisor.cfg` | `OneProcess`, `SwitchedOff`, `NodeRunsDisk`, `ComesBack`, `Recovers`, on both hosts | three bases of which one is broken, a user, one restart loop, two changes, one thing that fails by itself |
| `supervisor_drift` | `XraySupervisorDrift.cfg` | fails: `NeverDrifts` | the master, one base, one user, three changes, nothing fails |
| `node_state` | `NodeStateSync.cfg` | `TagSaysContent`, `NoLostWakeup`, `Converges` | a user, a request, a journal of one entry, two changes, one thing that goes wrong |
| `broadcasts` | `Broadcasts.cfg` | `RecordsWhatItSends`, `DoneIsDone`, `SkipsOnlyWhoLeft`, `NoSilentRepeat`, `Settles` | a broadcast, two people in batches of one, an operator with one request, one rejected text, two failures; `FirstToLeave`, `OneChannel` |
| `outbox` | `WebhookOutbox.cfg` | `OneSender`, `OneAtATime`, `RepeatsForCause`, `GoneForCause`, `ImplementsPromise`, `Delivered` | two deliveries, an endpoint and a plugin with a worker each, channels of one, a lease of three ticks, two attempts, two failures |
| `rollout` | `MultiHopRollout.cfg` | `PathIsWhole`, `PublishesWhatServes`, `Completes` | a plain chain a-b-a, two protected ones of the same entry a-b-c-a and a-c-b-a, an inherited one b-a, three servers of which one is the master, two events |

Every passing run checks the module's type invariant or has it proved (section 5).

Why these bounds are enough to be worth running.

- Traffic: a hazard needs a report, its resend and a next report; with two units and one user to a
  report both reports exist, and with two slots the first can overtake or be overtaken.
- Orders: every hazard relates one order to a second (superseding, the code, the reward, a second
  period); three ticks let a term run out, be renewed within its grace and be refunded after that.
  The price differs from the discounted one and can be split between balance and money.
- Migration: two sessions and two servers let a later migration inherit from an earlier one, and a
  request of the first reach the second; one failure leaves a request behind, or kills a process
  between two saves. A switch that is given up may be tried again and then succeeds or is refused.
  The servers are alike, so nothing is lost by the first migration going to c1.
- Supervisor: three bases are a running one, a good one before it and a broken one, what a rollback
  needs; two changes let a second overtake the first, one crash starts the restart loop under them.
  There is one loop at a time: a process that dies while an older loop still sleeps is noticed once
  that one has ended. The theorems are about any number of them.
- Node state: two changes leave a journal of one entry behind the node, so that whole states,
  changes and bare names all occur, also across a restart of either side.
- Broadcasts: two people and batches of one give a run with a batch done and another to come; two
  failures let a restart follow a write that failed. The people are alike, so p1 may be the first to
  leave. `OneChannel` leaves out broadcasts that go to both the bot and the external system: `hook`
  is read by nothing but what that system is told, which the theorem `AnnouncedAtMostOnce` is about.
  Two broadcasts are out of TLC's reach; the theorems are about any number.
- Outbox: two deliveries and a channel of one make a dispatcher wait with a leased batch. A lease of
  three ticks is tight: with two TLC finds `OneSender` violated. The code's ten minutes are far on
  the safe side of what its workers and channels can make a delivery wait.
- Rollout: the chains are the shortest with a relay, with a server in two places and with two
  servers exchanged, and one protected route can follow another on its entry; a released panel's
  chains have three servers (`docs/MULTIHOP.md:17`). Two events are a change of the chain while
  another is deployed, or a change and a server that moves.

Report ids and the clock end where the units and `MaxNow` do; `trouble`, `changes`, `asks`,
`switches`, sessions and writes are capped by the constants of those names. Every module but
`NodeTraffic` and `PaymentOrders` may come to rest (everything is applied, sent or decommissioned
and all trouble is spent), so their runs do not look for deadlock.

`Symmetry` exchanges the two users (with their units) and the requests, or the orders and the plans.
It is not used in the runs of liveness properties.

Each property is known to be one the code can break: for each there is a variant of one definition,
beside it in its module (`BuildAgainEmptyOnly`, `ClaimsAtWatermark`, `SupersededBlind`,
`RawFailedForgets`, ...), that a plausible slip would produce and under which the run finds the
property violated. `PROJECT.json` pairs them. No specification uses them.

## 4. Fairness

- `NodeTraffic` (`FairSpec`): `syncLoop` never ends, systemd starts the agent again, handlers end
  with an answer or with their connection gone, hence weak fairness of each step. Strong fairness of
  `BuildFresh`: it is enabled whenever the loop comes round with traffic pending, in between it is
  repeating a report. `EventuallySettled` asks only that the trouble (failing requests, deaths,
  switching) ends and the node is on; nothing forbids trouble before.
- `PaymentOrders`: a provider repeats a notification until it is answered and the poll asks as well,
  hence `ProviderPaid`; a handler under way ends, hence `ShortenTerm` and `EndTerm`. Nothing is
  assumed of users, of the operator or of invoices that are being created.
- `MasterMigration`: the unit file has `Restart=always`, hence `CandidateStarts`; a promoted
  candidate leaves its passive server by itself, hence `Serve`. Nothing is assumed of the operator,
  nor that a request is answered.
- `XraySupervisor`: goroutines, handlers and operations that have begun go on, Xray's start ends,
  the watchdog ticks, the rollback window passes. Nobody has to ask for a restart or a change.
- `NodeStateSync`: the agent asks again, handlers and the reconcile loop go on, holds end, the cache
  ages. Changes, pages that are viewed, time-outs and restarts are left to chance.
- `Broadcasts`: the schedule ticks, a start goes on, the worker polls, quarantines end. A request of
  an operator may never be written, and the operator may never press a button: `Settles` allows a
  run to wait, paused, for ever.
- `WebhookOutbox`: both dispatchers poll, workers go on, time passes.
- `MultiHopRollout`: the rollout loop ticks (weak fairness of a pass), every server asks, applies
  and asks again. Of the steps of a pass, and of those of a server, one is enabled at a time, so
  that weak fairness of their disjunction is enough.

## 5. Proofs

Checked by TLAPS for all values of the constants that satisfy the modules' assumptions, which TLC
evaluates in the runs: any number of users, units, requests, orders, servers, sessions, loops,
people, deliveries, and any number of failures; any prices, periods, batches, leases and backoffs.

| module | theorem | says |
|---|---|---|
| `NodeTrafficProofs` | `TypeCorrect`, `BookedOnce`, `WatermarkOnlyAdvances`, `LedgerImplemented`, `AcksAreTrue`; for `~DiskFaults`: `NothingSlips`, `IdsAreUnique` | `TypeOK`, `ExactlyOnce`, `WatermarkMonotone`, `ImplementsLedger`, `AckMeansSettled`; `Accounted`, `OneReportPerId` with `WatermarkBehind` |
| `PaymentOrdersProofs` | `TypeCorrect`, `DiscountOnceHolds`, `PaidOrdersStayPaid`, `RewardGivenOnce`, `OrdersImplementBook`, `NoFreeTime`, and `BalanceAddsUp` for finitely many orders | `TypeOK`, `DiscountOnce`; `PaidStaysPaid`, `RewardOnce`, `ImplementsOrderBook`, `NoTimeForFree`, `BalanceIsOrders` |
| `MasterMigrationProofs` | `TypeCorrect`, `NeverWithoutMaster`, `EverythingIsHandedOver`, `NoMasterWithoutData`, `NoStandbyWithoutHeir`, `PromotionIsForGoodOnceServed` | `TypeOK`, `NeverHeadless`, `HandsOverAll`, `NoEmptyMaster`, `HeirHasData`, `OnlyLateSnapshotUndoes` |
| `XraySupervisorProofs` | `TypeCorrect`, `NeverTwo`, `OffMeansOff`, `FileIsWhatRuns` | `TypeOK`, `OneProcess`, `SwitchedOff`, `NodeRunsDisk` |
| `NodeStateSyncProofs` | `TypeCorrect`, `TagsSayContent`, `NoWakeupIsLost` | `TypeOK`, `TagSaysContent`, `NoLostWakeup` |
| `BroadcastsProofs` | `TypeCorrect`, `SentIsRecorded`, `RepeatsHaveACause`, `FinishedIsOver`, `SkippedHaveLeft`, `AnnouncedAtMostOnce` | `TypeOK`, `RecordsWhatItSends`, `NoSilentRepeat`, `DoneIsDone`, `SkipsOnlyWhoLeft`, `AnnouncedOnce` |
| `WebhookOutboxProofs` | `TypeCorrect`, `PluginsOneAtATime`, `NothingForgotten`; for `LeaseOutlasts`: `NothingSentBeside`, `NothingRepeatedWithoutCause`, `OutboxKeepsPromise` | `TypeOK`, `OneAtATime`, `GoneForCause`; `OneSender`, `RepeatsForCause`, `ImplementsPromise` |
| `MultiHopRolloutProofs` | `TypeCorrect`, `ChainsStayApart`, `PathAlwaysWhole`, `PublishedServesAlready` | `TypeOK`, `OneChain`, `PathIsWhole`, `PublishesWhatServes` |

Some properties are proved and not in a run: `WatermarkMonotone`, `WatermarkBehind`,
`OneReportPerId`, `PaidStaysPaid`, `HeirHasData`, `OnlyLateSnapshotUndoes`, `OneChain`,
`AnnouncedOnce`, and five type invariants.

**NodeTraffic.** `ExactlyOnce` is not inductive: it says nothing of the copies of a unit that are
still travelling. `IInv` adds that what is held was used (`HeldIsUsed`); that a unit waits in one
place, or travels under one id (`WaitsOnce`, `OneId`); that once it is booked or refused, every
report that still holds it has an id the watermark has reached (`DoneIsPassed`); and that it is
booked or refused once (`DoneOnce`). `Claims` compares the id with the watermark in the same
transaction, so a report behind it books nothing and one ahead of it holds only units not yet done.
The disk plays no part in this: a failing one loses traffic, and may reuse ids, but a reused id
carries new units, which are dropped rather than counted twice. So these theorems hold for
`DiskFaults` too. The refinement follows: a step that books settles outstanding units, a sample uses
one, every other step leaves the ledger's variables alone. The second invariant, `Whole`, is for a
working disk: ids on disk are ahead of every id sent (`Ids`), an id means one batch wherever it is
(`SameReport`), what the watermark has passed is settled (`PassedIsSettled`) and so is what an ack
names (`AcksMean`); `Accounted` is inductive with them.

**PaymentOrders.** `DiscountOnce` needs only `CodeIsSpent`: a paid order with the code means the
code is used, and `Deliver` looks at it in its transaction. The others rest on what an invoice says
of its order (`InvoicesFit`), on an unpaid order that was not set back having neither refund nor
reward (`UnpaidIsPlain`), and on a reward belonging to money brought (`RewardIsForMoney`) and to one
order (`RewardOnce`). `StepMoves` classifies all steps into six kinds (quiet, opening, settling,
lapsing, buying, refunding), each a step or a stutter of `OrderBook`. Lapsing is an order that is
set back; in the book such an order is `lapsed`, `again` once it is paid for the second time and
`regained` once that is refunded to the balance, and every other order goes on as if nothing had
happened.

`NoFreeTime` needs to know who paid for which tick. `due` holds a record for every paid tick from
now on: the order that bought it and its turn. `TermInv` says that every turn is another one
(`TurnsDiffer`), that who bought is an order that was paid, for the plan the user has (`DueIsPaid`),
and owns at most a period unless it was set back (`OnePeriodEach`), that a term is taken back for
refunded orders only, and `Covered`: the rest of the term is at most the ticks bought, and a period
for each refund that has its term still to take back. A refund takes its order's ticks away, at most
a period of them, before the term is shortened by a period. `StepMovesTerm` classifies the handlers
by what they do to the term.

`BalanceAddsUp` is about a sum over all orders. Induction over an operator is out of the prover's
reach, so `SumExists` and `SumChanges` go by `FiniteInduction` over the *set of subsets* of the
orders for which the claim holds: the fold of `BalanceIsOrders` has a value, and a step that changes
what one order is worth changes it by that much. `WorthMoves` is then the only thing to show of each
handler.

**MasterMigration.** Types need `Chosen`: whoever switches, or has something to verify, has a
candidate; a rollback forgets the token but not the candidate, and this is why it must not. `Strong`
adds what a candidate's mode says of its role (`ModesMean`), what a request and its answer say of
the candidate (`CallMeans`), what the position of the switch says of both (`SwitchMeans`), and what
a decommission that was checked in this migration may rely on (`RetiringMeans`). From `promoted` on
the candidate has its promotion, or took a snapshot after it and is `undone`; from `pushed` on it
has the data of the attempt, or took an older snapshot after a newer one and is `reverted`.
`NeverHeadless` is inductive together with these: the phase `candidate_ready`, which a switch needs,
and a verification that comes late both leave the role alone, and `StartMigration` makes the old
master a master again before it chooses another candidate. Nothing is assumed about when requests
arrive, nor about who rolls back between the check of a decommission and its write; the three
exceptions (`undone`, `reverted`, `astray`) are what the code lets past, and TLC finds each
property violated when its exception is taken out (section 6). Their extent is proved too.
`PromotionIsForGoodOnceServed`: nothing but a snapshot takes a promotion back, and it can only until
the passive server has shut down; it needs that a passive candidate is not a master
(`PassiveIsCandidate`). `NoMasterWithoutData`: what travels to promote a candidate was sent after
its data had arrived, and nothing takes data away (`Backed`). `NoStandbyWithoutHeir`: also a
candidate that is `undone` has data (`UndoneHave`), so whoever steps aside leaves them with
somebody, but where a decommission is `astray`.

**XraySupervisor.** The argument follows `runMu`. `Phases`: whoever holds it has taken the process
down before it starts another, and nobody else starts one. `Off`: while suspended or closed there is
a process only under an operation that is about to stop it; every path that starts one looks at the
two latches under the lock. `AsFile`: on a node the process runs the file, except between a live
change that failed and the restart that follows it. The restart loops need only `Backed`, that a
loop about to roll back has a backup.

**NodeStateSync.** `Journaled`: a user that no journal entry after a version names has the same row
in that version and in all later ones. `Names`: a tag of this panel process names a version that
exists, and says what its holder has; stated alike of the node, its file, a request and an answer
(`HandlerIs`). A change is worked out from the tag in the request and is taken by a node that still
holds that tag, so it makes a right content out of a right one; a bare name is sent only for content
that is the same. `Awake` follows a request from its channel, which it takes before it reads the
settings, to its hold: whoever changes the settings still owes a wake, or every handler knows what
they are.

**Broadcasts.** `Picture` ties the worker's batch to the rows: whoever has no outcome stored is
pending (`OwedIsPending`, `Fresh`), what it has delivered counts as a copy (`GotIsSent`), and a
message that is barred is out of the worker's reach until something lets its run go on
(`OutOfReach`). `Lifecycle` says where a run can be while it is being started, or once it has ended,
for all runs that are not `spoilt`; a restart or a failure during the start spoils none.

**WebhookOutbox.** `Alone`: a plugin with a delivery in the dispatcher's hand, in the channel or
with a worker has no other, and is busy; the claim is taken with the lease and let go with the
settlement. It needs no lease at all. `Causes` ties the attempt a delivery is at, wherever it is, to
the times it was tried, and what a dispatcher or a worker has found out to what has happened.

`OneSender` is about time. `LaneInv` gives a delivery to an endpoint one place (`Single`) and a
turn, the number the workers take until they have taken it (`Turn`): its place in the channel, or
all that is in the channel and in the dispatcher's hand. `Lasts`: with `W` workers, turn and `2W`
are at most `W` times the ticks its lease has left, and one for each worker that is free by the next
tick. A tick passes only when every worker has just been busy or has nothing to take, so it takes
`W` from one side and gives `W` to the other; a worker that takes the next takes one from both. What
is in a worker's hands has two ticks for one attempt. So a row leased is not due while it is in
flight, and nothing leases it again. Its premise is `LeaseOutlasts`: channel, batch and two attempts
by every worker fit in the lease. With the code's four workers, channel of four, batch of 16 and a
lease of 60 timeouts that is 28 of 240. It cannot be weaker: with one worker, channel and batch of
one and three deliveries TLC finds both properties to hold with a lease of four ticks, which is this
bound, and `OneSender` violated with three. The run's own lease of three is below the bound, and
enough for its two deliveries only; with a lease of five, which is the bound there, TLC finds the
same. The invariant counts what is in a batch, so it needs that finitely many events have been
emitted so far, which is one too (`EmittedKept`).

`RepeatsForCause` then follows from `Spare`: a delivery that may still be sent and was not just
taken was taken no more often than something went wrong. A worker that was told so by the subscriber
either deletes the row, and nothing else of that delivery is in flight (`OnePlace`), or fails to,
which is one more that went wrong (`TookSettles`).

`OutboxKeepsPromise` is the refinement. `EventDelivery` has no lease, channel or worker: a delivery
is owed, taken, and over; it is over only when it was taken, asked for often enough or excused, and
what is taken is owed again only by a mishap. In the outbox one is owed while it has a row, taken
while a worker knows so and has not settled it, and stray while it is in flight without a row,
because its plugin was stopped meanwhile (`FateOf`). There is a lemma for each action that says
which step of `EventDelivery` it is: `Attempt` takes, refuses or takes unheard, `Discard` and
`Settle` close, `Drop` withdraws, a switch excuses, whatever fails is a mishap, and leasing,
queueing, taking and time change nothing (`QuietPromise`). It rests on the two invariants before it:
a step of one worker leaves no second copy of the delivery in flight (`OnePlace`), or the delivery
it closes would be stray and not over, and what a worker does for its last attempt was tried often
enough (`Causes`). It says more than `GoneForCause` and `RepeatsForCause` do, which look at one
state: each repeat comes after its own mishap.

**MultiHopRollout.** A revision names one path wherever it occurs (`OnePathPerRevision`), and
everything a server holds is a part of a path somebody asked for (`Shape`). While no server has been
taken out of service, `Rollout` holds too: nobody knows a hop that was not placed (`OnlyPlaced`), a
server that has a part of the deployment under way keeps it (`NothingIsTakenBack`, also for answers
and reports on their way), the entry is placed last and leads once it runs the new rule
(`EntryIsLast`, `SwitchedLeads`), and what is published is there and leads (`LiveIsThere`,
`EntryLeads`). Nothing is assumed of the routes asked for: a protected link is added behind the
published one of the same entry (`Ahead`), and stays in front of the one that follows it until the
entry drops it (`Overtaken`). The two properties except exactly that link (`Outgoing`, `Takes`;
section 6).

**Only model-checked.** The liveness properties (`EventuallySettled`, `CapturedIsDelivered`,
`StandbyIsServed`, `ComesBack`, `Recovers`, `Converges`, `Settles`, `Delivered`, `Completes`):
fairness and ENABLED are out of the prover's reach. Every safety property of a passing run is
proved. No module with theorems uses a RECURSIVE operator.

## 6. Where the code and its own words differ

The first two are runs that TLC ends with a counterexample.

1. `payments_late_claim` - `core/manager_payments.go:831` answers a refund for an order that is not
   paid yet by cancelling it; a late paid notification claims the cancelled order, and nothing
   remembers the refund. Lines 919-922 promise otherwise.
2. `supervisor_drift` - `xray/supervisor.go:646` takes a configuration for the running one when it
   equals `appliedCfg`, which live changes leave alone. A user is added live and then disabled while
   a full reconcile is pending: that reconcile generates the configuration of before, `Apply` does
   nothing and reports success, and the user stays in the running Xray until its next restart.
   `core/manager.go:987`: "so Xray never drifts from the DB".

For the next ones the module has the definition that fails, and no run.

3. `AckAlwaysMeansSettled` - `core/manager_nodes_sync.go:92` answers a switched-off node with the id
   of its report as the ack, although nothing of it is booked; `server/node_api.go:210` may send
   this ack, after a hold during which the node was switched on, as one that is not revoked. The
   agent then clears a batch that was never booked. `nodeagent/state.go:216`: the ack "clears the
   in-flight batch once the panel confirms it ingested it"; `nodeapi/types.go:435`: the "highest
   ReportID the panel has ingested". `AckMeansSettled` holds for every other answer.
4. `PaidStaysPaid` without its exception - `core/manager_payments.go:476` writes "cancelled" without
   looking when the provider refuses the invoice; an order the operator confirmed during that call
   is set back to cancelled, out of the revenue, open to be claimed again. `store/wallet.go:263`: "A
   paid order stays paid"; `core/manager_billing.go:1317` describes this very mistake. The runs
   contain it: `setBack` names the order, and the properties say what still holds of it and of all
   the others.
5. `FencedTakesNoWrites` - `server/panel_migration.go:153` raises the session's fence, but requests
   are checked against the manager's (`server/server.go:341`), raised after the switch.
   `migration/migration.go:140`: "Stop ALL mutations on the old master". Changes accepted after the
   snapshot stay behind; `HandsOverAll` is about what was there when the fence was raised.
6. `SingleActiveMaster` - `migration/migration.go:171`: a promotion that was handled and not
   answered lowers the old master's fence. `migration/state.go:88`: "single active master".
7. `NoLostEdit` - `server/node_api.go:101` reads the node's row before line 123 takes its wake
   channel; an edit and its wake in between are seen only with the next request, up to one hold
   later. Lines 120-122 say the channel is taken before the comparison so that no wake is lost,
   which is true of everything but this row.

Observed while modelling, without a run or a definition.

Traffic and nodes:

- `nodeagent/carry.go:84`: the removal of `carry.json` is not synced; after a power cut a restored
  report may be there again. A process that dies leaves the file removed, which is what the model
  has.
- `nodeagent/quota.go:117`: the quota watch reads the counters without the sampler's lock; a sample
  in between makes its own older reading look like an Xray that restarted. Line 184: an Xray that
  restarts and whose counter passes the old value before the next sample has only the difference
  booked.
- `core/manager_nodes_cmds.go:78`: a command is marked sent before its answer leaves, and the next
  request clears it; a lost answer loses the command. `core/manager_node_served.go:140` looks
  whether the record changed and writes after letting go of its lock.
- `core/manager_nodes_state.go:440`: a read of the blocked addresses that fails softly gives a state
  without them; it carries no tag, so no change is built on it.

Orders:

- `core/manager_wallet_extra.go:79` takes the whole period off the term even when that period is
  over, so another order's time goes. Line 66: "Whatever else paid for the term - other orders,
  bonus days - stays paid for".
- `core/manager_wallet_extra.go:85`: the plan lock is released between shortening a term and ending
  it; a purchase in between is ended with the old term.
- `core/manager_payments.go:466`: a process that dies while the invoice is created leaves an order
  pending that the sweep, which looks at orders with a provider, never sees; at line 487 a payment
  whose id could not be stored can still be paid, and no order knows of it; a cancelled order that
  was purged (`store/billing.go:171`) is not found by a late payment.
- `core/manager_payments.go:924`: a death between `ProviderRefundOrder` and taking the term back is
  never made up for, since the repeated notification is turned away.

Migration:

- `migration/standby.go:107`: nothing looks at the role of a decommissioned server when it starts,
  so it serves as a master again.
- `migration/state.go:279`: after a restart in the middle of a switch, a retry that fails lowers the
  session's fence only; the panel keeps refusing changes.
- `migration/migration.go:119`: a verification that overlaps a switch sets a standby's phase back to
  `candidate_ready`.
- `cmd/rospanel/candidate.go:240`: a push applied after the promotion sets the phase back to
  `candidate_ready`, and the next start makes the new master passive, while the old one is aside:
  the exception `undone` of `NeverHeadless`. An older push that is applied after a newer one
  replaces its data, and the switch goes on with them: the exception `reverted` of `HandsOverAll`.
- `server/panel_migration.go:170` checks the role and `migration/standby.go:104` sets it, with no
  lock in between and no second look: after a rollback and a new migration meanwhile,
  "decommissioned" is written to a session whose candidate is not promoted, so nobody is the master.
  The exception `astray`.
- `migration/state.go:131`: most callers ignore a save that fails; `migration/snapshot.go:213`: a
  snapshot is extracted in place.

Supervisor (`xray/supervisor.go`):

- `shouldRollback` asks for a first crash soon after an apply before it looks at `rolledBack`, so a
  configuration that is applied again is rolled back again; an apply that does nothing refreshes
  `lastApply`.
- `Apply` makes whatever is on disk the backup, also a file that a live change wrote and no Xray has
  loaded.
- A start that fails inside `Apply` or `Restart` is tried again by nobody but the next call or the
  watchdog.
- After a rollback on a node the panel is told what was applied, not what runs.

Broadcasts:

- `telegram/broadcast.go:20`: "a restart mid-run resumes instead of losing or repeating anything";
  the batch whose outcomes were not yet stored (line 363) goes out again. `NoSilentRepeat` counts a
  restart among the causes.
- `telegram/broadcast.go:289`: an upload that arrived and whose answer was lost (`client.go:672`)
  leaves its recipient pending, and the next pass uploads it again, to the same person, with no
  restart, quarantine or operator. A text in the same place is written down as failed.
  `NoSilentRepeat` has this one exception.
- `server/panel_broadcast.go:124`: the attachment "must exist before the run is visible as running".
  A scheduled row is visible at once and its attachment is saved afterwards; a crash or a slow save
  in between leaves a run that starts without its file, which the worker then pauses. When the save
  fails, `AbandonBroadcast` ignores the error of its own write.
- `telegram/broadcast.go:296`: an upload that reached its first recipient and could not be recorded
  only pauses the run, without the quarantine the same failure has after a batch.
- `core/manager_broadcast.go:521`: an operator's request reads the status and writes it
  unconditionally; of two overlapping ones a resume can revive a run the other has cancelled.
- `store/broadcasts.go:230`: a run resumed by hand while its recipients are being listed, or whose
  `SkipRemainingTargets` fails, ends as done with people still pending, which no request moves.
- A panel that dies between the claim of a scheduled run and its start leaves it paused, as does a
  list of recipients that cannot be stored.

Outbox:

- `store/webhook_outbox.go:153`: a plugin that was switched off "gets nothing it missed meanwhile";
  a delivery looked up before and stored after the drop does reach it when it is switched on again.
- `core/manager_webhooks.go:30`: the 40 s the comment works out are without what waits in the
  channel and without the workers being busy; with them it is up to about 60 s, far inside the lease
  of ten minutes.
- An event whose rows could not be stored, or whose panel dies before it stores them, is lost.

Multi-hop routes:

- `core/manager_cascade.go:258` generates the live rules of an entry before the staged ones (line
  270), `xray/multihop_reverse.go` adds the rule of a protected route behind those that are there,
  and Xray follows the first. An entry that goes from one protected chain to another reports that it
  runs the new rule and keeps serving the old chain, until the promotion takes the old hops away;
  `core/manager_multihop_rollout.go:140` and step 4 of `docs/MULTIHOP.md` have it switch before. A
  new chain is then published before it serves anyone, and the old one may lose a relay while it
  still does. The run and the theorems contain this; the properties except that one path, for as
  long as it is in front (`Outgoing`, `Takes`).
- What a server reports comes from its saved state: after a rollback of its supervisor it still
  acknowledges hops it does not run. A server that is taken out of service and back before its next
  report is believed for what it had before. This is why the properties say `~switched`.
- Once a chain is deployed, an enabled route cannot be changed while one of its servers is gone,
  only disabled or deleted. The older editor of inbounds (`core/manager_inbounds.go:428`) publishes
  a route's new name at once.

## 7. What is not modelled

The parts listed in section 1 below the first table; `PROJECT.json` gives the reason for each. Most
of the repository is of that kind: rendering, parsing, CRUD in one transaction, calls of the host
and of other people's servers. What the modelled parts leave out:

- `NodeTraffic`: a counter's arithmetic is one sample of units.
- `PaymentOrders`: add-on orders (devices, traffic, change of plan) and recurring subscriptions,
  which take the same path with another delivery; several periods, bonus days, lifetime plans, wrong
  amounts; deaths of the panel between two steps, as every step is a transaction, but for the ones
  in section 6.
- `MasterMigration`: the contents of snapshots, the DNS adapters. The passive server waits three
  seconds for its handlers when it shuts down; one that takes longer still would go on beside the
  new master, and here its request is lost.
- `XraySupervisor`: the statistics API and the log tap, a user whose credential changes, the cap on
  live changes, the watchdog's cooldown and its switch, a missing binary.
- `NodeStateSync`: which users a node serves, WireGuard claims, configurations that cannot be split,
  agents of another revision of the protocol, one-shot commands. One user, of which a row may be
  out, in or capped, stands for any: rows do not depend on each other.
- `Broadcasts`: the trimming of old runs, the bot switched off, which people a filter picks.
  Failures during a start are those of listing, writing the recipients, saving, and of the status
  written or read again (`ListFails`, `SaveMedia`, `SaveLater`, `StartFails`); a claim that fails is
  tried again by the next tick and is left out.
- `WebhookOutbox`: signatures and addresses, test deliveries, which events an endpoint takes, what a
  plugin does with one, the order in which due deliveries are leased.
- `MultiHopRollout`: several routes on one server, the older editor, ports, group grants, host
  firewalls, the sources a hop lets in. Nodes and routes are two reads in the code and one here, and
  neither fails (`core/manager_cascade.go:230` generates a configuration without routes when one
  does). `Usable` asks for the hops behind the entry to be in service, and not for the entry itself.

## 8. Plan

In this order, the most important behaviour that is left first.

1. `TrafficSampler`: counter deltas and the quota watch, refining `NodeTraffic`'s `Sample`. To
   prove: no unit of a counter is in two samples.
2. One-shot commands and served users beside `NodeStateSync`, on the same request; the composition
   with `NodeTraffic`'s report, whose order in the handler (report, then state) both rely on.
3. Several multi-hop routes on one server: ports and rules that two deployments share, and an
   abstract specification, a route that always has one whole path, for the single one to refine.
4. Add-on orders beside `PaymentOrders`, refining `OrderBook` with another delivery.
5. Registration requests: two operators, invitations and the web's own atomic path.

Proofs to follow: what is proved of the modules above, each with the abstract specification it
refines.
