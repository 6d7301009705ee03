------------------------------ MODULE Broadcasts ------------------------------
(***************************************************************************)
(* Mass messages through the Telegram bot.  A broadcast is a row with a    *)
(* status and one row per recipient; a worker takes the oldest running one, *)
(* sends to a batch of those still pending and only then writes down what  *)
(* came of it.  The operator pauses, resumes, cancels and retries; a       *)
(* creator or a schedule lists the recipients and starts it; the panel may *)
(* die, and its database may refuse a write, at any of these steps.        *)
(***************************************************************************)
EXTENDS Naturals, FiniteSets

CONSTANTS
    Runs,           \* ids of broadcasts: the oldest is served first
    People,
    Operators,      \* bound: requests of operators at a time
    BatchSize,      \* broadcastBatch
    MaxRejects,     \* maxTextRejections
    MaxAsks,        \* bound: requests of operators in all
    MaxTrouble,     \* bound: restarts and failures
    None

ASSUME RunsAssumption == Runs \subseteq Nat /\ None \notin Runs
ASSUME BoundsAssumption == /\ BatchSize \in Nat \ {0} /\ MaxRejects \in Nat \ {0}
                           /\ MaxAsks \in Nat /\ MaxTrouble \in Nat

VARIABLES
    status,         \* the broadcast's row
    later,          \* it waits for a time of its own
    target,         \* the recipients' rows
    media,          \* nothing attached, a file, or the file_id Telegram gave for it
    file,           \* the attachment is on disk
    listens,        \* a person takes messages: neither opted out nor marked blocked
    start,          \* what is under way to start a broadcast
    creator,        \* what the creator of a scheduled one is still doing
    hook,           \* broadcastHooks: the external system is to hear of it
    worker,         \* BroadcastService.step
    poisoned,       \* its quarantine
    rejects,        \* textRejects
    request,        \* requests of operators that have read the status
    copies,         \* history: messages a person got
    announced,      \* history: broadcast.sent events
    lost,           \* history: who got a message that was not recorded as sent
    barred,         \* history: those of them nothing allows to send it to again
    left,           \* history: people who did not listen at some time
    spoilt,         \* history: runs a request wrote to during their start, or not closed out
    asks, trouble

rows == <<status, later, target, media, file>>
starting == <<start, creator, hook, announced>>
sending == <<worker, poisoned, rejects>>
history == <<copies, lost, barred, left, spoilt>>
bounds == <<asks, trouble>>
vars == <<rows, listens, starting, sending, request, history, bounds>>

Status == {"none", "scheduled", "paused", "running", "done", "cancelled"}
State == {"no", "pending", "sent", "failed", "blocked", "skipped"}
Outcome == {"none", "sent", "failed", "blocked", "rejected"}
Worker == [at: {"idle", "picked", "prime", "primed", "cache", "sending", "halt", "mark",
                "pause", "finish", "close"},
           run: Runs \cup {None}, batch: SUBSET People, got: [People -> Outcome], halt: BOOLEAN]
Idle == [at |-> "idle", run |-> None, batch |-> {}, got |-> [p \in People |-> "none"],
         halt |-> FALSE]

Init ==
    /\ status = [b \in Runs |-> "none"] /\ later = [b \in Runs |-> FALSE]
    /\ target = [b \in Runs |-> [p \in People |-> "no"]]
    /\ media = [b \in Runs |-> "text"] /\ file = [b \in Runs |-> FALSE]
    /\ listens = [p \in People |-> TRUE]
    /\ start = [b \in Runs |-> "no"] /\ creator = [b \in Runs |-> "no"]
    /\ hook = [b \in Runs |-> FALSE]
    /\ announced = [b \in Runs |-> 0]
    /\ worker = Idle /\ poisoned = {} /\ rejects = [b \in Runs |-> 0]
    /\ request = [o \in Operators |-> None]
    /\ copies = [b \in Runs |-> [p \in People |-> 0]]
    /\ lost = [b \in Runs |-> {}] /\ barred = [b \in Runs |-> {}] /\ left = {} /\ spoilt = {}
    /\ asks = 0 /\ trouble = 0

Trouble == trouble < MaxTrouble /\ trouble' = trouble + 1 /\ UNCHANGED asks
Asks == asks < MaxAsks /\ asks' = asks + 1 /\ UNCHANGED trouble

\* SetBroadcastStatusIf: only from the status it expects.
Moves(b, from, to) ==
    status' = IF status[b] = from THEN [status EXCEPT ![b] = to] ELSE status

(* Creating and starting *)

\* The row first; the attachment is written later, under the id the row was given.
Create(b) ==
    /\ status[b] = "none"
    /\ \A a \in Runs : a < b => status[a] # "none"
    /\ \E kind \in {"text", "file"}, wait \in BOOLEAN :
        /\ media' = [media EXCEPT ![b] = kind]
        /\ later' = [later EXCEPT ![b] = wait]
        /\ status' = [status EXCEPT ![b] = IF wait THEN "scheduled" ELSE "paused"]
        /\ start' = [start EXCEPT ![b] = IF wait THEN "no" ELSE "claimed"]
        /\ creator' = [creator EXCEPT ![b] = IF wait /\ kind = "file" THEN "saving" ELSE "no"]
    /\ UNCHANGED <<target, file, listens, hook, announced, sending, request, history, bounds>>

\* Its time has come, whether its creator is through or not: claimed before anything else.
Claim(b) ==
    /\ status[b] = "scheduled" /\ start[b] = "no"
    /\ Moves(b, "scheduled", "paused")
    /\ start' = [start EXCEPT ![b] = "claimed"]
    /\ UNCHANGED <<later, target, media, file, listens, creator, hook, announced, sending, request,
                   history, bounds>>

\* The recipients and, with a webhook, the accounts of the external system are listed.
Audience(b) == {who \in [chats: SUBSET {p \in People : listens[p]}, hook: BOOLEAN] :
                  who.chats # {} \/ who.hook}
Adds(b, who) ==
    target' = [target EXCEPT ![b] = [p \in People |->
                 IF p \in who.chats /\ target[b][p] = "no" THEN "pending" ELSE target[b][p]]]
Lists(b, who) == Adds(b, who) /\ hook' = [hook EXCEPT ![b] = @ \/ who.hook]

List(b) ==
    /\ start[b] = "claimed"
    /\ \E who \in Audience(b) : Lists(b, who)
    /\ start' = [start EXCEPT ![b] = "listed"]
    /\ UNCHANGED <<status, later, media, file, listens, creator, announced, sending, request,
                   history, bounds>>

\* A scheduled one that is too late or has nobody to go to is called off.
NoAudience(b) ==
    /\ start[b] = "claimed" /\ later[b]
    /\ start' = [start EXCEPT ![b] = "abandon"]
    /\ UNCHANGED <<rows, listens, creator, hook, announced, sending, request, history, bounds>>

\* A database error on the way to a start: back to waiting, or called off by the creator.
Reverts(b) ==
    IF later[b] THEN Moves(b, "paused", "scheduled") /\ start' = [start EXCEPT ![b] = "no"]
    ELSE UNCHANGED status /\ start' = [start EXCEPT ![b] = "abandon"]

\* Before the recipients are written, or right after; the creator of one to be started at
\* once leaves it then as it is.
ListFails(b) ==
    /\ start[b] = "claimed"
    /\ Trouble
    /\ \/ UNCHANGED <<target, hook>>
       \/ later[b] /\ (\E who \in Audience(b) : Adds(b, who)) /\ UNCHANGED hook
       \/ ~later[b] /\ \E who \in Audience(b) : Lists(b, who)
    /\ IF later[b] THEN Reverts(b)
       ELSE start' = [start EXCEPT ![b] = "no"] /\ UNCHANGED status
    /\ UNCHANGED <<later, media, file, listens, creator, announced, sending, request, history>>

\* The attachment of one to be started at once; what failed may have left a part of it.
SaveMedia(b) ==
    /\ start[b] = "listed" /\ media[b] = "file" /\ ~file[b] /\ ~later[b]
    /\ \/ file' = [file EXCEPT ![b] = TRUE] /\ UNCHANGED <<start, bounds>>
       \/ /\ Trouble
          /\ start' = [start EXCEPT ![b] = "abandon"]
          /\ \E part \in BOOLEAN : file' = [file EXCEPT ![b] = part]
    /\ UNCHANGED <<status, later, target, media, listens, creator, hook, announced, sending,
                   request, history>>

\* The same for a scheduled one, which may be going out meanwhile.
SaveLater(b) ==
    /\ creator[b] = "saving"
    /\ \/ /\ file' = [file EXCEPT ![b] = TRUE]
          /\ creator' = [creator EXCEPT ![b] = "no"]
          /\ UNCHANGED bounds
       \/ /\ Trouble
          /\ creator' = [creator EXCEPT ![b] = "abandon"]
          /\ \E part \in BOOLEAN : file' = [file EXCEPT ![b] = part]
    /\ UNCHANGED <<status, later, target, media, listens, start, hook, announced, sending,
                   request, history>>

Ready(b) == start[b] = "listed" /\ (media[b] = "text" \/ file[b] \/ later[b])
Empty(b) == \A p \in People : target[b][p] = "no"

\* A run goes on: what is pending and should not be sent again now may be.
StillBarred(b) == {p \in barred[b] : target[b][p] # "pending"}
LetsGo(b) == barred' = [barred EXCEPT ![b] = StillBarred(b)]

\* StartBroadcast: only from paused, and then the external system is told.
Start(b) ==
    /\ Ready(b)
    /\ Moves(b, "paused", "running")
    /\ hook' = [hook EXCEPT ![b] = FALSE]
    /\ IF status[b] = "paused"
       THEN /\ announced' = [announced EXCEPT ![b] = @ + IF hook[b] THEN 1 ELSE 0]
            /\ start' = [start EXCEPT ![b] = IF Empty(b) THEN "empty" ELSE "no"]
            /\ LetsGo(b)
       ELSE /\ start' = [start EXCEPT ![b] = "no"]
            /\ UNCHANGED <<announced, barred>>
    /\ UNCHANGED <<later, target, media, file, listens, creator, sending, request, copies, lost,
                   left, spoilt, bounds>>

\* The row cannot be written, or cannot be read again once it is running.
StartFails(b) ==
    /\ Ready(b)
    /\ Trouble
    /\ \/ Reverts(b) /\ UNCHANGED barred
       \/ /\ status[b] = "paused"
          /\ status' = [status EXCEPT ![b] = "running"]
          /\ start' = [start EXCEPT ![b] = IF later[b] THEN "no" ELSE "abandon"]
          /\ LetsGo(b)
    /\ UNCHANGED <<later, target, media, file, listens, creator, hook, announced, sending, request,
                   copies, lost, left, spoilt>>

\* One with nothing for the bot is done then, whatever its status has become.
CloseEmpty(b) ==
    /\ start[b] = "empty"
    /\ \/ status' = [status EXCEPT ![b] = "done"] /\ start' = [start EXCEPT ![b] = "no"]
          /\ UNCHANGED bounds
       \/ Trouble /\ Reverts(b)
    /\ UNCHANGED <<later, target, media, file, listens, creator, hook, announced, sending, request,
                   history>>

\* AbandonBroadcast reads the status, as an operator's cancel does, and then writes; an
\* error of it is ignored.
Abandon(b) ==
    LET next == IF status[b] \in {"done", "cancelled"} THEN "no" ELSE "cancel"
    IN /\ \/ start[b] = "abandon" /\ start' = [start EXCEPT ![b] = next] /\ UNCHANGED creator
          \/ creator[b] = "abandon" /\ creator' = [creator EXCEPT ![b] = next] /\ UNCHANGED start
       /\ hook' = [hook EXCEPT ![b] = FALSE]
       /\ UNCHANGED <<rows, listens, announced, sending, request, history, bounds>>

CancelStart(b) ==
    /\ \/ start[b] = "cancel" /\ start' = [start EXCEPT ![b] = "no"] /\ UNCHANGED creator
       \/ creator[b] = "cancel" /\ creator' = [creator EXCEPT ![b] = "no"] /\ UNCHANGED start
    /\ \/ status' = [status EXCEPT ![b] = "cancelled"] /\ UNCHANGED bounds
       \/ Trouble /\ UNCHANGED status
    /\ UNCHANGED <<later, target, media, file, listens, hook, announced, sending, request,
                   history>>

(* Operators *)

\* SetBroadcastStatus reads the status and refuses what is over, or not yet begun.
Ask(o) ==
    /\ request[o] = None
    /\ Asks
    /\ \E b \in Runs, to \in {"paused", "running", "cancelled"} :
        /\ status[b] \notin {"none", "done", "cancelled"}
        /\ status[b] = "scheduled" => to = "cancelled"
        /\ request' = [request EXCEPT ![o] = [run |-> b, to |-> to]]
    /\ UNCHANGED <<rows, listens, starting, sending, history>>

\* And then writes it, whatever the status is by now.
Write(o) ==
    /\ request[o] # None
    /\ LET b == request[o].run
           to == request[o].to
       IN /\ status' = [status EXCEPT ![b] = to]
          /\ IF to = "running" THEN LetsGo(b) ELSE UNCHANGED barred
          /\ spoilt' = IF start[b] # "no" THEN spoilt \cup {b} ELSE spoilt
    /\ request' = [request EXCEPT ![o] = None]
    /\ UNCHANGED <<later, target, media, file, listens, starting, sending, copies, lost, left,
                   bounds>>

RetryQueues(b) ==
    /\ status[b] = "done"
    /\ \E p \in People : target[b][p] = "failed"
    /\ Asks
    /\ target' = [target EXCEPT ![b] = [p \in People |-> IF @[p] = "failed" THEN "pending" ELSE @[p]]]
    /\ UNCHANGED <<status, later, media, file, listens, starting, sending, request, history>>

\* RetryBroadcast: the failures of a finished run are queued again, in one transaction.
Retry(b) ==
    /\ status[b] = "done"
    /\ \E p \in People : target[b][p] = "failed"
    /\ Asks
    /\ target' = [target EXCEPT ![b] = [p \in People |-> IF @[p] = "failed" THEN "pending" ELSE @[p]]]
    /\ status' = [status EXCEPT ![b] = "running"]
    /\ barred' = [barred EXCEPT ![b] = {}]
    /\ UNCHANGED <<later, media, file, listens, starting, sending, request, copies, lost, left,
                   spoilt>>

\* A person opts out or blocks the bot, and comes back.
OptOut(p) ==
    /\ listens' = [listens EXCEPT ![p] = ~listens[p]]
    /\ left' = left \cup {p}
    /\ UNCHANGED <<rows, starting, sending, request, copies, lost, barred, spoilt, bounds>>

(* The worker *)

PickPoisoned ==
    /\ worker.at = "idle"
    /\ \E b \in Runs :
        /\ status[b] = "running"
        /\ \A a \in Runs : a < b => status[a] # "running"
        /\ worker' = [Idle EXCEPT !.at = "picked", !.run = b]
    /\ UNCHANGED <<rows, listens, starting, poisoned, rejects, request, history, bounds>>

Pick ==
    /\ worker.at = "idle"
    /\ \E b \in Runs :
        /\ status[b] = "running"
        /\ \A a \in Runs : a < b => status[a] # "running"
        /\ b \notin poisoned
        /\ worker' = [Idle EXCEPT !.at = "picked", !.run = b]
    /\ UNCHANGED <<rows, listens, starting, poisoned, rejects, request, history, bounds>>

\* NextPendingTargets: the pending ones who have not left since they were listed.
Reachable(b) == {p \in People : target[b][p] = "pending" /\ listens[p]}

DrainedNobody(b) == \A p \in People : target[b][p] # "pending"
DrainedSoon(b) == Cardinality(Reachable(b)) <= BatchSize
Drained(b) == Reachable(b) = {}

Look ==
    /\ worker.at = "picked"
    /\ LET b == worker.run
           size == Cardinality(Reachable(b))
       IN IF Drained(b)
          THEN worker' = [worker EXCEPT !.at = "finish"]
          ELSE \E batch \in SUBSET Reachable(b) :
                 /\ Cardinality(batch) = IF size < BatchSize THEN size ELSE BatchSize
                 /\ worker' = [worker EXCEPT !.batch = batch,
                                  !.at = IF media[b] = "file" THEN "prime" ELSE "sending"]
    /\ UNCHANGED <<rows, listens, starting, poisoned, rejects, request, history, bounds>>

Delivers(b, p) == copies' = [copies EXCEPT ![b][p] = @ + 1]

\* The attachment goes to one recipient first: delivered, or refused for the recipient.
\* A file that is missing or refused stops the run.
Prime ==
    /\ worker.at = "prime"
    /\ LET b == worker.run
       IN \/ \E p \in worker.batch :
               /\ file[b]
               /\ \/ Delivers(b, p) /\ worker' = [worker EXCEPT !.at = "primed", !.got[p] = "sent"]
                  \/ worker' = [worker EXCEPT !.at = "primed", !.got[p] = "blocked"]
                     /\ UNCHANGED copies
          \/ worker' = [worker EXCEPT !.at = "pause"] /\ UNCHANGED copies
    /\ UNCHANGED <<rows, listens, starting, poisoned, rejects, request, lost, barred, left,
                   spoilt, bounds>>

\* A blip: the next pass tries again, with the same people.
PrimeFails ==
    /\ worker.at = "prime" /\ file[worker.run]
    /\ Trouble
    /\ worker' = Idle
    /\ UNCHANGED <<rows, listens, starting, poisoned, rejects, request, history>>

\* The attachment arrives and the answer does not: nothing is known of it, and nothing stops
\* the next pass.
PrimeUnanswered ==
    /\ worker.at = "prime" /\ file[worker.run]
    /\ Trouble
    /\ \E p \in worker.batch : /\ Delivers(worker.run, p)
                               /\ lost' = [lost EXCEPT ![worker.run] = @ \cup {p}]
    /\ worker' = Idle
    /\ UNCHANGED <<rows, listens, starting, poisoned, rejects, request, barred, left, spoilt>>

\* What is written of an outcome: a refused message counts as failed.
Recorded(outcome) == IF outcome = "rejected" THEN "failed" ELSE outcome

MarksReachable(b) ==
    target' = [target EXCEPT ![b] = [p \in People |->
                 IF worker.got[p] = "none" \/ ~listens[p] THEN @[p] ELSE Recorded(worker.got[p])]]

Marks(b) ==
    target' = [target EXCEPT ![b] = [p \in People |->
                 IF worker.got[p] = "none" THEN @[p] ELSE Recorded(worker.got[p])]]

\* SetSubscriberBlocked.
Blocks ==
    LET gone == {p \in People : worker.got[p] = "blocked"}
    IN /\ listens' = [p \in People |-> listens[p] /\ p \notin gone]
       /\ left' = left \cup gone

Unrecorded == \E p \in People : worker.got[p] = "sent"
Unwritten == {p \in People : worker.got[p] = "sent" /\ target[worker.run][p] # "sent"}
LosesTrack == /\ lost' = [lost EXCEPT ![worker.run] = @ \cup Unwritten]
              /\ barred' = [barred EXCEPT ![worker.run] = @ \cup Unwritten]

RecordPrime ==
    /\ worker.at = "primed"
    /\ LET b == worker.run
       IN /\ Blocks
          /\ \/ /\ Marks(b)
                /\ rejects' = IF Unrecorded THEN [rejects EXCEPT ![b] = 0] ELSE rejects
                /\ worker' = IF Unrecorded THEN [worker EXCEPT !.at = "cache"] ELSE Idle
                /\ UNCHANGED <<lost, barred, bounds>>
             \/ /\ Trouble
                /\ LosesTrack
                /\ worker' = [worker EXCEPT !.at = "pause"]
                /\ UNCHANGED <<target, rejects>>
    /\ UNCHANGED <<status, later, media, file, starting, poisoned, request, copies, spoilt>>

\* The file_id is kept for everyone else; without one the run stops.
Cache ==
    /\ worker.at = "cache"
    /\ LET rest == {p \in worker.batch : worker.got[p] = "none"}
       IN \/ /\ media' = [media EXCEPT ![worker.run] = "cached"]
             /\ worker' = IF rest = {} THEN Idle
                          ELSE [Idle EXCEPT !.at = "sending", !.run = worker.run, !.batch = rest]
             /\ UNCHANGED bounds
          \/ /\ Trouble
             /\ worker' = [worker EXCEPT !.at = "pause"]
             /\ UNCHANGED media
    /\ UNCHANGED <<status, later, target, file, listens, starting, poisoned, rejects, request,
                   history>>

\* textRejects: counted in a row, beyond MaxRejects no matter.
Counts(b, outcome) ==
    rejects' = CASE outcome = "rejected" ->
                      [rejects EXCEPT ![b] = IF @ < MaxRejects THEN @ + 1 ELSE @]
                 [] outcome = "blocked" -> rejects
                 [] OTHER -> [rejects EXCEPT ![b] = 0]

\* One recipient of the batch; the last one's answer ends it.
Answers(p, outcome) ==
    LET b == worker.run
        halt == worker.halt \/ rejects'[b] = MaxRejects
        rest == worker.batch \ {p}
    IN /\ Counts(b, outcome)
       /\ worker' = [worker EXCEPT !.got[p] = outcome, !.batch = rest, !.halt = halt,
                        !.at = IF rest # {} THEN "sending" ELSE IF halt THEN "halt" ELSE "mark"]

Send(p) ==
    /\ worker.at = "sending" /\ p \in worker.batch
    /\ \E outcome \in Outcome \ {"none"} :
        /\ Answers(p, outcome)
        /\ IF outcome = "sent" THEN Delivers(worker.run, p) ELSE UNCHANGED copies
    /\ UNCHANGED <<rows, listens, starting, poisoned, request, lost, barred, left, spoilt, bounds>>

\* The message arrives and the answer does not.
SendUnanswered(p) ==
    /\ worker.at = "sending" /\ p \in worker.batch
    /\ Trouble
    /\ Answers(p, "failed")
    /\ Delivers(worker.run, p)
    /\ lost' = [lost EXCEPT ![worker.run] = @ \cup {p}]
    /\ barred' = [barred EXCEPT ![worker.run] = @ \cup {p}]
    /\ UNCHANGED <<rows, listens, starting, poisoned, request, left, spoilt>>

\* MarkTargets; a batch that cannot be recorded puts its run in quarantine.
Mark ==
    /\ worker.at = "mark"
    /\ LET b == worker.run
       IN /\ Blocks
          /\ \/ /\ Marks(b)
                /\ worker' = Idle
                /\ UNCHANGED <<poisoned, lost, barred, bounds>>
             \/ /\ Trouble
                /\ LosesTrack
                /\ poisoned' = poisoned \cup {b}
                /\ worker' = [worker EXCEPT !.at = "pause"]
                /\ UNCHANGED target
    /\ UNCHANGED <<status, later, media, file, starting, rejects, request, copies, spoilt>>

\* The run is paused, unless the operator has decided something since, or the write fails.
\* After an upload that could not be recorded either, nothing else stops the run.
Pause ==
    /\ worker.at \in {"halt", "pause"}
    /\ worker' = IF worker.at = "halt" THEN [worker EXCEPT !.at = "mark"] ELSE Idle
    /\ \/ Moves(worker.run, "running", "paused") /\ UNCHANGED <<barred, bounds>>
       \/ /\ Trouble
          /\ IF worker.run \in poisoned THEN UNCHANGED barred ELSE LetsGo(worker.run)
          /\ UNCHANGED status
    /\ UNCHANGED <<later, target, media, file, listens, starting, poisoned, rejects, request,
                   copies, lost, left, spoilt>>

\* Those still pending left after they were listed, and are closed out.
Finish ==
    /\ worker.at = "finish"
    /\ worker' = [worker EXCEPT !.at = "close"]
    /\ \/ /\ target' = [target EXCEPT ![worker.run] = [p \in People |->
                          IF @[p] = "pending" THEN "skipped" ELSE @[p]]]
          /\ UNCHANGED <<spoilt, bounds>>
       \/ /\ Trouble
          /\ spoilt' = spoilt \cup {worker.run}
          /\ UNCHANGED target
    /\ UNCHANGED <<status, later, media, file, listens, starting, poisoned, rejects, request,
                   copies, lost, barred, left>>

Close ==
    /\ worker.at = "close"
    /\ worker' = Idle
    /\ \/ /\ Moves(worker.run, "running", "done")
          /\ file' = [file EXCEPT ![worker.run] = @ /\ media[worker.run] # "cached"]
          /\ UNCHANGED bounds
       \/ Trouble /\ UNCHANGED <<status, file>>
    /\ UNCHANGED <<later, target, media, listens, starting, poisoned, rejects, request, history>>

QuarantineEnds(b) ==
    /\ b \in poisoned
    /\ poisoned' = poisoned \ {b}
    /\ LetsGo(b)
    /\ UNCHANGED <<rows, listens, starting, worker, rejects, request, copies, lost, left, spoilt,
                   bounds>>

\* sweepMedia: the attachments of runs that will never send again.
Swept(b) == status[b] = "cancelled" \/ (status[b] = "done" /\ media[b] = "cached")
Sweep ==
    /\ worker.at = "idle"
    /\ \E b \in Runs : file[b] /\ Swept(b)
    /\ file' = [b \in Runs |-> file[b] /\ ~Swept(b)]
    /\ UNCHANGED <<status, later, target, media, listens, starting, sending, request, history,
                   bounds>>

\* What was in memory is gone: what was sent and not yet recorded, the quarantine, requests.
Restart ==
    /\ Trouble
    /\ lost' = [b \in Runs |-> lost[b] \cup IF b = worker.run THEN Unwritten ELSE {}]
    /\ barred' = [b \in Runs |-> StillBarred(b)]
    /\ worker' = Idle /\ poisoned' = {} /\ rejects' = [b \in Runs |-> 0]
    /\ request' = [o \in Operators |-> None]
    /\ start' = [b \in Runs |-> "no"] /\ creator' = [b \in Runs |-> "no"]
    /\ hook' = [b \in Runs |-> FALSE]
    /\ UNCHANGED <<rows, listens, announced, copies, left, spoilt>>

Starting(b) == \/ List(b) \/ NoAudience(b) \/ ListFails(b) \/ SaveMedia(b) \/ SaveLater(b)
               \/ Start(b) \/ StartFails(b) \/ CloseEmpty(b) \/ Abandon(b) \/ CancelStart(b)
Working == \/ Pick \/ Look \/ Prime \/ PrimeFails \/ PrimeUnanswered \/ RecordPrime \/ Cache
           \/ (\E p \in People : Send(p) \/ SendUnanswered(p))
           \/ Mark \/ Pause \/ Finish \/ Close

Next == \/ \E b \in Runs : Create(b) \/ Claim(b) \/ Starting(b) \/ Retry(b) \/ QuarantineEnds(b)
        \/ \E o \in Operators : Ask(o) \/ Write(o)
        \/ \E p \in People : OptOut(p)
        \/ Working \/ Sweep \/ Restart

Spec == Init /\ [][Next]_vars

\* The worker polls, the schedule ticks, what is being started goes on, quarantines end.
FairSpec ==
    /\ Spec
    /\ WF_vars(Working)
    /\ \A b \in Runs : WF_vars(Claim(b) \/ Starting(b)) /\ WF_vars(QuarantineEnds(b))
-------------------------------------------------------------------------------
TypeOK ==
    /\ status \in [Runs -> Status] /\ later \in [Runs -> BOOLEAN]
    /\ target \in [Runs -> [People -> State]]
    /\ media \in [Runs -> {"text", "file", "cached"}] /\ file \in [Runs -> BOOLEAN]
    /\ listens \in [People -> BOOLEAN]
    /\ start \in [Runs -> {"no", "claimed", "listed", "empty", "abandon", "cancel"}]
    /\ creator \in [Runs -> {"no", "saving", "abandon", "cancel"}]
    /\ hook \in [Runs -> BOOLEAN] /\ announced \in [Runs -> Nat]
    /\ worker \in Worker /\ (worker.at # "idle" => worker.run \in Runs)
    /\ poisoned \subseteq Runs /\ rejects \in [Runs -> 0..MaxRejects]
    /\ request \in [Operators -> [run: Runs, to: {"paused", "running", "cancelled"}] \cup {None}]
    /\ copies \in [Runs -> [People -> Nat]]
    /\ lost \in [Runs -> SUBSET People] /\ barred \in [Runs -> SUBSET People]
    /\ \A b \in Runs : barred[b] \subseteq lost[b]
    /\ left \subseteq People /\ spoilt \subseteq Runs
    /\ asks \in 0..MaxAsks /\ trouble \in 0..MaxTrouble

InHand(b, p) == worker.run = b /\ worker.got[p] = "sent"

\* Whoever has the message is written down as having it: the rows differ from what was
\* delivered only for the batch in hand and for messages whose record or answer was lost.
RecordsWhatItSends ==
    \A b \in Runs, p \in People :
        /\ target[b][p] = "sent" => copies[b][p] > 0
        /\ copies[b][p] > 0 /\ p \notin lost[b] => target[b][p] = "sent" \/ InHand(b, p)

\* Nobody gets a message again that was recorded, that could not be recorded, or that was
\* answered by nothing and written down as failed: "the very same people would be picked up
\* as the next batch and messaged again" (deliver). It takes a restart, the end of the
\* quarantine, a pause that fails too, or an operator who resumes or retries it; and there
\* is one message nothing protects, an attachment whose upload arrived without an answer.
NoSilentRepeat ==
    [][\A b \in Runs, p \in People :
          copies'[b][p] > copies[b][p] /\ copies[b][p] > 0 => p \in lost[b] \ barred[b]]_vars

\* A finished run has nobody left in its queue: "a state no API can move" (RetryFailedBroadcast).
DoneIsDone ==
    \A b \in Runs \ spoilt : status[b] = "done" => \A p \in People : target[b][p] # "pending"

\* Nobody is closed out who has listened all along.
SkipsOnlyWhoLeft ==
    \A b \in Runs \ spoilt, p \in People : target[b][p] = "skipped" => p \in left

\* The external system is told of a broadcast once.
AnnouncedOnce == \A b \in Runs \ spoilt : announced[b] <= 1

\* Once nothing fails and nobody asks for anything any more, every broadcast that was
\* started ends, or waits for the operator: no scheduled one is forgotten, none runs for ever.
Settles == \A b \in Runs : <>[](status[b] \notin {"scheduled", "running"})
===============================================================================
