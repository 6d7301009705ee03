---------------------------- MODULE XraySupervisor ----------------------------
(***************************************************************************)
(* One Xray process under its supervisor, and what drives the supervisor:  *)
(* on the master the manager's reconcile loop (full reconciles and live    *)
(* user syncs), on a node the agent's sync loop (pushed states, switched   *)
(* off and on), on both the restarts somebody else asks for, the watchdog  *)
(* and the shutdown.  The operations of the supervisor hold runMu for as   *)
(* long as they run ("op" is its holder); the process, the goroutine that  *)
(* waits for it to exit, the one that promotes its config and the loop     *)
(* that restarts it after a crash go on meanwhile.                         *)
(*                                                                         *)
(* A configuration is a base (everything but the users) and a set of       *)
(* users.  A base Xray refuses to load is Broken; bases of Custom differ   *)
(* in custom inbounds alone, which the API can change.                     *)
(***************************************************************************)
EXTENDS Naturals

CONSTANTS
    Bases, Broken, Custom,
    Users,
    Hosts,          \* the kinds of host: "master", "node"
    Loops,          \* bound: superviseRestart goroutines at a time
    MaxChanges,     \* bound: changes and restarts asked for
    MaxTrouble,     \* bound: crashes, wedges and calls that fail by themselves
    None

ASSUME BasesAssumption == /\ Broken \subseteq Bases /\ Custom \subseteq Bases
                          /\ Hosts \subseteq {"master", "node"}
                          /\ MaxChanges \in Nat /\ MaxTrouble \in Nat

VARIABLES
    host,           \* which of the two programs this is
    disk, bak,      \* config.json and config.json.bak
    cur,            \* Supervisor.cur with the process behind it, or None
    dying,          \* stopProc waits for the process it signalled
    orphan,         \* a process no field points at is still running
    pending,        \* promoteWhenHealthy: checked, not written yet
    loop,           \* superviseRestart goroutines
    op,             \* the holder of runMu, or None
    appliedCfg, fresh, recent, rolledBack,  \* fresh: restarts = 0; recent: lastApply
    suspended, closed,
    due,            \* the watchdog decided to restart
    want,           \* the configuration the database (the panel) describes
    ask,            \* what the reconcile loop (the sync loop) still has to do
    applied,        \* Manager.applied
    configErr,      \* settings.last_config_error is set
    revoked,        \* Agent.revoked
    call,           \* where the caller's handler is
    changes, trouble

files == <<disk, bak>>
proc == <<cur, dying, orphan, pending>>
marks == <<appliedCfg, fresh, recent, rolledBack>>
latches == <<suspended, closed, due>>
caller == <<want, ask, applied, configErr, revoked, call>>
bounds == <<changes, trouble>>
vars == <<host, files, proc, loop, op, marks, latches, caller, bounds>>

Config == [base: Bases, users: SUBSET Users]
Fine == Bases \ Broken
Process == [cfg: Config, run: Config, st: {"boot", "up", "wedged", "dead"}, proven: BOOLEAN]
Goroutine == [at: {"none", "decide", "roll", "top", "sleep"}, quick: BOOLEAN]
Holder == [by: {"caller", "other"}, kind: {"apply", "restart", "stop"},
           at: {"halt", "reap", "start", "note"}, cfg: Config]
Handler == [at: {"idle", "raw", "apply", "back", "rewind", "wait", "remove", "add", "write", "quic"},
            cfg: Config, tried: BOOLEAN]

ASSUME NoneAssumption == None \notin Config /\ None \notin Holder

NoLoop == [at |-> "none", quick |-> FALSE]

\* A panel or an agent that has just started: Xray is down, its files are those of the
\* life before, and the configuration is applied before anything else.  An agent the
\* panel had switched off suspends the supervisor first.
Init ==
    /\ host \in Hosts
    /\ disk \in [base: Fine, users: {{}}]
    /\ bak \in {None, disk}
    /\ cur = None /\ dying = FALSE /\ orphan = FALSE /\ pending = {}
    /\ loop = [l \in Loops |-> NoLoop]
    /\ op = None
    /\ appliedCfg = None /\ fresh = TRUE /\ recent = FALSE /\ rolledBack = FALSE
    /\ suspended \in (IF host = "node" THEN BOOLEAN ELSE {FALSE})
    /\ closed = FALSE /\ due = FALSE
    /\ want = disk
    /\ ask = IF host = "node" THEN "boot" ELSE "full"
    /\ applied = {}
    /\ configErr = FALSE
    /\ revoked = suspended
    /\ call = [at |-> "idle", cfg |-> disk, tried |-> FALSE]
    /\ changes = 0 /\ trouble = 0

\* The agent's other loops, and its talk with the panel, begin after the saved state was
\* applied.
Booted == ask # "boot"

Trouble == trouble < MaxTrouble /\ trouble' = trouble + 1 /\ UNCHANGED changes
Change == changes < MaxChanges /\ changes' = changes + 1 /\ UNCHANGED trouble

Running == cur # None
Alive == Running /\ cur.st # "dead"
Answers == Running /\ cur.st = "up"     \* the API of the running Xray
MuFree == op = None

(* The process *)

\* Xray reads its file when it has been started, which is after startProc read it.
Load ==
    /\ Running /\ cur.st = "boot"
    /\ cur' = IF disk.base \in Broken THEN [cur EXCEPT !.st = "dead"]
                                      ELSE [cur EXCEPT !.st = "up", !.run = disk]
    /\ UNCHANGED <<host, files, dying, orphan, pending, loop, op, marks, latches, caller, bounds>>

Fails ==
    /\ Alive
    /\ \E st \in {"dead", "wedged"} : cur' = [cur EXCEPT !.st = st]
    /\ Trouble
    /\ UNCHANGED <<host, files, dying, orphan, pending, loop, op, marks, latches, caller>>

\* healthyUptime has passed: promoteWhenHealthy looks whether its process is the current
\* one, and writes the rollback copy after letting go of the lock.
Healthy ==
    /\ Answers /\ ~cur.proven
    /\ cur' = [cur EXCEPT !.proven = TRUE]
    /\ pending' = IF closed THEN pending ELSE pending \cup {cur.cfg}
    /\ UNCHANGED <<host, files, dying, orphan, loop, op, marks, latches, caller, bounds>>

Promote ==
    /\ \E c \in pending : bak' = c /\ pending' = pending \ {c}
    /\ UNCHANGED <<host, disk, cur, dying, orphan, loop, op, marks, latches, caller, bounds>>

\* startProc on the file d, when it gets as far as starting one.
Launch(d) ==
    /\ cur' = [cfg |-> d, run |-> d, st |-> "boot", proven |-> FALSE]
    /\ orphan' = (orphan \/ dying \/ Alive)

(* After a crash *)

\* The exit of a process nobody stopped: monitor clears cur and becomes its restarter.
Monitor(l) ==
    /\ Running /\ cur.st = "dead" /\ ~closed
    /\ loop[l].at = "none"
    /\ loop' = [loop EXCEPT ![l] = [at |-> "decide", quick |-> ~cur.proven]]
    /\ cur' = None
    /\ fresh' = (fresh \/ cur.proven)
    /\ UNCHANGED <<host, files, dying, orphan, pending, op, appliedCfg, recent, rolledBack,
                   latches, caller, bounds>>

RollbackRecentOnly(quick) ==
    quick /\ bak # None /\ fresh /\ recent

ShouldRollback(quick) ==
    /\ quick /\ bak # None
    /\ \/ fresh /\ recent
       \/ ~rolledBack /\ disk.base \in Broken

Decide(l) ==
    /\ loop[l].at = "decide"
    /\ loop' = [loop EXCEPT ![l].at = IF ShouldRollback(loop[l].quick) THEN "roll" ELSE "top"]
    /\ UNCHANGED <<host, files, proc, op, marks, latches, caller, bounds>>

SupersededBlind == closed \/ suspended

SupersededByOperation == closed \/ suspended \/ Running \/ ~MuFree

Superseded == closed \/ suspended \/ Running

\* The rollback, and the start of it that fails.
Roll(l) ==
    /\ loop[l].at = "roll" /\ MuFree
    /\ \/ /\ Superseded
          /\ loop' = [loop EXCEPT ![l].at = "top"]
          /\ UNCHANGED <<files, proc, rolledBack, bounds>>
       \/ /\ ~Superseded
          /\ rolledBack' = TRUE
          /\ disk' = bak
          /\ \/ /\ Launch(bak)
                /\ loop' = [loop EXCEPT ![l] = NoLoop]
                /\ UNCHANGED bounds
             \/ /\ loop' = [loop EXCEPT ![l].at = "top"]
                /\ Trouble
                /\ UNCHANGED <<cur, orphan>>
          /\ UNCHANGED <<bak, dying, pending>>
    /\ UNCHANGED <<host, op, appliedCfg, fresh, recent, latches, caller>>

\* The head of the restart loop: give up, or count the attempt and sleep.
Top(l) ==
    /\ loop[l].at = "top"
    /\ IF Superseded
       THEN loop' = [loop EXCEPT ![l] = NoLoop] /\ UNCHANGED fresh
       ELSE loop' = [loop EXCEPT ![l].at = "sleep"] /\ fresh' = FALSE
    /\ UNCHANGED <<host, files, proc, op, appliedCfg, recent, rolledBack, latches, caller, bounds>>

Wake(l) ==
    /\ loop[l].at = "sleep" /\ MuFree
    /\ \/ /\ Superseded
          /\ loop' = [loop EXCEPT ![l] = NoLoop]
          /\ UNCHANGED <<cur, orphan, bounds>>
       \/ /\ ~Superseded
          /\ Launch(disk)
          /\ loop' = [loop EXCEPT ![l] = NoLoop]
          /\ UNCHANGED bounds
       \/ /\ ~Superseded
          /\ loop' = [loop EXCEPT ![l].at = "top"]
          /\ Trouble
          /\ UNCHANGED <<cur, orphan>>
    /\ UNCHANGED <<host, files, dying, pending, op, marks, latches, caller>>

\* A minute (2*healthyUptime) since the last Apply.
Age ==
    /\ recent
    /\ recent' = FALSE
    /\ UNCHANGED <<host, files, proc, loop, op, appliedCfg, fresh, rolledBack, latches, caller, bounds>>

(* The operations that hold runMu *)

Hold(by, kind, cfg) == op' = [by |-> by, kind |-> kind, at |-> "halt", cfg |-> cfg]

\* The caller's handler ends: a reconcile that worked clears the error and remembers
\* the users, a pushed state that was applied is not asked for again, and a node goes
\* back to its file when a live change got part of the way.
Returns(ok) ==
    /\ call' = [call EXCEPT !.at = IF ~ok /\ call.tried THEN "back" ELSE "idle",
                            !.tried = FALSE]
    /\ ask' = IF host = "node" /\ ok /\ want = call.cfg THEN "no" ELSE ask
    /\ IF host = "master"
       THEN /\ configErr' = ~ok
            /\ applied' = IF ok THEN call.cfg.users ELSE applied
       ELSE UNCHANGED <<configErr, applied>>
    /\ UNCHANGED <<want, revoked>>

\* A Suspend, a Resume or the Restart after a failed update: nothing was applied.
Resumes(ok) ==
    /\ call' = [call EXCEPT !.at = "idle"]
    /\ revoked' = IF call.at = "rewind" THEN revoked ELSE suspended \/ ~ok
    /\ UNCHANGED <<want, ask, applied, configErr>>

Release(ok) ==
    /\ op' = None
    /\ IF op.by = "other" THEN UNCHANGED caller
       ELSE IF op.kind = "apply" THEN Returns(ok)
       ELSE Resumes(ok)

\* stopProc: what it does before it waits.
Halt ==
    /\ op # None /\ op.at = "halt"
    /\ op' = [op EXCEPT !.at = "reap"]
    /\ dying' = Alive
    /\ cur' = None
    /\ fresh' = (fresh \/ Running)
    /\ UNCHANGED <<host, files, orphan, pending, loop, appliedCfg, recent, rolledBack, latches,
                   caller, bounds>>

Reap ==
    /\ op # None /\ op.at = "reap"
    /\ dying' = FALSE
    /\ IF op.kind = "stop" THEN Release(TRUE)
       ELSE op' = [op EXCEPT !.at = "start"] /\ UNCHANGED caller
    /\ UNCHANGED <<host, files, cur, orphan, pending, loop, marks, latches, bounds>>

Begun == IF op.kind = "apply" THEN op' = [op EXCEPT !.at = "note"] /\ UNCHANGED caller
                              ELSE Release(TRUE)

IgnoredClosed == closed

\* A start is ignored, and reported as one that worked, on a supervisor that is switched
\* off or closed.
Ignored == closed \/ suspended

StartProc ==
    /\ op # None /\ op.at = "start"
    /\ \/ Ignored /\ Begun /\ UNCHANGED <<cur, orphan, bounds>>
       \/ ~Ignored /\ Launch(disk) /\ Begun /\ UNCHANGED bounds
       \/ ~Ignored /\ Trouble /\ Release(FALSE) /\ UNCHANGED <<cur, orphan>>
    /\ UNCHANGED <<host, files, dying, pending, loop, marks, latches>>

\* Apply and ApplyRaw after the restart.
Note ==
    /\ op # None /\ op.at = "note"
    /\ recent' = TRUE /\ rolledBack' = FALSE /\ appliedCfg' = op.cfg
    /\ Release(TRUE)
    /\ UNCHANGED <<host, files, proc, loop, fresh, latches, bounds>>

\* A restart somebody else asked for: the operator, a renewed certificate, new geo data.
Restart ==
    /\ MuFree /\ Booted /\ Change
    /\ Hold("other", "restart", disk)
    /\ UNCHANGED <<host, files, proc, loop, marks, latches, caller>>

\* The watchdog saw enough failed probes of a process that is alive, and later restarts
\* whatever runs by then.
WatchdogTick ==
    /\ Running /\ cur.st = "wedged" /\ ~suspended /\ ~closed /\ ~due
    /\ due' = TRUE
    /\ UNCHANGED <<host, files, proc, loop, op, marks, suspended, closed, caller, bounds>>

WatchdogRestart ==
    /\ due /\ MuFree
    /\ due' = FALSE
    /\ Hold("other", "restart", disk)
    /\ UNCHANGED <<host, files, proc, loop, marks, suspended, closed, caller, bounds>>

\* The shutdown of the panel or of the agent.
Stop ==
    /\ MuFree /\ ~closed /\ Change
    /\ closed' = TRUE
    /\ Hold("other", "stop", disk)
    /\ UNCHANGED <<host, files, proc, loop, marks, suspended, due, caller>>

(* Applying a configuration *)

Idle == call.at = "idle" /\ ~closed
Goes(at) == call' = [call EXCEPT !.at = at]
Reads(at) == call' = [at |-> at, cfg |-> want, tried |-> FALSE]

\* What a live change turns the running configuration r into: the difference between the
\* file and the new one, in users and, when only custom inbounds differ, in the base.
Changed(r, old, new) ==
    [base |-> IF old.base = new.base THEN r.base ELSE new.base,
     users |-> (r.users \ (old.users \ new.users)) \cup (new.users \ old.users)]

\* A call of the API that fails may have done its work all the same.
Half(r, new) == cur' \in {cur, [cur EXCEPT !.run = new]}

LiveBases(c) == disk.base # c.base /\ {disk.base, c.base} \subseteq Custom
RunningMatchesDisk == appliedCfg # None /\ appliedCfg.base = disk.base

Same(c) == host = "master" /\ Running /\ appliedCfg = c

\* Apply of a configuration that is taken for the one already running.
ApplySame ==
    /\ call.at = "apply" /\ MuFree /\ Same(call.cfg)
    /\ recent' = TRUE /\ rolledBack' = FALSE
    /\ Returns(TRUE)
    /\ UNCHANGED <<host, files, proc, loop, op, appliedCfg, fresh, latches, bounds>>

\* Apply or ApplyRaw ends before it changed anything: Xray refuses the configuration, or
\* it could not be written.
ApplyRefused ==
    /\ call.at = "apply" /\ MuFree /\ ~Same(call.cfg)
    /\ IF call.cfg.base \in Broken THEN UNCHANGED bounds ELSE Trouble
    /\ Returns(FALSE)
    /\ UNCHANGED <<host, files, proc, loop, op, marks, latches>>

\* Apply of a change of custom inbounds, through the API.
CanLive(c) == host = "master" /\ Running /\ RunningMatchesDisk /\ LiveBases(c)

ApplyLive ==
    /\ call.at = "apply" /\ MuFree /\ ~Same(call.cfg)
    /\ call.cfg.base \notin Broken
    /\ CanLive(call.cfg) /\ Answers
    /\ cur' = [cur EXCEPT !.run = Changed(cur.run, disk, call.cfg)]
    /\ bak' = disk /\ disk' = call.cfg
    /\ recent' = TRUE /\ rolledBack' = FALSE /\ appliedCfg' = call.cfg
    /\ Returns(TRUE)
    /\ UNCHANGED <<host, dying, orphan, pending, loop, op, fresh, latches, bounds>>

\* Apply and ApplyRaw up to the restart.
Apply ==
    /\ call.at = "apply" /\ MuFree /\ ~Same(call.cfg)
    /\ call.cfg.base \notin Broken
    /\ \/ ~(CanLive(call.cfg) /\ Answers) /\ UNCHANGED <<cur, bounds>>
       \/ /\ CanLive(call.cfg) /\ Answers
          /\ Trouble
          /\ Half(cur.run, Changed(cur.run, disk, call.cfg))
    /\ bak' = disk /\ disk' = call.cfg
    /\ Hold("caller", "apply", call.cfg)
    /\ Goes("wait")
    /\ UNCHANGED <<host, dying, orphan, pending, loop, marks, latches, want, ask, applied,
                   configErr, revoked>>

(* The master: the manager's reconcile loop *)

\* A change of users asks for a sync, one of anything else for a full reconcile, and so
\* does a save that changes nothing Xray sees.
Asks(a) == ask' = IF ask = "no" THEN a ELSE IF a = "full" THEN "full" ELSE ask

ChangeUsers ==
    /\ Booted /\ Change
    /\ \E us \in SUBSET Users \ {want.users} : want' = [want EXCEPT !.users = us]
    /\ Asks(IF host = "master" THEN "sync" ELSE "full")
    /\ UNCHANGED <<host, files, proc, loop, op, marks, latches, applied, configErr, revoked, call>>

ChangeBase ==
    /\ Booted /\ Change
    /\ \E b \in Bases : want' = [want EXCEPT !.base = b]
    /\ Asks("full")
    /\ UNCHANGED <<host, files, proc, loop, op, marks, latches, applied, configErr, revoked, call>>

Reconcile ==
    /\ host = "master" /\ Idle /\ ask = "full"
    /\ ask' = "no" /\ Reads("apply")
    /\ UNCHANGED <<host, files, proc, loop, op, marks, latches, want, applied, configErr, revoked, bounds>>

SyncUsers ==
    /\ host = "master" /\ Idle /\ ask = "sync"
    /\ ask' = "no"
    /\ IF ~Running THEN Reads("apply")
       ELSE IF want.users = applied THEN UNCHANGED call
       ELSE Reads("remove")
    /\ UNCHANGED <<host, files, proc, loop, op, marks, latches, want, applied, configErr, revoked, bounds>>

\* One call of the API to the running Xray, which takes the sync to its next step; a
\* failure falls back to a full reconcile, with the database read again.
ApiStep(at, next, us, new) ==
    /\ call.at = at
    /\ \/ /\ us = {}
          /\ Goes(next)
          /\ UNCHANGED <<cur, bounds>>
       \/ /\ us # {} /\ Answers
          /\ cur' = [cur EXCEPT !.run.users = new]
          /\ Goes(next)
          /\ UNCHANGED bounds
       \/ /\ us # {} /\ Answers
          /\ Trouble
          /\ Half(cur.run, [cur.run EXCEPT !.users = new])
          /\ Reads("apply")
       \/ /\ us # {} /\ ~Answers
          /\ Reads("apply")
          /\ UNCHANGED <<cur, bounds>>
    /\ UNCHANGED <<host, files, dying, orphan, pending, loop, op, marks, latches, want, ask,
                   applied, configErr, revoked>>

Gone == applied \ call.cfg.users
New == call.cfg.users \ applied
RemoveUsers == ApiStep("remove", "add", Gone, cur.run.users \ Gone)
AddUsers == ApiStep("add", "write", New, cur.run.users \cup New)

\* The file is brought up to date for the next start, unvalidated.
WriteConfig ==
    /\ call.at = "write" /\ MuFree
    /\ \/ /\ disk' = call.cfg
          /\ applied' = call.cfg.users
          /\ Goes("quic")
          /\ UNCHANGED bounds
       \/ /\ Trouble
          /\ Reads("apply")
          /\ UNCHANGED <<disk, applied>>
    /\ UNCHANGED <<host, bak, proc, loop, op, marks, latches, want, ask, configErr, revoked>>

\* The users of QUIC inbounds and tunnels; a failure there forgets what was applied.
SyncQuic ==
    /\ call.at = "quic"
    /\ \/ /\ Goes("idle") /\ configErr' = FALSE
          /\ UNCHANGED <<appliedCfg, bounds>>
       \/ /\ IF Answers THEN Trouble ELSE UNCHANGED bounds
          /\ appliedCfg' = IF Running THEN None ELSE appliedCfg
          /\ Reads("apply")
          /\ UNCHANGED configErr
    /\ UNCHANGED <<host, files, proc, loop, op, fresh, recent, rolledBack, latches, want, ask,
                   applied, revoked>>

(* A node: the agent's sync loop *)

\* A pushed state, again and again until it is applied; the boot applies the saved one
\* on a node that is switched off too.
Push ==
    /\ host = "node" /\ Idle /\ ask # "no"
    /\ ~suspended \/ ~Booted
    /\ ask' = IF Booted THEN ask ELSE "full"
    /\ Reads("raw")
    /\ UNCHANGED <<host, files, proc, loop, op, marks, latches, want, applied, configErr, revoked, bounds>>

\* ApplyRawLive: the configuration of the file is left alone, and a change of users or of
\* custom inbounds goes to the running Xray and to the file; anything else, and whatever
\* failed, goes through ApplyRaw.
RawUnchanged ==
    /\ call.at = "raw" /\ MuFree /\ Running /\ disk = call.cfg
    /\ Returns(TRUE)
    /\ UNCHANGED <<host, files, proc, loop, op, marks, latches, bounds>>

RawCanLive == Running /\ disk # call.cfg /\ (disk.base = call.cfg.base \/ LiveBases(call.cfg))

RawLive ==
    /\ call.at = "raw" /\ MuFree /\ RawCanLive /\ Answers
    /\ call.cfg.base \notin Broken
    /\ cur' = [cur EXCEPT !.run = Changed(cur.run, disk, call.cfg)]
    /\ disk' = call.cfg
    /\ Returns(TRUE)
    /\ UNCHANGED <<host, bak, dying, orphan, pending, loop, op, marks, latches, bounds>>

RawFailedForgets ==
    /\ call.at = "raw" /\ MuFree /\ RawCanLive
    /\ IF Answers /\ call.cfg.base \notin Broken THEN Trouble ELSE UNCHANGED bounds
    /\ IF Answers THEN Half(cur.run, Changed(cur.run, disk, call.cfg)) ELSE UNCHANGED cur
    /\ Goes("apply")
    /\ UNCHANGED <<host, files, dying, orphan, pending, loop, op, marks, latches, want, ask,
                   applied, configErr, revoked>>

RawFailed ==
    /\ call.at = "raw" /\ MuFree /\ RawCanLive
    /\ IF Answers /\ call.cfg.base \notin Broken THEN Trouble ELSE UNCHANGED bounds
    /\ IF Answers THEN Half(cur.run, Changed(cur.run, disk, call.cfg)) ELSE UNCHANGED cur
    /\ call' = [call EXCEPT !.at = "apply", !.tried = TRUE]
    /\ UNCHANGED <<host, files, dying, orphan, pending, loop, op, marks, latches, want, ask,
                   applied, configErr, revoked>>

RawOther ==
    /\ call.at = "raw" /\ MuFree
    /\ ~Running \/ (disk # call.cfg /\ ~RawCanLive)
    /\ Goes("apply")
    /\ UNCHANGED <<host, files, proc, loop, op, marks, latches, want, ask, applied, configErr,
                   revoked, bounds>>

\* ApplyRaw refused the configuration a live change had begun on: back to the file.
BackToFile ==
    /\ call.at = "back" /\ MuFree
    /\ Hold("caller", "restart", disk)
    /\ Goes("rewind")
    /\ UNCHANGED <<host, files, proc, loop, marks, latches, want, ask, applied, configErr,
                   revoked, bounds>>

\* The panel switches the node off, and on again; a start that failed is tried again with
\* the next answer.
Suspend ==
    /\ host = "node" /\ Idle /\ MuFree /\ ~revoked /\ Booted /\ Change
    /\ suspended' = TRUE
    /\ Hold("caller", "stop", disk)
    /\ Goes("wait")
    /\ UNCHANGED <<host, files, proc, loop, marks, closed, due, want, ask, applied, configErr, revoked>>

Resume ==
    /\ host = "node" /\ Idle /\ MuFree /\ revoked /\ Booted
    /\ IF suspended THEN Change ELSE UNCHANGED bounds
    /\ suspended' = FALSE
    /\ Hold("caller", "restart", disk)
    /\ Goes("wait")
    /\ UNCHANGED <<host, files, proc, loop, marks, closed, due, want, ask, applied, configErr, revoked>>

Process_ == Load \/ Fails \/ Healthy \/ Promote \/ Age
Restarter(l) == Monitor(l) \/ Decide(l) \/ Roll(l) \/ Top(l) \/ Wake(l)
Operation == Halt \/ Reap \/ StartProc \/ Note
Other == Restart \/ WatchdogTick \/ WatchdogRestart \/ Stop \/ ChangeUsers \/ ChangeBase
Applying == ApplySame \/ ApplyRefused \/ ApplyLive \/ Apply
Master == Reconcile \/ SyncUsers \/ RemoveUsers \/ AddUsers \/ WriteConfig \/ SyncQuic
Node == Push \/ RawUnchanged \/ RawLive \/ RawFailed \/ RawOther \/ BackToFile \/ Suspend \/ Resume

Next == Process_ \/ (\E l \in Loops : Restarter(l)) \/ Operation \/ Other \/ Applying \/ Master \/ Node

Spec == Init /\ [][Next]_vars

\* Every loop, handler and operation that has begun goes on; so does Xray's start, and
\* time.  Nobody has to ask for anything, and nothing has to fail by itself.
FairSpec ==
    /\ Spec
    /\ WF_vars(Load) /\ WF_vars(Promote) /\ WF_vars(Age)
    /\ \A l \in Loops : WF_vars(Restarter(l))
    /\ WF_vars(Operation) /\ WF_vars(WatchdogTick) /\ WF_vars(WatchdogRestart)
    /\ WF_vars(Applying) /\ WF_vars(Master) /\ WF_vars(Node)

TypeOK ==
    /\ host \in Hosts
    /\ disk \in Config /\ bak \in Config \cup {None}
    /\ cur \in Process \cup {None}
    /\ dying \in BOOLEAN /\ orphan \in BOOLEAN
    /\ pending \subseteq Config
    /\ loop \in [Loops -> Goroutine]
    /\ op \in Holder \cup {None}
    /\ appliedCfg \in Config \cup {None}
    /\ fresh \in BOOLEAN /\ recent \in BOOLEAN /\ rolledBack \in BOOLEAN
    /\ suspended \in BOOLEAN /\ closed \in BOOLEAN /\ due \in BOOLEAN
    /\ want \in Config /\ ask \in {"boot", "no", "sync", "full"}
    /\ applied \subseteq Users
    /\ configErr \in BOOLEAN /\ revoked \in BOOLEAN
    /\ call \in Handler
    /\ changes \in 0..MaxChanges /\ trouble \in 0..MaxTrouble

\* Whoever starts Xray - a caller, a restart loop that was asleep, a rollback - there is
\* never a second process, which would fight the first for its ports and that no field
\* of the supervisor would ever stop.
OneProcess == ~orphan

\* Off means off: on a node the panel switched off, and on a host that is shutting down,
\* nothing runs once the operation that stopped it is over, whichever restart loop,
\* rollback, renewed certificate or pushed configuration comes after it.
SwitchedOff == (suspended \/ closed) /\ MuFree => ~Alive /\ ~dying /\ ~orphan

\* The agent compares a pushed state with the file and leaves Xray alone when they are
\* the same, so between two applies the Xray that runs on a node must be running the
\* file: after live changes that failed half way, crashes, rollbacks and refused pushes.
NodeRunsDisk == host = "node" /\ call.at \in {"idle", "raw"} /\ MuFree /\ Answers => cur.run = disk

\* A crash is never the end of it: whatever operation got in the way of the restart loop,
\* Xray is started again unless somebody switched it off.
ComesBack == \A l \in Loops : loop[l].at # "none" ~> Running \/ suspended \/ closed

Settled == /\ changes = MaxChanges /\ trouble = MaxTrouble
           /\ call.at = "idle" /\ ask = "no" /\ MuFree /\ ~due /\ pending = {}

\* A user sync can put a configuration on the disk Xray does not load, which comes out at
\* some later restart.  When nothing else happens and there is a copy that works, the
\* rollback brings Xray back.
Recovers ==
    \A l \in Loops :
        ( /\ Settled /\ ~Running /\ ~suspended /\ ~closed
          /\ loop[l].at = "decide" /\ loop[l].quick
          /\ disk.base \in Broken /\ bak # None /\ bak.base \in Fine /\ ~rolledBack
        ) ~> Answers

\* What the manager says of its live sync ("falling back to a full reconcile on any error
\* so Xray never drifts from the DB"): when there is nothing left to apply and nothing
\* was refused, the Xray that runs has the users of the database.
NeverDrifts ==
    host = "master" /\ call.at = "idle" /\ ask = "no" /\ ~configErr /\ MuFree /\ Answers
        => cur.run.users = want.users
=============================================================================
