------------------------- MODULE XraySupervisorProofs -------------------------
(***************************************************************************)
(* Theorems about XraySupervisor, for every set of configurations, of      *)
(* users and of restart loops, and any number of changes, restarts,        *)
(* crashes, wedges and failed calls.                                       *)
(*                                                                         *)
(* The argument follows runMu.  Phases says what the holder of runMu has   *)
(* done to the process; Off that a supervisor switched off has no process  *)
(* except while an operation is about to take it down; AsFile that on a    *)
(* node the process runs the file except while the agent is in the middle  *)
(* of putting right a live change that failed, or somebody is about to     *)
(* restart it.  Each of them is kept by every step with the help of the    *)
(* one before.                                                             *)
(***************************************************************************)
EXTENDS XraySupervisor, TLAPS

CallerTyped ==
    /\ want \in Config /\ ask \in {"boot", "no", "sync", "full"}
    /\ applied \subseteq Users
    /\ configErr \in BOOLEAN /\ revoked \in BOOLEAN
    /\ call \in Handler

BoundsTyped == changes \in 0..MaxChanges /\ trouble \in 0..MaxTrouble

\* A loop that is about to roll back has something to roll back to.
Backed == \A l \in Loops : loop[l].at = "roll" => bak # None

At(s) == op # None /\ op.at = s

Phases ==
    /\ ~orphan
    /\ dying => At("reap")
    /\ At("reap") \/ At("start") => ~Running

Off == suspended \/ closed => ~Running \/ At("halt")

\* The agent is between a live change that failed and the restart that follows it, or
\* a restart is about to begin.
InBetween == (call.at = "apply" /\ call.tried) \/ call.at = "back" \/ At("halt")

AsFile ==
    host = "node" =>
        /\ call.at \in {"idle", "raw", "apply", "back", "rewind", "wait"}
        /\ op # None /\ op.by = "caller" => call.at \in {"wait", "rewind"}
        /\ Answers => cur.run = disk \/ InBetween

IInv == Phases /\ Off /\ AsFile

-----------------------------------------------------------------------------
(* Type correctness *)

LEMMA InitTyped == Init => TypeOK
<1> SUFFICES ASSUME Init PROVE TypeOK
  OBVIOUS
<1>1. disk \in Config /\ bak \in Config \cup {None}
  BY DEF Init, Config, Fine
<1>2. loop \in [Loops -> Goroutine]
  BY DEF Init, Goroutine, NoLoop
<1>3. call \in Handler
  BY <1>1 DEF Init, Handler
<1>4. BoundsTyped
  BY BasesAssumption DEF Init, BoundsTyped
<1>5. suspended \in BOOLEAN /\ revoked \in BOOLEAN
  BY DEF Init
<1>6. ask \in {"boot", "no", "sync", "full"}
  BY DEF Init
<1> QED
  BY <1>1, <1>2, <1>3, <1>4, <1>5, <1>6 DEF Init, TypeOK, BoundsTyped

LEMMA BoundsKept ==
  ASSUME TypeOK, Trouble \/ Change \/ UNCHANGED bounds
  PROVE  BoundsTyped'
  BY BasesAssumption DEF TypeOK, Trouble, Change, bounds, BoundsTyped

\* What the end of an operation leaves of the caller and of runMu.
LEMMA ReturnsTyped ==
  ASSUME TypeOK, NEW ok \in BOOLEAN, Returns(ok)
  PROVE  CallerTyped'
<1>1. call' \in Handler
  BY DEF TypeOK, Returns, Handler
<1>2. applied' \subseteq Users /\ configErr' \in BOOLEAN
  BY DEF TypeOK, Returns, Handler, Config
<1> QED
  BY <1>1, <1>2 DEF TypeOK, Returns, CallerTyped

LEMMA ReleaseTyped ==
  ASSUME TypeOK, NEW ok \in BOOLEAN, Release(ok)
  PROVE  CallerTyped' /\ op' = None
<1>1. CASE UNCHANGED caller
  BY <1>1 DEF TypeOK, Release, CallerTyped, caller
<1>2. CASE Returns(ok)
  BY <1>2, ReturnsTyped DEF Release
<1>3. CASE Resumes(ok)
  <2>1. call' \in Handler
    BY <1>3 DEF TypeOK, Resumes, Handler
  <2>2. revoked' \in BOOLEAN
    BY <1>3 DEF TypeOK, Resumes
  <2> QED
    BY <1>3, <2>1, <2>2 DEF TypeOK, Resumes, Release, CallerTyped
<1> QED
  BY <1>1, <1>2, <1>3 DEF Release

LEMMA LaunchTyped ==
  ASSUME TypeOK, NEW d \in Config, Launch(d)
  PROVE  cur' \in Process /\ orphan' \in BOOLEAN
  BY DEF TypeOK, Launch, Process, Alive, Running

LEMMA ChangedTyped ==
  ASSUME NEW r \in Config, NEW old \in Config, NEW new \in Config
  PROVE  Changed(r, old, new) \in Config
  BY DEF Changed, Config

\* A call of the API changes the configuration the process runs, if anything.
LEMMA RunTyped ==
  ASSUME TypeOK, Running, NEW new \in Config,
         cur' = [cur EXCEPT !.run = new] \/ Half(cur.run, new)
  PROVE  cur' \in Process
  BY DEF TypeOK, Running, Half, Process

LEMMA ProcessTyped ==
  ASSUME TypeOK, Process_
  PROVE  TypeOK'
<1>1. CASE Load
  <2>1. cur' \in Process
    BY <1>1 DEF Load, TypeOK, Running, Process
  <2> QED
    BY <1>1, <2>1 DEF Load, TypeOK, files, marks, latches, caller, bounds
<1>2. CASE Fails
  <2>1. cur' \in Process
    BY <1>2 DEF Fails, TypeOK, Alive, Running, Process
  <2>2. BoundsTyped'
    BY <1>2, BoundsKept DEF Fails
  <2> QED
    BY <1>2, <2>1, <2>2 DEF Fails, TypeOK, BoundsTyped, files, marks, latches, caller
<1>3. CASE Healthy
  <2>1. cur' \in Process /\ cur.cfg \in Config
    BY <1>3 DEF Healthy, TypeOK, Answers, Running, Process
  <2>2. pending' \subseteq Config
    BY <1>3, <2>1 DEF Healthy, TypeOK
  <2> QED
    BY <1>3, <2>1, <2>2 DEF Healthy, TypeOK, files, marks, latches, caller, bounds
<1>4. CASE Promote
  BY <1>4 DEF Promote, TypeOK, marks, latches, caller, bounds
<1>5. CASE Age
  <2>1. recent' \in BOOLEAN
    BY <1>5 DEF Age
  <2> QED
    BY <1>5, <2>1 DEF Age, TypeOK, files, proc, latches, caller, bounds
<1> QED
  BY <1>1, <1>2, <1>3, <1>4, <1>5 DEF Process_

LEMMA LoopTyped ==
  ASSUME TypeOK, NEW l \in Loops
  PROVE  /\ \A at \in {"none", "decide", "roll", "top", "sleep"} :
               [loop EXCEPT ![l].at = at] \in [Loops -> Goroutine]
         /\ [loop EXCEPT ![l] = NoLoop] \in [Loops -> Goroutine]
<1>1. loop \in [Loops -> Goroutine] /\ loop[l] \in Goroutine
  BY DEF TypeOK
<1>2. ASSUME NEW at \in {"none", "decide", "roll", "top", "sleep"}
      PROVE  [loop EXCEPT ![l].at = at] \in [Loops -> Goroutine]
  <2>1. [loop[l] EXCEPT !.at = at] \in Goroutine
    BY <1>1 DEF Goroutine
  <2> QED
    BY <1>1, <2>1
<1>3. NoLoop \in Goroutine
  BY DEF NoLoop, Goroutine
<1> QED
  BY <1>1, <1>2, <1>3

LEMMA RestarterTyped ==
  ASSUME TypeOK, Backed, NEW l \in Loops, Restarter(l)
  PROVE  TypeOK'
<1> DEFINE Keeps == loop' \in [Loops -> Goroutine]
<1>1. CASE Monitor(l)
  <2>1. Keeps
    BY <1>1 DEF Monitor, TypeOK, Goroutine, Process, Running
  <2>2. fresh' \in BOOLEAN
    BY <1>1 DEF Monitor, TypeOK, Process, Running
  <2> QED
    BY <1>1, <2>1, <2>2 DEF Monitor, TypeOK, files, latches, caller, bounds
<1>2. CASE Decide(l)
  <2>1. Keeps
    BY <1>2 DEF Decide, TypeOK, Goroutine
  <2> QED
    BY <1>2, <2>1 DEF Decide, TypeOK, files, proc, marks, latches, caller, bounds
<1>3. CASE Roll(l)
  <2>1. Keeps
    BY <1>3, LoopTyped DEF Roll
  <2>2. BoundsTyped'
    BY <1>3, BoundsKept DEF Roll
  <2>3. bak \in Config
    BY <1>3 DEF Roll, TypeOK, Backed
  <2>4. disk' \in Config /\ bak' = bak
    BY <1>3, <2>3 DEF Roll, TypeOK, files
  <2>5. cur' \in Process \cup {None} /\ orphan' \in BOOLEAN
    BY <1>3, <2>3, LaunchTyped DEF Roll, TypeOK, proc
  <2>6. rolledBack' \in BOOLEAN /\ UNCHANGED <<dying, pending>>
    BY <1>3 DEF Roll, TypeOK, proc
  <2> QED
    BY <1>3, <2>1, <2>2, <2>3, <2>4, <2>5, <2>6
    DEF Roll, TypeOK, BoundsTyped, latches, caller
<1>4. CASE Top(l)
  <2>1. Keeps
    BY <1>4, LoopTyped DEF Top
  <2>2. fresh' \in BOOLEAN
    BY <1>4 DEF Top, TypeOK
  <2> QED
    BY <1>4, <2>1, <2>2 DEF Top, TypeOK, files, proc, latches, caller, bounds
<1>5. CASE Wake(l)
  <2>1. Keeps
    BY <1>5, LoopTyped DEF Wake
  <2>2. BoundsTyped'
    BY <1>5, BoundsKept DEF Wake
  <2>3. disk \in Config
    BY DEF TypeOK
  <2>4. cur' \in Process \cup {None} /\ orphan' \in BOOLEAN
    BY <1>5, <2>3, LaunchTyped DEF Wake, TypeOK
  <2> QED
    BY <1>5, <2>1, <2>2, <2>4 DEF Wake, TypeOK, BoundsTyped, files, marks, latches, caller
<1> QED
  BY <1>1, <1>2, <1>3, <1>4, <1>5 DEF Restarter

LEMMA HoldTyped ==
  ASSUME NEW by \in {"caller", "other"}, NEW kind \in {"apply", "restart", "stop"},
         NEW cfg \in Config, Hold(by, kind, cfg)
  PROVE  op' \in Holder
  BY DEF Hold, Holder

LEMMA OperationTyped ==
  ASSUME TypeOK, Operation
  PROVE  TypeOK'
<1>1. CASE Halt
  <2>1. op' \in Holder
    BY <1>1 DEF Halt, TypeOK, Holder
  <2>2. dying' \in BOOLEAN /\ fresh' \in BOOLEAN
    BY <1>1 DEF Halt, TypeOK, Alive, Running
  <2> QED
    BY <1>1, <2>1, <2>2 DEF Halt, TypeOK, files, latches, caller, bounds
<1>2. CASE Reap
  <2>1. op' \in Holder \cup {None} /\ CallerTyped'
    BY <1>2, ReleaseTyped DEF Reap, TypeOK, Holder, caller, CallerTyped
  <2> QED
    BY <1>2, <2>1 DEF Reap, TypeOK, CallerTyped, files, marks, latches, bounds
<1>3. CASE StartProc
  <2>1. Begun => op' \in Holder \cup {None} /\ CallerTyped'
    BY <1>3, ReleaseTyped DEF StartProc, Begun, TypeOK, Holder, caller, CallerTyped
  <2>2. op' \in Holder \cup {None} /\ CallerTyped'
    BY <1>3, <2>1, ReleaseTyped DEF StartProc
  <2>3. BoundsTyped'
    BY <1>3, BoundsKept DEF StartProc
  <2>4. disk \in Config
    BY DEF TypeOK
  <2>5. cur' \in Process \cup {None} /\ orphan' \in BOOLEAN
    BY <1>3, <2>4, LaunchTyped DEF StartProc, TypeOK
  <2> QED
    BY <1>3, <2>2, <2>3, <2>5 DEF StartProc, TypeOK, CallerTyped, BoundsTyped, files, marks, latches
<1>4. CASE Note
  <2>1. op' = None /\ CallerTyped'
    BY <1>4, ReleaseTyped DEF Note
  <2>2. appliedCfg' \in Config
    BY <1>4 DEF Note, TypeOK, Holder
  <2> QED
    BY <1>4, <2>1, <2>2 DEF Note, TypeOK, CallerTyped, files, proc, latches, bounds
<1> QED
  BY <1>1, <1>2, <1>3, <1>4 DEF Operation

LEMMA OtherTyped ==
  ASSUME TypeOK, Other
  PROVE  TypeOK'
<1>0. disk \in Config
  BY DEF TypeOK
<1>1. CASE Restart
  BY <1>0, <1>1, BoundsKept, HoldTyped
  DEF Restart, TypeOK, BoundsTyped, files, proc, marks, latches, caller
<1>2. CASE WatchdogTick
  BY <1>2 DEF WatchdogTick, TypeOK, files, proc, marks, caller, bounds
<1>3. CASE WatchdogRestart
  <2>1. op' \in Holder
    BY <1>0, <1>3, HoldTyped DEF WatchdogRestart
  <2>2. due' \in BOOLEAN
    BY <1>3 DEF WatchdogRestart
  <2> QED
    BY <1>3, <2>1, <2>2 DEF WatchdogRestart, TypeOK, files, proc, marks, caller, bounds
<1>4. CASE Stop
  BY <1>0, <1>4, BoundsKept, HoldTyped
  DEF Stop, TypeOK, BoundsTyped, files, proc, marks, caller
<1>5. CASE ChangeUsers
  <2>1. want' \in Config
    BY <1>5 DEF ChangeUsers, TypeOK, Config
  <2>2. ask' \in {"boot", "no", "sync", "full"}
    BY <1>5 DEF ChangeUsers, Asks, TypeOK
  <2>3. BoundsTyped'
    BY <1>5, BoundsKept DEF ChangeUsers
  <2> QED
    BY <1>5, <2>1, <2>2, <2>3 DEF ChangeUsers, TypeOK, BoundsTyped, files, proc, marks, latches
<1>6. CASE ChangeBase
  <2>1. want' \in Config
    BY <1>6 DEF ChangeBase, TypeOK, Config
  <2>2. ask' \in {"boot", "no", "sync", "full"}
    BY <1>6 DEF ChangeBase, Asks, TypeOK
  <2>3. BoundsTyped'
    BY <1>6, BoundsKept DEF ChangeBase
  <2> QED
    BY <1>6, <2>1, <2>2, <2>3 DEF ChangeBase, TypeOK, BoundsTyped, files, proc, marks, latches
<1> QED
  BY <1>1, <1>2, <1>3, <1>4, <1>5, <1>6 DEF Other

LEMMA GoesTyped ==
  ASSUME TypeOK,
         \/ \E at \in {"idle", "raw", "apply", "back", "rewind", "wait", "remove", "add", "write",
                       "quic"} : Goes(at) \/ Reads(at)
         \/ call' = [call EXCEPT !.at = "apply", !.tried = TRUE]
  PROVE  call' \in Handler
<1>1. call \in Handler /\ want \in Config
  BY DEF TypeOK
<1>2. ASSUME NEW at \in {"idle", "raw", "apply", "back", "rewind", "wait", "remove", "add", "write",
                         "quic"}, Goes(at)
      PROVE  call' \in Handler
  BY <1>1, <1>2 DEF Goes, Handler
<1>3. ASSUME NEW at \in {"idle", "raw", "apply", "back", "rewind", "wait", "remove", "add", "write",
                         "quic"}, Reads(at)
      PROVE  call' \in Handler
  BY <1>1, <1>3 DEF Reads, Handler
<1>4. CASE call' = [call EXCEPT !.at = "apply", !.tried = TRUE]
  BY <1>1, <1>4 DEF Handler
<1> QED
  BY <1>2, <1>3, <1>4

LEMMA ApplyingTyped ==
  ASSUME TypeOK, Applying
  PROVE  TypeOK'
<1>0. call.cfg \in Config /\ disk \in Config
  BY DEF TypeOK, Handler
<1>a. Running => cur \in Process /\ cur.run \in Config
  BY DEF TypeOK, Running, Process
<1>1. CASE ApplySame
  <2>1. CallerTyped'
    BY <1>1, ReturnsTyped DEF ApplySame
  <2> QED
    BY <1>1, <2>1 DEF ApplySame, TypeOK, CallerTyped, files, proc, latches, bounds
<1>2. CASE ApplyRefused
  <2>1. CallerTyped' /\ BoundsTyped'
    BY <1>2, ReturnsTyped, BoundsKept DEF ApplyRefused
  <2> QED
    BY <1>2, <2>1 DEF ApplyRefused, TypeOK, CallerTyped, BoundsTyped, files, proc, marks, latches
<1>3. CASE ApplyLive
  <2>1. CallerTyped'
    BY <1>3, ReturnsTyped DEF ApplyLive
  <2>2. cur' \in Process
    BY <1>0, <1>a, <1>3, RunTyped, ChangedTyped DEF ApplyLive, Answers
  <2> QED
    BY <1>0, <1>3, <2>1, <2>2 DEF ApplyLive, TypeOK, CallerTyped, latches, bounds
<1>4. CASE Apply
  <2>1. call' \in Handler /\ op' \in Holder
    BY <1>0, <1>4, GoesTyped, HoldTyped DEF Apply
  <2>2. BoundsTyped'
    BY <1>4, BoundsKept DEF Apply
  <2>3. cur' \in Process \cup {None}
    BY <1>0, <1>a, <1>4, RunTyped, ChangedTyped DEF Apply, Answers, TypeOK
  <2> QED
    BY <1>0, <1>4, <2>1, <2>2, <2>3 DEF Apply, TypeOK, BoundsTyped, marks, latches
<1> QED
  BY <1>1, <1>2, <1>3, <1>4 DEF Applying

LEMMA ApiStepTyped ==
  ASSUME TypeOK, NEW at \in {"remove", "add"}, NEW next \in {"add", "write"}, NEW us,
         NEW new, Running => new \subseteq Users, ApiStep(at, next, us, new)
  PROVE  TypeOK'
<1>1. call' \in Handler
  BY GoesTyped DEF ApiStep
<1>2. BoundsTyped'
  BY BoundsKept DEF ApiStep
<1>3. cur' \in Process \cup {None}
  <2>1. CASE UNCHANGED cur
    BY <2>1 DEF TypeOK
  <2>2. CASE ~UNCHANGED cur
    <3>1. Running /\ cur \in Process /\ cur.run \in Config
      BY <2>2 DEF ApiStep, Answers, Running, TypeOK, Process
    <3>2. [cur.run EXCEPT !.users = new] \in Config
      BY <3>1 DEF Config
    <3>3. cur' = [cur EXCEPT !.run.users = new] => cur' \in Process
      BY <3>1, <3>2 DEF Process, Config
    <3> QED
      BY <2>2, <3>1, <3>2, <3>3, RunTyped DEF ApiStep
  <2> QED
    BY <2>1, <2>2
<1> QED
  BY <1>1, <1>2, <1>3 DEF ApiStep, TypeOK, BoundsTyped, files, marks, latches

LEMMA MasterTyped ==
  ASSUME TypeOK, Master
  PROVE  TypeOK'
<1>0. call.cfg \in Config
  BY DEF TypeOK, Handler
<1>1. CASE Reconcile
  BY <1>1, GoesTyped DEF Reconcile, TypeOK, files, proc, marks, latches, bounds
<1>2. CASE SyncUsers
  <2>1. call' \in Handler
    BY <1>2, GoesTyped DEF SyncUsers, TypeOK
  <2> QED
    BY <1>2, <2>1 DEF SyncUsers, TypeOK, files, proc, marks, latches, bounds
<1>3. CASE RemoveUsers
  <2>1. Running => cur.run.users \ Gone \subseteq Users
    BY DEF TypeOK, Running, Process, Config
  <2> QED
    BY <1>3, <2>1, ApiStepTyped DEF RemoveUsers
<1>4. CASE AddUsers
  <2>1. Running => cur.run.users \cup New \subseteq Users
    BY <1>0 DEF TypeOK, Running, Process, Config, New
  <2> QED
    BY <1>4, <2>1, ApiStepTyped DEF AddUsers
<1>5. CASE WriteConfig
  <2>1. call' \in Handler /\ BoundsTyped'
    BY <1>5, GoesTyped, BoundsKept DEF WriteConfig
  <2>2. disk' \in Config /\ applied' \subseteq Users
    BY <1>0, <1>5 DEF WriteConfig, TypeOK, Config
  <2> QED
    BY <1>5, <2>1, <2>2 DEF WriteConfig, TypeOK, BoundsTyped, proc, marks, latches
<1>6. CASE SyncQuic
  <2>1. call' \in Handler /\ BoundsTyped'
    BY <1>6, GoesTyped, BoundsKept DEF SyncQuic
  <2>2. appliedCfg' \in Config \cup {None} /\ configErr' \in BOOLEAN
    BY <1>6 DEF SyncQuic, TypeOK
  <2> QED
    BY <1>6, <2>1, <2>2 DEF SyncQuic, TypeOK, BoundsTyped, files, proc, latches
<1> QED
  BY <1>1, <1>2, <1>3, <1>4, <1>5, <1>6 DEF Master

LEMMA NodeTyped ==
  ASSUME TypeOK, Node
  PROVE  TypeOK'
<1>0. call.cfg \in Config /\ disk \in Config
  BY DEF TypeOK, Handler
<1>a. Running => cur \in Process /\ cur.run \in Config
  BY DEF TypeOK, Running, Process
<1>1. CASE Push
  BY <1>1, GoesTyped DEF Push, TypeOK, files, proc, marks, latches, bounds
<1>2. CASE RawUnchanged
  <2>1. CallerTyped'
    BY <1>2, ReturnsTyped DEF RawUnchanged
  <2> QED
    BY <1>2, <2>1 DEF RawUnchanged, TypeOK, CallerTyped, files, proc, marks, latches, bounds
<1>3. CASE RawLive
  <2>1. CallerTyped'
    BY <1>3, ReturnsTyped DEF RawLive
  <2>2. cur' \in Process
    BY <1>0, <1>a, <1>3, RunTyped, ChangedTyped DEF RawLive, Answers
  <2> QED
    BY <1>0, <1>3, <2>1, <2>2 DEF RawLive, TypeOK, CallerTyped, marks, latches, bounds
<1>4. CASE RawFailed
  <2>1. call' \in Handler /\ BoundsTyped'
    BY <1>4, GoesTyped, BoundsKept DEF RawFailed
  <2>2. cur' \in Process \cup {None}
    BY <1>0, <1>a, <1>4, RunTyped, ChangedTyped DEF RawFailed, Answers, TypeOK
  <2> QED
    BY <1>4, <2>1, <2>2 DEF RawFailed, TypeOK, BoundsTyped, files, marks, latches
<1>5. CASE RawOther
  BY <1>5, GoesTyped DEF RawOther, TypeOK, files, proc, marks, latches, bounds
<1>6. CASE BackToFile
  BY <1>0, <1>6, GoesTyped, HoldTyped DEF BackToFile, TypeOK, files, proc, marks, latches, bounds
<1>7. CASE Suspend
  <2>1. call' \in Handler /\ op' \in Holder /\ BoundsTyped'
    BY <1>0, <1>7, GoesTyped, HoldTyped, BoundsKept DEF Suspend
  <2> QED
    BY <1>7, <2>1 DEF Suspend, TypeOK, BoundsTyped, files, proc, marks
<1>8. CASE Resume
  <2>1. call' \in Handler /\ op' \in Holder /\ BoundsTyped'
    BY <1>0, <1>8, GoesTyped, HoldTyped, BoundsKept DEF Resume
  <2>2. suspended' \in BOOLEAN
    BY <1>8 DEF Resume
  <2> QED
    BY <1>8, <2>1, <2>2 DEF Resume, TypeOK, BoundsTyped, files, proc, marks
<1> QED
  BY <1>1, <1>2, <1>3, <1>4, <1>5, <1>6, <1>7, <1>8 DEF Node

Typed == TypeOK /\ Backed

\* The copy is never taken away.
LEMMA BackedKept ==
  ASSUME TypeOK, Backed, [Next]_vars
  PROVE  Backed'
<1>1. /\ disk # None
      /\ \A c \in pending : c # None
  BY NoneAssumption DEF TypeOK
<1>2. CASE Process_
  BY <1>1, <1>2 DEF Process_, Load, Fails, Healthy, Promote, Age, Backed, files
<1>3. CASE \E l \in Loops : Restarter(l)
  <2> PICK l \in Loops : Restarter(l)
    BY <1>3
  <2>1. CASE Decide(l)
    BY <2>1 DEF Decide, ShouldRollback, Backed, TypeOK, files
  <2>2. CASE ~Decide(l)
    <3>1. loop \in [Loops -> Goroutine]
      BY DEF TypeOK
    <3>2. \A k \in Loops : loop'[k].at = "roll" => loop[k].at = "roll"
      BY <2>2, <3>1 DEF Restarter, Monitor, Roll, Top, Wake, NoLoop, Goroutine
    <3>3. bak' = bak
      BY <2>2 DEF Restarter, Monitor, Roll, Top, Wake, files
    <3> QED
      BY <3>2, <3>3 DEF Backed
  <2> QED
    BY <2>1, <2>2
<1>4. CASE Operation
  BY <1>4 DEF Operation, Halt, Reap, StartProc, Note, Backed, files
<1>5. CASE Other
  BY <1>5 DEF Other, Restart, WatchdogTick, WatchdogRestart, Stop, ChangeUsers, ChangeBase, Backed, files
<1>6. CASE Applying
  BY <1>1, <1>6 DEF Applying, ApplySame, ApplyRefused, ApplyLive, Apply, Backed, files
<1>7. CASE Master
  BY <1>7 DEF Master, Reconcile, SyncUsers, RemoveUsers, AddUsers, ApiStep, WriteConfig, SyncQuic,
              Backed, files
<1>8. CASE Node
  BY <1>8 DEF Node, Push, RawUnchanged, RawLive, RawFailed, RawOther, BackToFile, Suspend, Resume,
              Backed, files
<1>9. CASE UNCHANGED vars
  BY <1>9 DEF vars, files, Backed
<1> QED
  BY <1>2, <1>3, <1>4, <1>5, <1>6, <1>7, <1>8, <1>9 DEF Next

LEMMA NextTyped == Typed /\ [Next]_vars => Typed'
<1> SUFFICES ASSUME TypeOK, Backed, [Next]_vars PROVE TypeOK'
  BY BackedKept DEF Typed
<1>1. CASE UNCHANGED vars
  BY <1>1 DEF TypeOK, vars, files, proc, marks, latches, caller, bounds
<1> QED
  BY <1>1, ProcessTyped, RestarterTyped, OperationTyped, OtherTyped, ApplyingTyped, MasterTyped,
     NodeTyped DEF Next

\* TypeOK holds in every state.
THEOREM TypeCorrect == Spec => []TypeOK
<1>1. Init => Backed
  BY DEF Init, Backed, NoLoop
<1> QED
  BY <1>1, InitTyped, NextTyped, PTL DEF Spec, Typed

-----------------------------------------------------------------------------
(* The holder of runMu and the process *)

LEMMA InitStrong == Init => IInv
<1> SUFFICES ASSUME Init PROVE IInv
  OBVIOUS
<1> QED
  BY DEF Init, IInv, Phases, Off, AsFile, At, Running, Answers

\* Whoever gives runMu up leaves the process alone.
LEMMA ReleaseHolder ==
  ASSUME NEW ok \in BOOLEAN, Release(ok)
  PROVE  ~At("halt")' /\ ~At("reap")' /\ ~At("start")'
  BY DEF Release, At

\* Whoever takes it is about to stop the process.
LEMMA HoldHalts ==
  ASSUME NEW by \in {"caller", "other"}, NEW kind \in {"apply", "restart", "stop"},
         NEW cfg \in Config, Hold(by, kind, cfg)
  PROVE  At("halt")' /\ ~At("reap")' /\ ~At("start")'
<1>1. op' \in Holder
  BY HoldTyped
<1> QED
  BY <1>1, NoneAssumption DEF Hold, At

LEMMA PhasesKept ==
  ASSUME Typed, Phases, Off, [Next]_vars
  PROVE  Phases'
<1>0. TypeOK /\ disk \in Config /\ call.cfg \in Config
  BY DEF Typed, TypeOK, Handler
<1>1. CASE Process_
  BY <1>1 DEF Process_, Load, Fails, Healthy, Promote, Age, Phases, At, Running, Answers, Alive, proc
<1>2. CASE \E l \in Loops : Restarter(l)
  <2> PICK l \in Loops : Restarter(l)
    BY <1>2
  <2>1. CASE Monitor(l) \/ Decide(l) \/ Top(l)
    BY <2>1 DEF Monitor, Decide, Top, Phases, At, Running, proc
  <2>2. CASE Roll(l) \/ Wake(l)
    <3>1. ~dying /\ MuFree /\ UNCHANGED <<op, dying>>
      BY <2>2 DEF Roll, Wake, MuFree, Phases, At, proc
    <3>2. ~orphan'
      BY <2>2, <3>1 DEF Roll, Wake, Superseded, Launch, Phases, Running, Alive, proc
    <3> QED
      BY <3>1, <3>2 DEF Phases, At, MuFree
  <2> QED
    BY <2>1, <2>2 DEF Restarter
<1>3. CASE Halt
  <2>1. At("reap")' /\ ~At("start")'
    BY <1>0, <1>3, NoneAssumption DEF Halt, At, TypeOK, Holder
  <2> QED
    BY <1>3, <2>1 DEF Halt, Phases, Running
<1>4. CASE Reap
  BY <1>4, ReleaseHolder DEF Reap, Phases, At, Running
<1>5. CASE StartProc
  <2>1. ~At("reap")' /\ ~At("start")'
    BY <1>5, <1>0, ReleaseHolder DEF StartProc, Begun, At, TypeOK, Holder
  <2>2. ~orphan' /\ ~dying'
    <3>1. ~dying /\ ~Alive /\ UNCHANGED dying
      BY <1>5 DEF StartProc, Phases, At, Alive
    <3> QED
      <4>1. CASE Launch(disk)
        BY <3>1, <4>1 DEF Launch, Phases
      <4>2. CASE UNCHANGED orphan
        BY <3>1, <4>2 DEF Phases
      <4> QED
        BY <1>5, <4>1, <4>2 DEF StartProc
  <2> QED
    BY <2>1, <2>2 DEF Phases
<1>6. CASE Note
  BY <1>6, ReleaseHolder DEF Note, Phases, At, Running, proc
<1>7. CASE Other
  BY <1>7 DEF Other, Restart, WatchdogTick, WatchdogRestart, Stop, ChangeUsers, ChangeBase, Hold,
              MuFree, Phases, At, Running, proc
<1>8. CASE Applying
  <2>1. CASE Apply
    <3>1. At("halt")' /\ ~At("reap")' /\ ~At("start")'
      BY <1>0, <2>1, HoldHalts DEF Apply
    <3> QED
      BY <2>1, <3>1 DEF Apply, MuFree, Phases, At
  <2>2. CASE ApplySame \/ ApplyRefused \/ ApplyLive
    <3>1. op = None /\ UNCHANGED <<op, dying, orphan>>
      BY <2>2 DEF ApplySame, ApplyRefused, ApplyLive, MuFree, proc
    <3> QED
      BY <3>1 DEF Phases, At
  <2> QED
    BY <1>8, <2>1, <2>2 DEF Applying
<1>9. CASE Master
  <2>1. CASE RemoveUsers \/ AddUsers
    BY <2>1 DEF RemoveUsers, AddUsers, ApiStep, Half, Phases, At, Running, Answers
  <2>2. CASE Reconcile \/ SyncUsers \/ WriteConfig \/ SyncQuic
    BY <2>2 DEF Reconcile, SyncUsers, WriteConfig, SyncQuic, Phases, At, Running, proc
  <2> QED
    BY <1>9, <2>1, <2>2 DEF Master
<1>10. CASE Node
  <2>1. CASE BackToFile \/ Suspend \/ Resume
    <3>1. At("halt")' /\ ~At("reap")' /\ ~At("start")'
      BY <1>0, <2>1, HoldHalts DEF BackToFile, Suspend, Resume
    <3> QED
      BY <2>1, <3>1 DEF BackToFile, Suspend, Resume, MuFree, Phases, At, proc
  <2>2. CASE Push \/ RawUnchanged \/ RawLive \/ RawFailed \/ RawOther
    <3>1. CASE Push
      BY <3>1 DEF Push, Phases, At, Running, proc
    <3>2. CASE ~Push
      <4>1. op = None /\ UNCHANGED <<op, dying, orphan>>
        BY <2>2, <3>2 DEF RawUnchanged, RawLive, RawFailed, RawOther, MuFree, proc
      <4> QED
        BY <4>1 DEF Phases, At
    <3> QED
      BY <3>1, <3>2
  <2> QED
    BY <1>10, <2>1, <2>2 DEF Node
<1>11. CASE UNCHANGED vars
  BY <1>11 DEF vars, proc, Phases, At, Running
<1> QED
  BY <1>1, <1>2, <1>3, <1>4, <1>5, <1>6, <1>7, <1>8, <1>9, <1>10, <1>11 DEF Next, Operation

LEMMA OffKept ==
  ASSUME Typed, Phases, Off, [Next]_vars
  PROVE  Off'
<1>0. TypeOK /\ disk \in Config /\ call.cfg \in Config
  BY DEF Typed, TypeOK, Handler
<1>1. CASE Process_
  BY <1>1 DEF Process_, Load, Fails, Healthy, Promote, Age, Off, At, Running, Answers, Alive, proc,
              latches
<1>2. CASE \E l \in Loops : Restarter(l)
  <2> PICK l \in Loops : Restarter(l)
    BY <1>2
  <2> QED
    BY DEF Restarter, Monitor, Decide, Top, Roll, Wake, Superseded, Launch, Off, At, Running, proc,
           latches
<1>3. CASE Halt
  BY <1>3 DEF Halt, Off, Running, latches
<1>4. CASE Reap
  BY <1>4 DEF Reap, Off, At, Phases, Running, latches
<1>5. CASE StartProc
  BY <1>5 DEF StartProc, Ignored, Off, At, Phases, Running, latches
<1>6. CASE Note
  BY <1>6 DEF Note, Off, At, Running, proc, latches
<1>7. CASE Other
  <2>1. CASE Restart \/ WatchdogRestart \/ Stop
    BY <1>0, <2>1, HoldHalts DEF Restart, WatchdogRestart, Stop, Off
  <2>2. CASE WatchdogTick \/ ChangeUsers \/ ChangeBase
    BY <2>2 DEF WatchdogTick, ChangeUsers, ChangeBase, Off, At, Running, proc, latches
  <2> QED
    BY <1>7, <2>1, <2>2 DEF Other
<1>8. CASE Applying
  BY <1>8 DEF Applying, ApplySame, ApplyRefused, ApplyLive, Apply, Hold, MuFree, Off, At, Running,
              Answers, Half, CanLive, proc, latches
<1>9. CASE Master
  <2>1. CASE RemoveUsers \/ AddUsers
    BY <2>1 DEF RemoveUsers, AddUsers, ApiStep, Half, Off, At, Running, Answers, latches
  <2>2. CASE Reconcile \/ SyncUsers \/ WriteConfig \/ SyncQuic
    BY <2>2 DEF Reconcile, SyncUsers, WriteConfig, SyncQuic, Off, At, Running, proc, latches
  <2> QED
    BY <1>9, <2>1, <2>2 DEF Master
<1>10. CASE Node
  <2>1. CASE BackToFile \/ Suspend \/ Resume
    BY <1>0, <2>1, HoldHalts DEF BackToFile, Suspend, Resume, Off
  <2>2. CASE Push \/ RawUnchanged \/ RawLive \/ RawFailed \/ RawOther
    BY <2>2 DEF Push, RawUnchanged, RawLive, RawFailed, RawOther, Off, At, Running, Answers, Half,
                RawCanLive, proc, latches
  <2> QED
    BY <1>10, <2>1, <2>2 DEF Node
<1>11. CASE UNCHANGED vars
  BY <1>11 DEF vars, proc, latches, Off, At, Running
<1> QED
  BY <1>1, <1>2, <1>3, <1>4, <1>5, <1>6, <1>7, <1>8, <1>9, <1>10, <1>11 DEF Next, Operation

-----------------------------------------------------------------------------
(* The file and the process of a node *)

\* A live change of a process that runs the file leaves it running the new one.
LEMMA ChangedIsNew ==
  ASSUME NEW old \in Config, NEW new \in Config
  PROVE  Changed(old, old, new) = new
<1>1. (old.users \ (old.users \ new.users)) \cup (new.users \ old.users) = new.users
  OBVIOUS
<1>2. new = [base |-> new.base, users |-> new.users]
  BY DEF Config
<1> QED
  BY <1>1, <1>2 DEF Changed, Config

\* The end of an operation or of a handler, for the agent.
LEMMA ReturnsOnNode ==
  ASSUME TypeOK, NEW ok \in BOOLEAN, Returns(ok)
  PROVE  /\ call'.at \in {"idle", "back"}
         /\ ~ok /\ call.tried => call'.at = "back"
  BY DEF Returns, TypeOK, Handler

LEMMA ReleaseOnNode ==
  ASSUME TypeOK, NEW ok \in BOOLEAN, Release(ok), call.at \in {"idle", "raw", "apply", "back", "rewind", "wait"}
  PROVE  call'.at \in {"idle", "raw", "apply", "back", "rewind", "wait"}
<1>1. CASE UNCHANGED caller
  BY <1>1 DEF caller
<1>2. CASE Returns(ok)
  BY <1>2, ReturnsOnNode
<1>3. CASE Resumes(ok)
  BY <1>3 DEF Resumes, TypeOK, Handler
<1> QED
  BY <1>1, <1>2, <1>3 DEF Release

LEMMA HostKept == [Next]_vars => host' = host
  BY DEF Next, vars, Process_, Load, Fails, Healthy, Promote, Age, Restarter, Monitor, Decide, Roll,
         Top, Wake, Operation, Halt, Reap, StartProc, Note, Other, Restart, WatchdogTick,
         WatchdogRestart, Stop, ChangeUsers, ChangeBase, Applying, ApplySame, ApplyRefused,
         ApplyLive, Apply, Master, Reconcile, SyncUsers, RemoveUsers, AddUsers, ApiStep,
         WriteConfig, SyncQuic, Node, Push, RawUnchanged, RawLive, RawFailed, RawOther, BackToFile,
         Suspend, Resume

LEMMA AsFileKept ==
  ASSUME Typed, Phases, AsFile, [Next]_vars
  PROVE  AsFile'
<1> SUFFICES ASSUME host = "node", host' = "node" PROVE AsFile'
  BY HostKept DEF AsFile
<1>0. /\ TypeOK /\ disk \in Config /\ call \in Handler /\ call.cfg \in Config
      /\ call.at \in {"idle", "raw", "apply", "back", "rewind", "wait"}
      /\ op # None /\ op.by = "caller" => call.at \in {"wait", "rewind"}
      /\ Answers => cur.run = disk \/ InBetween
      /\ Running => cur \in Process
  BY DEF Typed, TypeOK, Handler, AsFile, Running
<1>1. CASE Process_
  <2>1. UNCHANGED <<call, op, disk>>
    BY <1>1 DEF Process_, Load, Fails, Healthy, Promote, Age, caller, files
  <2>2. Answers' => cur'.run = disk' \/ (Answers /\ cur'.run = cur.run)
    <3>1. CASE Load \/ Fails \/ Healthy
      BY <1>0, <2>1, <3>1 DEF Load, Fails, Healthy, Answers, Running, Alive, Process
    <3>2. CASE Promote \/ Age
      BY <3>2 DEF Promote, Age, Answers, Running, proc
    <3> QED
      BY <1>1, <3>1, <3>2 DEF Process_
  <2> QED
    BY <1>0, <2>1, <2>2 DEF AsFile, InBetween, At
<1>2. CASE \E l \in Loops : Restarter(l)
  <2> PICK l \in Loops : Restarter(l)
    BY <1>2
  <2>1. UNCHANGED <<call, op>>
    BY DEF Restarter, Monitor, Decide, Roll, Top, Wake, caller
  <2>2. Answers' => Answers /\ UNCHANGED <<cur, disk>>
    BY DEF Restarter, Monitor, Decide, Roll, Top, Wake, Superseded, Launch, Answers, Running, proc,
           files
  <2> QED
    BY <1>0, <2>1, <2>2 DEF AsFile, InBetween, At
<1>3. CASE Halt
  BY <1>0, <1>3 DEF Halt, AsFile, Answers, Running, caller
<1>4. CASE Reap
  <2>1. ~Answers'
    BY <1>4 DEF Reap, Phases, At, Answers, Running
  <2> QED
    <3>1. CASE Release(TRUE)
      BY <1>0, <2>1, <3>1, ReleaseOnNode DEF Release, AsFile
    <3>2. CASE op' = [op EXCEPT !.at = "start"] /\ UNCHANGED caller
      BY <1>0, <1>4, <2>1, <3>2 DEF Reap, AsFile, caller, TypeOK, Holder
    <3> QED
      BY <1>4, <3>1, <3>2 DEF Reap
<1>5. CASE StartProc
  <2>1. ~Answers'
    <3>1. ~Running
      BY <1>5 DEF StartProc, Phases, At
    <3>2. cur' = cur \/ Launch(disk)
      BY <1>5 DEF StartProc
    <3> QED
      BY <3>1, <3>2 DEF Launch, Answers, Running
  <2>2. CASE \E ok \in BOOLEAN : Release(ok)
    BY <1>0, <2>1, <2>2, ReleaseOnNode DEF Release, AsFile
  <2>3. CASE op' = [op EXCEPT !.at = "note"] /\ UNCHANGED caller
    BY <1>0, <1>5, <2>1, <2>3 DEF StartProc, AsFile, caller, TypeOK, Holder
  <2> QED
    BY <1>5, <2>2, <2>3 DEF StartProc, Begun
<1>6. CASE Note
  <2>1. Release(TRUE) /\ op # None /\ ~At("halt") /\ UNCHANGED <<cur, disk>>
    BY <1>6 DEF Note, At, files, proc
  <2>2. CASE op.by = "caller"
    BY <1>0, <2>1, <2>2, ReleaseOnNode DEF AsFile, InBetween, Answers, Running, Release
  <2>3. CASE op.by # "caller"
    <3>1. UNCHANGED call /\ op' = None
      BY <1>0, <2>1, <2>3 DEF Release, TypeOK, Holder, caller
    <3> QED
      BY <1>0, <2>1, <3>1 DEF AsFile, InBetween, Answers, Running
  <2> QED
    BY <2>2, <2>3
<1>7. CASE Other
  <2>1. CASE Restart \/ WatchdogRestart \/ Stop
    <3>1. At("halt")' /\ op'.by = "other" /\ UNCHANGED call
      BY <1>0, <2>1, HoldHalts DEF Restart, WatchdogRestart, Stop, Hold, caller
    <3> QED
      BY <1>0, <3>1 DEF AsFile, InBetween
  <2>2. CASE WatchdogTick \/ ChangeUsers \/ ChangeBase
    BY <1>0, <2>2 DEF WatchdogTick, ChangeUsers, ChangeBase, AsFile, InBetween, At, Answers, Running,
                      caller, proc, files
  <2> QED
    BY <1>7, <2>1, <2>2 DEF Other
<1>8. CASE Applying
  <2>1. CASE Apply
    BY <1>0, <2>1, HoldHalts DEF Apply, Goes, AsFile, InBetween, Handler
  <2>2. CASE ApplyRefused
    <3>1. Answers' => cur'.run = disk' \/ (call.tried /\ call.at = "apply")
      BY <1>0, <2>2 DEF ApplyRefused, InBetween, MuFree, At, Answers, Running, proc, files
    <3> QED
      BY <1>0, <2>2, <3>1, ReturnsOnNode DEF ApplyRefused, AsFile, InBetween
  <2>3. ~ApplySame /\ ~ApplyLive
    BY DEF ApplySame, ApplyLive, Same, CanLive
  <2> QED
    BY <1>8, <2>1, <2>2, <2>3 DEF Applying
<1>9. CASE Master
  BY <1>0, <1>9 DEF Master, Reconcile, SyncUsers, RemoveUsers, AddUsers, ApiStep, WriteConfig, SyncQuic
<1>10. CASE Node
  <2>1. CASE Push \/ RawOther
    BY <1>0, <2>1 DEF Push, RawOther, Idle, Reads, Goes, AsFile, InBetween, At, Answers, Running,
                      MuFree, proc, files, Handler
  <2>2. CASE RawUnchanged
    BY <1>0, <2>2, ReturnsOnNode DEF RawUnchanged, AsFile, InBetween, At, MuFree, Answers, Running,
                                     proc, files
  <2>3. CASE RawLive
    <3>1. cur.run = disk
      BY <1>0, <2>3 DEF RawLive, InBetween, At, MuFree
    <3>2. cur' = [cur EXCEPT !.run = call.cfg]
      BY <1>0, <2>3, <3>1, ChangedIsNew DEF RawLive
    <3>3. cur'.run = disk'
      BY <1>0, <2>3, <3>2 DEF RawLive, Answers, Process
    <3> QED
      BY <1>0, <2>3, <3>3, ReturnsOnNode DEF RawLive, AsFile
  <2>4. CASE RawFailed
    BY <1>0, <2>4 DEF RawFailed, AsFile, InBetween, Handler
  <2>5. CASE BackToFile \/ Suspend \/ Resume
    BY <1>0, <2>5, HoldHalts DEF BackToFile, Suspend, Resume, Goes, AsFile, InBetween, Handler
  <2> QED
    BY <1>10, <2>1, <2>2, <2>3, <2>4, <2>5 DEF Node
<1>11. CASE UNCHANGED vars
  BY <1>0, <1>11 DEF vars, proc, files, caller, AsFile, InBetween, At, Answers, Running
<1> QED
  BY <1>1, <1>2, <1>3, <1>4, <1>5, <1>6, <1>7, <1>8, <1>9, <1>10, <1>11 DEF Next, Operation

-----------------------------------------------------------------------------

THEOREM InvariantHolds == Spec => [](Typed /\ IInv)
<1>1. Init => Typed /\ IInv
  <2>1. Init => Backed
    BY DEF Init, Backed, NoLoop
  <2> QED
    BY <2>1, InitTyped, InitStrong DEF Typed
<1>2. Typed /\ IInv /\ [Next]_vars => (Typed /\ IInv)'
  BY NextTyped, PhasesKept, OffKept, AsFileKept DEF IInv
<1> QED
  BY <1>1, <1>2, PTL DEF Spec

\* OneProcess: nobody starts Xray beside another one.
THEOREM NeverTwo == Spec => []OneProcess
<1>1. IInv => OneProcess
  BY DEF IInv, Phases, OneProcess
<1> QED
  BY <1>1, InvariantHolds, PTL

\* SwitchedOff: nothing brings Xray back on a supervisor that is suspended or closed.
THEOREM OffMeansOff == Spec => []SwitchedOff
<1>1. IInv => SwitchedOff
  BY DEF IInv, Phases, Off, SwitchedOff, MuFree, At, Alive, Running
<1> QED
  BY <1>1, InvariantHolds, PTL

\* NodeRunsDisk: between two applies, the Xray of a node runs its file.
THEOREM FileIsWhatRuns == Spec => []NodeRunsDisk
<1>1. IInv => NodeRunsDisk
  BY DEF IInv, AsFile, NodeRunsDisk, InBetween, MuFree, At
<1> QED
  BY <1>1, InvariantHolds, PTL

=============================================================================
