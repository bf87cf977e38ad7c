------------------------------- MODULE Runner -------------------------------
(***************************************************************************)
(* Who starts a backup, when, and how the daemon stops: the schedule and   *)
(* the shutdown of internal/daemon/daemon.go, the one-job slot of          *)
(* internal/daemon/runner.go, the run lock of internal/syncer/lock.go, and *)
(* `gpb sync` in a process of its own.  What a run does is SyncRun's; here *)
(* it is the row it leaves in sync_runs.                                   *)
(*                                                                         *)
(* Time is the number of scheduled moments that have passed; a row carries *)
(* the one it was started after.                                           *)
(***************************************************************************)
EXTENDS Naturals

CONSTANTS
    Events,    \* what can happen: subset of EventKinds
    MaxDays,   \* bound: scheduled moments in a behaviour
    MaxJobs    \* bound: requests, commands, shutdowns, kills and statements the store refuses

EventKinds == {"page", "cli", "shutdown", "kill", "fails", "full"}

ASSUME RunnerConstants == Events \subseteq EventKinds /\ MaxDays \in Nat /\ MaxJobs \in Nat

VARIABLES
    day,        \* scheduled moments passed
    last,       \* the last row of sync_runs: nothing reads the ones before it
    flock,      \* who holds the run lock: "none", "daemon", "cli"
    daemon,     \* "down", "up", "stopping", "waiting" or "closed"
    slot,       \* Runner.activity, "none" when nothing runs
    job,        \* the goroutine launch started
    cancelled,  \* the job's context is cancelled
    sched,      \* the schedule's goroutine
    request,    \* a page's request being served, or "none"
    cli,        \* a `gpb sync` process
    left,       \* what is left of the bounds
    cutOff,     \* history: who made the last backup that was cut off, "none" once another has begun
    tries       \* history: backups the schedule has launched since the last reason to launch one

vars == <<day, last, flock, daemon, slot, job, cancelled, sched, request, cli, left, cutOff, tries>>

(* owner is the run that will finish the row: "daemon", "cli", or "none" once
   it is finished, its process is dead or the store did not take the finish.
   began (history) tells a backup from an attempt that never became one. *)
NoRow == [owner |-> "none", day |-> 0, outcome |-> "norow", began |-> FALSE]

RunnerInit ==
    /\ day = 0 /\ last = NoRow
    /\ flock = "none" /\ daemon = "down"
    /\ slot = "none" /\ job = "none" /\ cancelled = FALSE
    /\ sched = "idle" /\ request = "none"
    /\ cli = "none"
    /\ left = [days |-> MaxDays, jobs |-> MaxJobs]
    /\ cutOff = "none" /\ tries = 0

Spend == left.jobs > 0 /\ left' = [left EXCEPT !.jobs = @ - 1]

(* The store answers a statement, or refuses it: it is closed, or its disk is
   full. *)
StoreAnswers == daemon # "closed" /\ UNCHANGED left

StoreRefuses ==
    \/ daemon = "closed" /\ UNCHANGED left
    \/ daemon # "closed" /\ "full" \in Events /\ Spend

StartRunRow(by) == last' = [owner |-> by, day |-> day, outcome |-> "open", began |-> TRUE]

(* A row a later one has followed is finished unseen. *)
FinishRunRow(by, outcome) ==
    last' = IF last.owner = by THEN [last EXCEPT !.owner = "none", !.outcome = outcome] ELSE last

(* Faulty variant of Owed: only a run that was killed counts as cut off. *)
OwedUnlessFinished == last.outcome \in {"norow", "open"} \/ last.day < day

(* backupOwed's switch, from the last row alone. *)
Owed == last.outcome \in {"norow", "open", "interrupted"} \/ last.day < day

(* The row stays open, and nobody is left to finish it. *)
Disown(by) == last' = IF last.owner = by THEN [last EXCEPT !.owner = "none"] ELSE last

-----------------------------------------------------------------------------
(* The schedule: a tick looks at the slot, then at the last row, then asks
   for a run.  Its select may still take a tick as the context is done, and
   what it then does is not waited for. *)

Tick ==
    /\ daemon \in {"up", "stopping"} /\ sched = "idle"
    /\ slot = "none"
    /\ sched' = "read"
    /\ UNCHANGED <<day, last, flock, daemon, slot, job, cancelled, request, cli, left, cutOff, tries>>

(* Faulty variant of ReadLastRun: a backup that was started is not owed again that day. *)
ReadLastRunByDayOnly ==
    /\ sched = "read"
    /\ \/ StoreAnswers /\ sched' = IF last.outcome = "norow" \/ last.day < day THEN "start" ELSE "idle"
       \/ StoreRefuses /\ sched' = "idle"
    /\ UNCHANGED <<day, last, flock, daemon, slot, job, cancelled, request, cli, cutOff, tries>>

(* A query that fails is asked again at the next tick. *)
ReadLastRun ==
    /\ sched = "read"
    /\ \/ StoreAnswers /\ sched' = IF Owed THEN "start" ELSE "idle"
       \/ StoreRefuses /\ sched' = "idle"
    /\ UNCHANGED <<day, last, flock, daemon, slot, job, cancelled, request, cli, cutOff, tries>>

(* claim, then the goroutine; a slot that is taken refuses. *)
Launch(activity) ==
    IF slot = "none"
    THEN slot' = activity /\ job' = "lock" /\ cancelled' = FALSE
    ELSE UNCHANGED <<slot, job, cancelled>>

StartBackup ==
    /\ sched = "start"
    /\ Launch("sync")
    /\ sched' = "idle"
    /\ tries' = IF slot = "none" THEN tries + 1 ELSE tries
    /\ UNCHANGED <<day, last, flock, daemon, request, cli, left, cutOff>>

Schedule == Tick \/ ReadLastRun \/ StartBackup

(* A request accepted while the server listens is served even after it has
   stopped listening: nothing waits for the handlers. *)
RequestArrives(activity) ==
    /\ daemon = "up" /\ request = "none" /\ left.jobs > 0 /\ "page" \in Events
    /\ request' = activity
    /\ left' = [left EXCEPT !.jobs = @ - 1]
    /\ UNCHANGED <<day, last, flock, daemon, slot, job, cancelled, sched, cli, cutOff, tries>>

RequestServed ==
    /\ request # "none"
    /\ Launch(request)
    /\ request' = "none"
    /\ tries' = IF request = "sync" /\ slot = "none" THEN 0 ELSE tries
    /\ UNCHANGED <<day, last, flock, daemon, sched, cli, left, cutOff>>

-----------------------------------------------------------------------------
(* The job: run, StartSync's work, StartLinking's, and release. *)

(* Faulty variant of FailsToStart: a backup that did not start leaves no row. *)
FailsToStartUnseen(outcome) ==
    /\ job' = "release"
    /\ UNCHANGED <<last, left, cutOff, tries>>

(* recordFailureToStart, for a backup: StartRun and FinishRun, and each may be
   refused.  The other jobs leave no row.  Nothing here picks up a backup that
   was cut off. *)
FailsToStart(outcome) ==
    /\ job' = "release"
    /\ \/ /\ slot # "sync" /\ UNCHANGED <<last, left, cutOff, tries>>
       \/ /\ slot = "sync" /\ StoreAnswers
          /\ last' = [owner |-> "none", day |-> day, outcome |-> outcome, began |-> FALSE]
          /\ cutOff' = IF outcome = "interrupted" THEN "daemon" ELSE cutOff
          /\ tries' = IF outcome = "interrupted" THEN 0 ELSE tries
       \/ /\ slot = "sync" /\ StoreRefuses
          /\ \/ UNCHANGED last
             \/ /\ daemon # "closed"
                /\ last' = [owner |-> "none", day |-> day, outcome |-> "open", began |-> FALSE]
          /\ tries' = 0 /\ UNCHANGED cutOff

(* Faulty variant of TakeLock: the slot is taken for guard enough. *)
TakeNoLock ==
    /\ job = "lock"
    /\ job' = IF slot = "linking" THEN "link" ELSE "connect"
    /\ flock' = IF flock = "none" THEN "daemon" ELSE flock
    /\ UNCHANGED <<day, last, daemon, slot, cancelled, sched, request, cli, left, cutOff, tries>>

TakeLock ==
    /\ job = "lock"
    /\ \/ /\ flock = "none"
          /\ flock' = "daemon" /\ job' = IF slot = "linking" THEN "link" ELSE "connect"
          /\ UNCHANGED <<last, left, cutOff, tries>>
       \/ /\ flock # "none"
          /\ FailsToStart("error") /\ UNCHANGED flock
    /\ UNCHANGED <<day, daemon, slot, cancelled, sched, request, cli>>

Connect ==
    /\ job = "connect"
    /\ \/ /\ ~cancelled
          /\ job' = "begin" /\ UNCHANGED <<last, left, cutOff, tries>>
       \/ /\ cancelled /\ FailsToStart("interrupted")
       \/ /\ "fails" \in Events /\ ~cancelled
          /\ \E outcome \in {"auth_required", "error"} : FailsToStart(outcome)
    /\ UNCHANGED <<day, flock, daemon, slot, cancelled, sched, request, cli>>

(* A backup opens its row, and if it cannot, ends there: what follows it, the
   links and the copies, is done all the same.  A refresh or a listing writes
   no row. *)
Begin ==
    /\ job = "begin"
    /\ \/ /\ slot # "sync"
          /\ job' = "work" /\ UNCHANGED <<last, slot, left, cutOff, tries>>
       \/ /\ slot = "sync" /\ StoreAnswers
          /\ StartRunRow("daemon")
          /\ job' = "work" /\ cutOff' = "none" /\ UNCHANGED <<slot, tries>>
       \/ /\ slot = "sync" /\ StoreRefuses
          /\ slot' = "linking" /\ job' = "link"
          /\ tries' = 0 /\ UNCHANGED <<last, cutOff>>
    /\ UNCHANGED <<day, flock, daemon, cancelled, sched, request, cli>>

(* A backup closes its row, or leaves it open when the store refuses, then
   goes on to link copies under the same slot and lock.  It may end
   interrupted without being cancelled: at its item limit it cancels its own
   listing.  "ok" and "error" stand for every ending the schedule takes for an
   answer. *)
WorkEnds ==
    /\ job = "work"
    /\ \/ /\ slot # "sync"
          /\ job' = "release" /\ UNCHANGED <<last, slot, left, cutOff, tries>>
       \/ \E outcome \in {"interrupted", "ok", "error"} :
            /\ slot = "sync"
            /\ slot' = "linking" /\ job' = "link"
            /\ cutOff' = IF outcome = "interrupted" THEN "daemon" ELSE cutOff
            /\ \/ /\ StoreAnswers /\ FinishRunRow("daemon", outcome)
                  /\ tries' = IF outcome = "interrupted" THEN 0 ELSE tries
               \/ /\ StoreRefuses /\ Disown("daemon")
                  /\ tries' = 0
    /\ UNCHANGED <<day, flock, daemon, cancelled, sched, request, cli>>

LinkingEnds ==
    /\ job = "link"
    /\ job' = "release"
    /\ UNCHANGED <<day, last, flock, daemon, slot, cancelled, sched, request, cli, left, cutOff, tries>>

Release ==
    /\ job = "release"
    /\ flock' = IF flock = "daemon" THEN "none" ELSE flock
    /\ slot' = "none" /\ job' = "none" /\ cancelled' = FALSE
    /\ UNCHANGED <<day, last, daemon, sched, request, cli, left, cutOff, tries>>

Job == TakeLock \/ Connect \/ Begin \/ WorkEnds \/ LinkingEnds \/ Release

-----------------------------------------------------------------------------
(* The daemon's life: Run and its defers, and Runner.Stop. *)

StartDaemon ==
    /\ daemon = "down"
    /\ daemon' = "up"
    /\ UNCHANGED <<day, last, flock, slot, job, cancelled, sched, request, cli, left, cutOff, tries>>

Shutdown ==
    /\ daemon = "up" /\ "shutdown" \in Events /\ Spend
    /\ daemon' = "stopping"
    /\ UNCHANGED <<day, last, flock, slot, job, cancelled, sched, request, cli, cutOff, tries>>

(* Faulty variant of StopCancels: waits to catch the schedule between ticks. *)
StopCancelsBetweenTicks ==
    /\ daemon = "stopping" /\ sched = "idle"
    /\ daemon' = "waiting"
    /\ cancelled' = (cancelled \/ slot # "none")
    /\ UNCHANGED <<day, last, flock, slot, job, sched, request, cli, left, cutOff, tries>>

StopCancels ==
    /\ daemon = "stopping"
    /\ daemon' = "waiting"
    /\ cancelled' = (cancelled \/ slot # "none")
    /\ UNCHANGED <<day, last, flock, slot, job, sched, request, cli, left, cutOff, tries>>

(* The wait is over when nothing is in flight; then the store is closed. *)
StopWaits ==
    /\ daemon = "waiting" /\ job = "none"
    /\ daemon' = "closed"
    /\ UNCHANGED <<day, last, flock, slot, job, cancelled, sched, request, cli, left, cutOff, tries>>

Gone ==
    /\ daemon' = "down"
    /\ flock' = IF flock = "daemon" THEN "none" ELSE flock
    /\ slot' = "none" /\ job' = "none" /\ cancelled' = FALSE
    /\ sched' = "idle" /\ request' = "none" /\ tries' = 0

Exit ==
    /\ daemon = "closed"
    /\ Gone
    /\ UNCHANGED <<day, last, cli, left, cutOff>>

(* Killed in the middle of a backup, which leaves its row open. *)
Killed ==
    /\ daemon # "down" /\ "kill" \in Events /\ Spend
    /\ Gone
    /\ cutOff' = IF job = "work" /\ slot = "sync" THEN "daemon" ELSE cutOff
    /\ Disown("daemon")
    /\ UNCHANGED <<day, cli>>

-----------------------------------------------------------------------------
(* `gpb sync`: the lock, the warmup, a run of its own. *)

CliLocks ==
    /\ cli = "none" /\ "cli" \in Events /\ Spend
    /\ flock = "none"
    /\ flock' = "cli" /\ cli' = "connect"
    /\ UNCHANGED <<day, last, daemon, slot, job, cancelled, sched, request, cutOff, tries>>

CliConnects ==
    /\ cli = "connect"
    /\ \/ /\ StartRunRow("cli")
          /\ cli' = "work"
          /\ cutOff' = "none" /\ tries' = 0 /\ UNCHANGED flock
       \/ /\ "fails" \in Events
          /\ cli' = "none" /\ flock' = "none" /\ UNCHANGED <<last, cutOff, tries>>
    /\ UNCHANGED <<day, daemon, slot, job, cancelled, sched, request, left>>

(* Its store is its own connection, open until it ends. *)
CliEnds ==
    /\ cli = "work"
    /\ \E outcome \in {"ok", "interrupted"} :
        /\ \/ FinishRunRow("cli", outcome) /\ UNCHANGED left
           \/ Disown("cli") /\ "full" \in Events /\ Spend
        /\ IF outcome = "interrupted" THEN cutOff' = "cli" /\ tries' = 0 ELSE UNCHANGED <<cutOff, tries>>
    /\ cli' = "none" /\ flock' = "none"
    /\ UNCHANGED <<day, daemon, slot, job, cancelled, sched, request>>

CliKilled ==
    /\ cli # "none" /\ "kill" \in Events /\ Spend
    /\ cli' = "none" /\ flock' = "none"
    /\ IF cli = "work" THEN cutOff' = "cli" /\ tries' = 0 ELSE UNCHANGED <<cutOff, tries>>
    /\ Disown("cli")
    /\ UNCHANGED <<day, daemon, slot, job, cancelled, sched, request>>

Cli == CliLocks \/ CliConnects \/ CliEnds \/ CliKilled

(* The scheduled moment comes round. *)
NextDay ==
    /\ left.days > 0
    /\ left' = [left EXCEPT !.days = @ - 1]
    /\ day' = day + 1 /\ tries' = 0
    /\ UNCHANGED <<last, flock, daemon, slot, job, cancelled, sched, request, cli, cutOff>>

RunnerNext ==
    \/ Schedule \/ Job \/ Cli \/ NextDay
    \/ RequestServed \/ \E activity \in {"sync", "linking", "refresh"} : RequestArrives(activity)
    \/ StartDaemon \/ Shutdown \/ StopCancels \/ StopWaits \/ Exit \/ Killed

RunnerSpec == RunnerInit /\ [][RunnerNext]_vars

(* The ticker keeps ticking, a job makes progress and is bounded by its
   timeout, a handler returns, and a command ends. *)
RunnerFairness ==
    /\ WF_vars(Tick) /\ WF_vars(ReadLastRun) /\ WF_vars(StartBackup)
    /\ WF_vars(Job) /\ WF_vars(RequestServed) /\ WF_vars(CliConnects) /\ WF_vars(CliEnds)
    /\ WF_vars(StopCancels) /\ WF_vars(StopWaits) /\ WF_vars(Exit)

FairRunnerSpec == RunnerSpec /\ RunnerFairness

-----------------------------------------------------------------------------
(* Properties. *)

(* The rows, the slot and the schedule keep their types: a row that has been
   finished always says how. *)
RunnerTypeOK ==
    /\ day \in 0..MaxDays /\ tries \in Nat
    /\ last \in [owner : {"none", "daemon", "cli"}, day : 0..MaxDays,
                outcome : {"norow", "open", "ok", "error", "auth_required", "interrupted"},
                began : BOOLEAN]
    /\ flock \in {"none", "daemon", "cli"}
    /\ daemon \in {"down", "up", "stopping", "waiting", "closed"}
    /\ slot \in {"none", "sync", "linking", "refresh"}
    /\ job \in {"none", "lock", "connect", "begin", "work", "link", "release"}
    /\ sched \in {"idle", "read", "start"} /\ cancelled \in BOOLEAN
    /\ cli \in {"none", "connect", "work"}

(* The schedule launches at most one backup for each reason it has: a
   scheduled moment, a backup that ended interrupted, a backup asked for by
   hand, a start of the daemon, and a row the store did not take.  A lock that
   is held, a profile, a session or Google failing are no such reason: it does
   not launch a browser every minute for a backup that cannot start.  The last
   reason is the exception to that: while a full disk takes no rows, every
   tick launches another backup, and nothing in the code bounds it. *)
NoRestartStorm == tries <= 1

(* Whoever works on the pool holds the run lock, in this process or another,
   whatever was refused, killed or stopped before; and the slot is free
   exactly when no job is left to free it. *)
OneRunAtATime ==
    /\ job \in {"connect", "begin", "work", "link"} => flock = "daemon"
    /\ cli # "none" => flock = "cli"
    /\ slot = "none" <=> job = "none"

AttemptSaysWhyNot == ~last.began /\ last.outcome \in {"error", "auth_required"}

(* A backup that was cut off, the daemon's own or a `gpb sync`, killed or told
   to stop, is never taken for done, whatever stops, starts and fails after
   it: until another backup has begun it is owed, or the last row is a later
   attempt that did not become a backup and says why.  That exception is the
   code's: the attempt's row, of a lock `gpb sync` held for instance, hides the
   one that was cut off, and the schedule waits for its next moment. *)
CutOffIsOwed == cutOff # "none" => Owed \/ AttemptSaysWhyNot

(* What is owed is attempted, if the daemon stays up. *)
OwedIsAttempted == Owed /\ daemon = "up" ~> (~Owed \/ daemon # "up" \/ slot = "sync")

(* A daemon told to stop stops: the wait for the job in flight ends. *)
StopReturns == daemon = "stopping" ~> daemon = "down"
=============================================================================
