---------------------------- MODULE RunnerProofs ----------------------------
(***************************************************************************)
(* One run at a time, no cut-off backup taken for done and no restart      *)
(* storm, for any number of days, requests, commands, shutdowns, kills and *)
(* rows the store refuses.                                                 *)
(***************************************************************************)
EXTENDS Runner, TLAPS

Rows == [owner : {"none", "daemon", "cli"}, day : Nat,
         outcome : {"norow", "open", "ok", "error", "auth_required", "interrupted"}, began : BOOLEAN]

Types ==
    /\ day \in Nat /\ tries \in Nat
    /\ left \in [days : Nat, jobs : Nat] /\ day + left.days = MaxDays
    /\ last \in Rows
    /\ flock \in {"none", "daemon", "cli"}
    /\ daemon \in {"down", "up", "stopping", "waiting", "closed"}
    /\ slot \in {"none", "sync", "linking", "refresh"}
    /\ job \in {"none", "lock", "connect", "begin", "work", "link", "release"}
    /\ sched \in {"idle", "read", "start"}
    /\ cli \in {"none", "connect", "work"}
    /\ request \in {"none", "sync", "linking", "refresh"}

(* No row is of a scheduled moment that is still to come. *)
RowsAreOfThePast == last.day <= day

(* A backup under way has the last row, still open, and whatever was cut off
   before it has been picked up.  While `gpb sync` works the last row is its
   own, or an attempt its lock refused. *)
BackupHasTheRow ==
    /\ job = "work" /\ slot = "sync" =>
        last.owner = "daemon" /\ last.outcome = "open" /\ cutOff = "none" /\ daemon # "closed"
    /\ cli = "work" => cutOff = "none" /\ (Owed \/ AttemptSaysWhyNot)
    /\ last.owner = "cli" => last.outcome = "open"

BackupUnderWay == slot = "sync" /\ job \in {"lock", "connect", "begin", "work"}

(* Once the schedule has begun a backup, it does not hold a decision to begin
   another; and until something resets the count the backup is still on its
   way, or has left a row that is not owed. *)
Tried ==
    \/ tries = 0
    \/ /\ tries = 1
       /\ BackupUnderWay => sched = "idle" /\ (job = "work" => last.day = day)
       /\ ~BackupUnderWay => ~Owed /\ sched # "start"

RunnerInv ==
    /\ Types
    /\ RowsAreOfThePast
    /\ OneRunAtATime
    /\ BackupHasTheRow
    /\ CutOffIsOwed
    /\ Tried

(* The empty history satisfies the invariant. *)
LEMMA InitInv == RunnerInit => RunnerInv
BY RunnerConstants DEF RunnerInit, NoRow, RunnerInv, Types, Rows, RowsAreOfThePast, OneRunAtATime, BackupHasTheRow,
    CutOffIsOwed, AttemptSaysWhyNot, Tried, BackupUnderWay, Owed

(* An attempt that does not become a backup keeps the invariant, whether or
   not the store takes its row. *)
LEMMA FailureInv ==
  ASSUME RunnerInv, NEW outcome \in {"interrupted", "error", "auth_required"}, FailsToStart(outcome),
         job \in {"lock", "connect"}, outcome = "interrupted" => job = "connect",
         UNCHANGED <<day, flock, daemon, slot, sched, request, cli>>
  PROVE  RunnerInv'
<1> USE RunnerConstants DEF RunnerInv, Types, Rows, RowsAreOfThePast, OneRunAtATime, BackupHasTheRow, CutOffIsOwed,
    AttemptSaysWhyNot, Tried, BackupUnderWay, Owed, StoreAnswers, StoreRefuses, Spend
<1>1. CASE slot # "sync"
  BY <1>1 DEF FailsToStart
<1>2. CASE slot = "sync" /\ StoreAnswers
  <2>1. CASE UNCHANGED left
    <3>1. job' = "release"
      BY DEF FailsToStart
    <3>2. CASE /\ last' = [owner |-> "none", day |-> day, outcome |-> outcome, began |-> FALSE]
               /\ cutOff' = (IF outcome = "interrupted" THEN "daemon" ELSE cutOff)
               /\ tries' = (IF outcome = "interrupted" THEN 0 ELSE tries)
      <4>1. last'.owner = "none" /\ last'.day = day /\ last'.outcome = outcome /\ last'.began = FALSE /\ last' \in Rows
        BY <3>2
      <4>2. Types' /\ RowsAreOfThePast' /\ OneRunAtATime'
        BY <1>2, <3>1, <3>2, <4>1
      <4>3. BackupHasTheRow' /\ CutOffIsOwed'
        BY <1>2, <3>1, <3>2, <4>1
      <4>4. Tried'
        BY <1>2, <3>1, <3>2, <4>1
      <4> QED BY <4>2, <4>3, <4>4
    <3> QED BY <1>2, <3>2 DEF FailsToStart
  <2> QED BY <1>2, <2>1
<1>3. CASE slot = "sync" /\ StoreRefuses
  <2>1. job' = "release" /\ left' \in [days : Nat, jobs : Nat] /\ left'.days = left.days
    BY <1>3 DEF FailsToStart
  <2>2. CASE tries' = 0 /\ cutOff' = cutOff /\ last' = last
    BY <2>1, <2>2
  <2>3. CASE /\ last' = [owner |-> "none", day |-> day, outcome |-> "open", began |-> FALSE]
             /\ tries' = 0 /\ cutOff' = cutOff
    <3>1. last'.owner = "none" /\ last'.day = day /\ last'.outcome = "open" /\ last'.began = FALSE /\ last' \in Rows
      BY <2>3
    <3> QED BY <1>3, <2>1, <2>3, <3>1
  <2>4. CASE /\ last' = [owner |-> "none", day |-> day, outcome |-> outcome, began |-> FALSE]
             /\ UNCHANGED left /\ daemon # "closed"
             /\ cutOff' = (IF outcome = "interrupted" THEN "daemon" ELSE cutOff)
             /\ tries' = (IF outcome = "interrupted" THEN 0 ELSE tries)
    BY <1>2, <1>3, <2>4
  <2> QED BY <1>3, <2>2, <2>3, <2>4 DEF FailsToStart
<1> QED BY <1>1, <1>2, <1>3 DEF FailsToStart

(* Every step of the schedule, the job, the daemon and the command keeps it. *)
LEMMA NextInv == RunnerInv /\ [RunnerNext]_vars => RunnerInv'
<1> SUFFICES ASSUME RunnerInv, [RunnerNext]_vars PROVE RunnerInv'
  OBVIOUS
<1> USE RunnerConstants DEF RunnerInv, Types, Rows, RowsAreOfThePast, OneRunAtATime, BackupHasTheRow, CutOffIsOwed,
    AttemptSaysWhyNot, Tried, BackupUnderWay, Owed, StoreAnswers, StoreRefuses, Spend
<1>1. CASE Tick
  <2>1. /\ daemon \in {"up", "stopping"} /\ slot = "none" /\ sched' = "read"
        /\ UNCHANGED <<day, last, flock, daemon, slot, job, request, cli, left, cutOff, tries>>
    BY <1>1 DEF Tick
  <2>2. Types' /\ RowsAreOfThePast' /\ OneRunAtATime' /\ BackupHasTheRow' /\ CutOffIsOwed'
    BY <2>1
  <2>3. Tried'
    BY <2>1
  <2> QED BY <2>2, <2>3
<1>2. CASE ReadLastRun
  BY <1>2 DEF ReadLastRun
<1>3. CASE StartBackup
  BY <1>3 DEF StartBackup, Launch
<1>4. CASE RequestServed
  BY <1>4 DEF RequestServed, Launch
<1>5. CASE TakeLock
  <2>1. CASE flock = "none"
    <3>1. UNCHANGED last
      BY <1>5, <2>1 DEF TakeLock
    <3> QED BY <1>5, <2>1, <3>1 DEF TakeLock
  <2>2. CASE flock # "none"
    BY <1>5, <2>2, FailureInv DEF TakeLock
  <2> QED BY <2>1, <2>2
<1>6. CASE Connect
  <2>1. CASE job' = "begin" /\ UNCHANGED <<last, left, cutOff, tries>>
    BY <1>6, <2>1 DEF Connect
  <2>2. CASE \E outcome \in {"interrupted", "auth_required", "error"} : FailsToStart(outcome)
    BY <1>6, <2>2, FailureInv DEF Connect
  <2> QED BY <1>6, <2>1, <2>2 DEF Connect
<1>7. CASE Begin
  <2> job = "begin" /\ UNCHANGED <<day, flock, daemon, cancelled, sched, request, cli>>
    BY <1>7 DEF Begin
  <2>1. CASE job' = "work" /\ UNCHANGED <<last, slot, left, cutOff, tries>> /\ slot # "sync"
    BY <2>1
  <2>2. CASE /\ slot = "sync" /\ daemon # "closed" /\ job' = "work" /\ cutOff' = "none"
             /\ StartRunRow("daemon") /\ UNCHANGED <<left, slot, tries>>
    <3>1. last'.owner = "daemon" /\ last'.day = day /\ last'.outcome = "open" /\ last' \in Rows
      BY <2>2 DEF StartRunRow
    <3>2. Types' /\ RowsAreOfThePast' /\ OneRunAtATime'
      BY <2>2, <3>1
    <3>3. BackupHasTheRow' /\ CutOffIsOwed'
      BY <2>2, <3>1
    <3>4. Tried'
      BY <2>2, <3>1
    <3> QED BY <3>2, <3>3, <3>4
  <2>3. CASE slot' = "linking" /\ job' = "link" /\ tries' = 0 /\ StoreRefuses /\ UNCHANGED <<last, cutOff>>
    BY <2>3
  <2> QED BY <1>7, <2>1, <2>2, <2>3 DEF Begin
<1>8. CASE WorkEnds
  <2> job = "work" /\ UNCHANGED <<day, flock, daemon, cancelled, sched, request, cli>>
    BY <1>8 DEF WorkEnds
  <2>1. CASE job' = "release" /\ UNCHANGED <<last, slot, left, cutOff, tries>> /\ slot # "sync"
    BY <2>1
  <2>2. ASSUME NEW outcome \in {"interrupted", "ok", "error"}, slot = "sync",
               slot' = "linking", job' = "link",
               cutOff' = IF outcome = "interrupted" THEN "daemon" ELSE cutOff,
               StoreAnswers, FinishRunRow("daemon", outcome),
               tries' = IF outcome = "interrupted" THEN 0 ELSE tries
        PROVE RunnerInv'
    <3>1. last' = [last EXCEPT !.owner = "none", !.outcome = outcome]
      BY <2>2 DEF FinishRunRow
    <3>2. last'.owner = "none" /\ last'.day = last.day /\ last'.outcome = outcome /\ last' \in Rows
      BY <3>1
    <3>3. Types' /\ RowsAreOfThePast' /\ OneRunAtATime'
      BY <2>2, <3>2
    <3>4. BackupHasTheRow' /\ CutOffIsOwed'
      BY <2>2, <3>2
    <3>5. Tried'
      BY <2>2, <3>2
    <3> QED BY <3>3, <3>4, <3>5
  <2>3. ASSUME NEW outcome \in {"interrupted", "ok", "error"}, slot = "sync",
               slot' = "linking", job' = "link",
               cutOff' = IF outcome = "interrupted" THEN "daemon" ELSE cutOff,
               StoreRefuses, Disown("daemon"), tries' = 0
        PROVE RunnerInv'
    <3>1. last' = [last EXCEPT !.owner = "none"]
      BY <2>3 DEF Disown
    <3>2. last'.owner = "none" /\ last'.day = last.day /\ last'.outcome = "open" /\ last' \in Rows
      BY <2>3, <3>1
    <3> QED BY <2>3, <3>2
  <2> QED BY <1>8, <2>1, <2>2, <2>3 DEF WorkEnds
<1>9. CASE LinkingEnds
  BY <1>9 DEF LinkingEnds
<1>10. CASE Release
  BY <1>10 DEF Release
<1>11. CASE CliLocks
  BY <1>11 DEF CliLocks
<1>12. CASE CliConnects
  <2> cli = "connect" /\ UNCHANGED <<day, daemon, slot, job, cancelled, sched, request, left>>
    BY <1>12 DEF CliConnects
  <2>1. CASE StartRunRow("cli") /\ cli' = "work" /\ cutOff' = "none" /\ tries' = 0 /\ UNCHANGED flock
    <3>1. last'.owner = "cli" /\ last'.day = day /\ last'.outcome = "open" /\ last' \in Rows
      BY <2>1 DEF StartRunRow
    <3> QED BY <2>1, <3>1
  <2>2. CASE cli' = "none" /\ flock' = "none" /\ UNCHANGED <<last, cutOff, tries>>
    BY <2>2
  <2> QED BY <1>12, <2>1, <2>2 DEF CliConnects
<1>13. CASE CliEnds
  <2>1. PICK outcome \in {"ok", "interrupted"} :
          /\ \/ FinishRunRow("cli", outcome) /\ UNCHANGED left
             \/ Disown("cli") /\ Spend
          /\ IF outcome = "interrupted" THEN cutOff' = "cli" /\ tries' = 0 ELSE UNCHANGED <<cutOff, tries>>
    BY <1>13 DEF CliEnds
  <2>2. /\ cli = "work" /\ cli' = "none" /\ flock' = "none"
        /\ UNCHANGED <<day, daemon, slot, job, sched, request>>
        /\ job \notin {"connect", "begin", "work", "link"}
    BY <1>13 DEF CliEnds
  <2>3. /\ last'.day = last.day /\ last'.began = last.began /\ last' \in Rows /\ last'.owner # "cli"
        /\ last'.outcome = last.outcome \/ (last.owner = "cli" /\ last'.outcome = outcome)
    <3>1. CASE last.owner = "cli"
      <4>1. \/ last' = [last EXCEPT !.owner = "none", !.outcome = outcome]
            \/ last' = [last EXCEPT !.owner = "none"]
        BY <2>1, <3>1 DEF FinishRunRow, Disown
      <4> QED BY <4>1, <3>1
    <3>2. CASE last.owner # "cli"
      <4>1. last' = last
        BY <2>1, <3>2 DEF FinishRunRow, Disown
      <4> QED BY <4>1, <3>2
    <3> QED BY <3>1, <3>2
  <2>4. Types' /\ OneRunAtATime' /\ RowsAreOfThePast'
    BY <2>1, <2>2, <2>3
  <2>5. BackupHasTheRow' /\ CutOffIsOwed'
    <3>1. outcome = "ok" => cutOff' = "none"
      BY <2>1, <2>2
    <3>2. outcome = "interrupted" => (Owed \/ AttemptSaysWhyNot)'
      BY <2>2, <2>3
    <3> QED BY <2>2, <2>3, <3>1, <3>2
  <2>6. Tried'
    <3>1. tries' = 0 \/ (tries' = tries /\ outcome = "ok")
      BY <2>1
    <3>2. ~Owed /\ outcome = "ok" => ~Owed'
      BY <2>2, <2>3
    <3> QED BY <2>2, <2>3, <3>1, <3>2
  <2> QED BY <2>4, <2>5, <2>6
<1>14. CASE CliKilled
  BY <1>14 DEF CliKilled, Disown
<1>15. CASE NextDay
  BY <1>15 DEF NextDay
<1>16. CASE StartDaemon
  BY <1>16 DEF StartDaemon
<1>17. CASE Shutdown
  BY <1>17 DEF Shutdown
<1>18. CASE StopCancels
  BY <1>18 DEF StopCancels
<1>19. CASE StopWaits
  BY <1>19 DEF StopWaits
<1>20. CASE Exit
  BY <1>20 DEF Exit, Gone
<1>21. CASE Killed
  BY <1>21 DEF Killed, Gone, Disown
<1>22. CASE \E activity \in {"sync", "linking", "refresh"} : RequestArrives(activity)
  BY <1>22 DEF RequestArrives
<1>23. CASE UNCHANGED vars
  BY <1>23 DEF vars
<1> QED
  BY <1>1, <1>2, <1>3, <1>4, <1>5, <1>6, <1>7, <1>8, <1>9, <1>10, <1>11, <1>12, <1>13, <1>14, <1>15, <1>16, <1>17, <1>18, <1>19, <1>20, <1>21, <1>22, <1>23 DEF RunnerNext, Schedule, Job, Cli

CancelledIsBoolean == cancelled \in BOOLEAN

(* The job's context is cancelled or it is not. *)
LEMMA CancelInv ==
    /\ RunnerInit => CancelledIsBoolean
    /\ CancelledIsBoolean /\ [RunnerNext]_vars => CancelledIsBoolean'
<1> USE DEF CancelledIsBoolean
<1>1. RunnerInit => cancelled \in BOOLEAN
  BY DEF RunnerInit
<1>2. ASSUME cancelled \in BOOLEAN, RunnerNext PROVE cancelled' \in BOOLEAN
  <2>1. \/ cancelled' = cancelled \/ cancelled' = FALSE
        \/ cancelled' = (cancelled \/ slot # "none")
    BY <1>2, Zenon DEF RunnerNext, Schedule, Job, Cli, Tick, ReadLastRun, StartBackup, Launch, RequestServed,
       RequestArrives, TakeLock, Connect, Begin, WorkEnds, LinkingEnds, Release, CliLocks, CliConnects,
       CliEnds, CliKilled, NextDay, StartDaemon, Shutdown, StopCancels, StopWaits, Exit, Killed, Gone
  <2> QED BY <1>2, <2>1, Zenon
<1>3. ASSUME cancelled \in BOOLEAN, UNCHANGED vars PROVE cancelled' \in BOOLEAN
  BY <1>3 DEF vars
<1> QED BY <1>1, <1>2, <1>3

(* The rows, the slot and the schedule keep their types for any bounds. *)
THEOREM RunnerTypeCorrect == RunnerSpec => []RunnerTypeOK
<1>1. RunnerInv /\ CancelledIsBoolean => RunnerTypeOK
  <2> SUFFICES ASSUME RunnerInv, CancelledIsBoolean PROVE RunnerTypeOK
    OBVIOUS
  <2>1. day \in 0..MaxDays /\ last.day \in 0..MaxDays
    BY RunnerConstants DEF RunnerInv, Types, Rows, RowsAreOfThePast
  <2>2. last \in [owner : {"none", "daemon", "cli"}, day : 0..MaxDays,
                  outcome : {"norow", "open", "ok", "error", "auth_required", "interrupted"}, began : BOOLEAN]
    BY <2>1 DEF RunnerInv, Types, Rows
  <2>3. /\ tries \in Nat /\ flock \in {"none", "daemon", "cli"}
        /\ daemon \in {"down", "up", "stopping", "waiting", "closed"}
        /\ slot \in {"none", "sync", "linking", "refresh"}
        /\ job \in {"none", "lock", "connect", "begin", "work", "link", "release"}
        /\ sched \in {"idle", "read", "start"} /\ cli \in {"none", "connect", "work"}
    BY DEF RunnerInv, Types
  <2> QED BY <2>1, <2>2, <2>3, Zenon DEF RunnerTypeOK, CancelledIsBoolean
<1> QED BY <1>1, InitInv, NextInv, CancelInv, PTL DEF RunnerSpec

(* Whoever works on the pool has the run lock: the daemon's backups, linking
   passes and `gpb sync` in another process never overlap. *)
THEOREM PoolIsNotShared == RunnerSpec => []OneRunAtATime
<1>1. RunnerInv => OneRunAtATime
  BY DEF RunnerInv, Types, Tried
<1> QED BY <1>1, InitInv, NextInv, PTL DEF RunnerSpec

(* A backup lost to a kill or a stop, the daemon's or a `gpb sync`, is never
   taken for done: it is owed to the schedule, or hidden by the row of a later
   attempt that says why it did not become a backup. *)
THEOREM CutOffStaysOwed == RunnerSpec => []CutOffIsOwed
<1>1. RunnerInv => CutOffIsOwed
  BY DEF RunnerInv, Types, Tried
<1> QED BY <1>1, InitInv, NextInv, PTL DEF RunnerSpec

(* The schedule launches at most one backup for each reason to, however often
   it ticks while backups cannot start, and a row the store did not take is
   the only failure that is a reason. *)
THEOREM ScheduleIsQuiet == RunnerSpec => []NoRestartStorm
<1>1. RunnerInv => NoRestartStorm
  BY DEF RunnerInv, Types, Tried, NoRestartStorm
<1> QED BY <1>1, InitInv, NextInv, PTL DEF RunnerSpec
=============================================================================
