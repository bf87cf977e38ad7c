--------------------------- MODULE WebLoginProofs ---------------------------
(***************************************************************************)
(* The login guard implements LoginLimit for any number of requests, any   *)
(* passwords and any limit, whatever happens to config.toml meanwhile; and *)
(* config.toml, saved by one at a time, stays whole and keeps its password *)
(* through every stop, kill and full disk.                                 *)
(***************************************************************************)
EXTENDS WebLogin, TLAPS

Underway == {"read", "verify", "charge"}

IsAttempt(x) == \E pc, form, password, hash :
                    x = [pc |-> pc, form |-> form, password |-> password, hash |-> hash]

(* What the mutex is for: only its holder is past the lockout's reading, so
   the lockout cannot begin under an attempt and no two are counted at once. *)
GuardInv ==
    /\ failures \in Nat /\ failures < Limit
    /\ attempt = [r \in Requests |-> attempt[r]]
    /\ \A r \in Requests : IsAttempt(attempt[r])
    /\ \A r \in Requests : attempt[r].pc \in Underway => attempting = r /\ ~locked

Charging == \E r \in Requests : attempt[r].pc = "charge"

(* Moving one request on, and what that leaves of the others. *)
LEMMA MovesOne ==
    ASSUME GuardInv, NEW r \in Requests, NEW pc, Moves(r, pc)
    PROVE  /\ attempt' = [s \in Requests |-> attempt'[s]]
           /\ \A s \in Requests : IsAttempt(attempt'[s])
           /\ attempt'[r].pc = pc
           /\ \A s \in Requests \ {r} : attempt'[s] = attempt[s]
<1>1. attempt' = [s \in Requests |-> IF s = r THEN [attempt[r] EXCEPT !.pc = pc] ELSE attempt[s]]
  BY DEF Moves, GuardInv
<1>2. PICK p, form, password, hash :
        attempt[r] = [pc |-> p, form |-> form, password |-> password, hash |-> hash]
  BY DEF GuardInv, IsAttempt
<1>3. attempt'[r] = [pc |-> pc, form |-> form, password |-> password, hash |-> hash]
  BY <1>1, <1>2
<1>4. IsAttempt(attempt'[r])
  BY <1>3 DEF IsAttempt
<1> QED BY <1>1, <1>3, <1>4 DEF GuardInv

(* Releasing the mutex ends the request's attempt and no other's. *)
LEMMA ReleasesOne ==
    ASSUME GuardInv, NEW r \in Requests, NEW answer, Released(r, answer)
    PROVE  /\ attempt' = [s \in Requests |-> attempt'[s]]
           /\ \A s \in Requests : IsAttempt(attempt'[s])
           /\ attempt'[r].pc \notin Underway
           /\ \A s \in Requests \ {r} : attempt'[s] = attempt[s]
<1>1. attempt' = [s \in Requests |-> IF s = r THEN IF answer = "in" THEN [attempt[r] EXCEPT !.pc = "in"]
                                                   ELSE IdleAttempt
                                     ELSE attempt[s]]
  BY DEF Released, GuardInv
<1>2. PICK p, form, password, hash :
        attempt[r] = [pc |-> p, form |-> form, password |-> password, hash |-> hash]
  BY DEF GuardInv, IsAttempt
<1>3. CASE answer = "in"
  <2>1. attempt'[r] = [pc |-> "in", form |-> form, password |-> password, hash |-> hash]
    BY <1>1, <1>2, <1>3
  <2>2. IsAttempt(attempt'[r])
    BY <2>1 DEF IsAttempt
  <2>3. attempt'[r].pc \notin Underway
    BY <2>1 DEF Underway
  <2> QED BY <1>1, <2>2, <2>3 DEF GuardInv
<1>4. CASE answer # "in"
  <2>1. attempt'[r] = IdleAttempt
    BY <1>1, <1>4
  <2>2. IsAttempt(attempt'[r])
    BY <2>1 DEF IsAttempt, IdleAttempt
  <2>3. attempt'[r].pc \notin Underway
    BY <2>1 DEF Underway, IdleAttempt
  <2> QED BY <1>1, <2>2, <2>3 DEF GuardInv
<1> QED BY <1>3, <1>4

(* A guard nobody is using, as a process starts with. *)
LEMMA FreshGuard ==
    ASSUME attempt = [r \in Requests |-> IdleAttempt], failures = 0, locked = FALSE
    PROVE  GuardInv /\ Tries = 0
<1>1. \A r \in Requests : attempt[r].pc = "idle"
  BY DEF IdleAttempt
<1>2. IsAttempt(IdleAttempt)
  BY DEF IdleAttempt, IsAttempt
<1>3. \A r \in Requests : IsAttempt(attempt[r])
  BY <1>2
<1>4. attempt = [r \in Requests |-> attempt[r]]
  OBVIOUS
<1>5. failures \in Nat /\ failures < Limit
  BY GuardConstants
<1>6. \A r \in Requests : attempt[r].pc \notin Underway
  BY <1>1 DEF Underway
<1>7. GuardInv
  BY <1>3, <1>4, <1>5, <1>6 DEF GuardInv
<1> QED BY <1>1, <1>7 DEF Tries

LEMMA InitGuardInv == WebInit => GuardInv /\ LimitOf!LimitInit
<1> SUFFICES ASSUME WebInit PROVE GuardInv /\ LimitOf!LimitInit
  OBVIOUS
<1>1. attempt = [r \in Requests |-> IdleAttempt] /\ failures = 0 /\ locked = FALSE
  BY DEF WebInit
<1>2. GuardInv /\ Tries = 0
  BY <1>1, FreshGuard
<1> QED BY <1>1, <1>2 DEF LimitOf!LimitInit

(* The shape of a step in which one request moves on and the guard's counter
   and lockout stay: the invariant and the number of tries are kept. *)
LEMMA QuietStep ==
    ASSUME GuardInv, UNCHANGED <<failures, locked>>, NEW r \in Requests,
           attempt' = [s \in Requests |-> attempt'[s]],
           \A s \in Requests : IsAttempt(attempt'[s]),
           \A s \in Requests \ {r} : attempt'[s] = attempt[s],
           attempt[r].pc # "charge", attempt'[r].pc # "charge",
           attempt'[r].pc \in Underway => attempting' = r /\ ~locked,
           \A s \in Requests \ {r} : attempt[s].pc \in Underway => attempting' = s
    PROVE  GuardInv' /\ UNCHANGED <<Tries, locked>>
<1>1. GuardInv'
  BY DEF GuardInv
<1>2. Charging' <=> Charging
  BY DEF Charging
<1> QED BY <1>1, <1>2 DEF Tries, Charging

(* One step of the guard: the invariant is kept, and the step is one of
   LoginLimit or changes nothing of it. *)
LEMMA NextGuardInv ==
    GuardInv /\ [WebNext]_webVars => GuardInv' /\ [LimitOf!LimitNext]_<<Tries, locked>>
<1> SUFFICES ASSUME GuardInv, [WebNext]_webVars
             PROVE  GuardInv' /\ [LimitOf!LimitNext]_<<Tries, locked>>
  OBVIOUS
<1>1. ASSUME UNCHANGED guardVars
      PROVE  GuardInv' /\ UNCHANGED <<Tries, locked>>
  BY <1>1 DEF guardVars, GuardInv, Tries
<1>2. ASSUME NEW r \in Requests, NEW form, NEW password, Post(r, form, password)
      PROVE  GuardInv' /\ UNCHANGED <<Tries, locked>>
  <2>1. /\ attempt' = [s \in Requests |-> IF s = r
                        THEN [pc |-> "waiting", form |-> form, password |-> password, hash |-> None]
                        ELSE attempt[s]]
        /\ attempt[r].pc \in {"idle", "in"}
        /\ UNCHANGED <<attempting, failures, locked>>
    BY <1>2 DEF Post, GuardInv
  <2>2. attempt'[r].pc = "waiting"
    BY <2>1
  <2>3. IsAttempt(attempt'[r])
    BY <2>1 DEF IsAttempt
  <2>4. \A s \in Requests : IsAttempt(attempt'[s])
    BY <2>1, <2>3 DEF GuardInv
  <2> QED BY <2>1, <2>2, <2>4, QuietStep DEF GuardInv, Underway
<1>3. ASSUME NEW r \in Requests, Attempt(r)
      PROVE  GuardInv' /\ UNCHANGED <<Tries, locked>>
  <2>1. /\ attempt[r].pc = "waiting" /\ UNCHANGED <<failures, locked>>
        /\ \A s \in Requests : attempt[s].pc \notin Underway
    BY <1>3, GuardConstants DEF Attempt, GuardInv
  <2>2. CASE locked
    <3>1. Released(r, "refused")
      BY <1>3, <2>2 DEF Attempt
    <3> QED BY <2>1, <3>1, ReleasesOne, QuietStep DEF Underway
  <2>3. CASE ~locked
    <3>1. Moves(r, "read") /\ attempting' = r
      BY <1>3, <2>3 DEF Attempt
    <3> QED BY <2>1, <2>3, <3>1, MovesOne, QuietStep DEF Underway
  <2> QED BY <2>2, <2>3
<1>4. ASSUME NEW r \in Requests, ReadHash(r)
      PROVE  GuardInv' /\ UNCHANGED <<Tries, locked>>
  <2>1. /\ attempt[r].pc = "read" /\ UNCHANGED <<failures, locked>>
        /\ attempting = r /\ ~locked
        /\ \A s \in Requests \ {r} : attempt[s].pc \notin Underway
    BY <1>4 DEF ReadHash, GuardInv, Underway
  <2>2. CASE Released(r, "refused")
    BY <2>1, <2>2, ReleasesOne, QuietStep DEF Underway
  <2>3. CASE /\ attempt' = [attempt EXCEPT ![r].pc = "verify", ![r].hash = PasswordHash]
             /\ UNCHANGED attempting
    <3>1. PICK p, form, password, hash :
            attempt[r] = [pc |-> p, form |-> form, password |-> password, hash |-> hash]
      BY DEF GuardInv, IsAttempt
    <3>a. attempt' = [s \in Requests |-> IF s = r
                        THEN [[attempt[r] EXCEPT !.pc = "verify"] EXCEPT !.hash = PasswordHash]
                        ELSE attempt[s]]
      BY <2>3 DEF GuardInv
    <3>b. [[attempt[r] EXCEPT !.pc = "verify"] EXCEPT !.hash = PasswordHash]
            = [pc |-> "verify", form |-> form, password |-> password, hash |-> PasswordHash]
      <4> DEFINE moved == [attempt[r] EXCEPT !.pc = "verify"]
                 shown == PasswordHash
      <4>1. moved = [pc |-> "verify", form |-> form, password |-> password, hash |-> hash]
        BY <3>1
      <4> HIDE DEF moved, shown
      <4>2. [moved EXCEPT !.hash = shown] = [pc |-> "verify", form |-> form, password |-> password, hash |-> shown]
        BY <4>1
      <4> QED BY <4>2 DEF moved, shown
    <3>2. attempt' = [s \in Requests |-> IF s = r
                        THEN [pc |-> "verify", form |-> form, password |-> password, hash |-> PasswordHash]
                        ELSE attempt[s]]
      BY <3>a, <3>b
    <3>3. attempt'[r].pc = "verify"
      BY <3>2
    <3>4. IsAttempt(attempt'[r])
      BY <3>2 DEF IsAttempt
    <3>5. \A s \in Requests : IsAttempt(attempt'[s])
      BY <3>2, <3>4 DEF GuardInv
    <3> QED BY <2>1, <2>3, <3>2, <3>3, <3>5, QuietStep DEF Underway
  <2> QED BY <1>4, <2>2, <2>3 DEF ReadHash
<1>5. ASSUME NEW r \in Requests, VerifyRight(r)
      PROVE  GuardInv' /\ LimitOf!TryRight
  <2>1. /\ attempt[r].pc = "verify" /\ attempting = r /\ ~locked
        /\ failures' = 0 /\ UNCHANGED locked /\ Released(r, "in")
        /\ \A s \in Requests \ {r} : attempt[s].pc \notin Underway
    BY <1>5 DEF VerifyRight, RecordSuccess, GuardInv, Underway
  <2>2. \A s \in Requests : attempt'[s].pc \notin Underway
    BY <2>1, ReleasesOne
  <2>3. GuardInv'
    BY <2>1, <2>2, ReleasesOne, GuardConstants DEF GuardInv
  <2>4. Tries' = 0
    BY <2>1, <2>2 DEF Tries, Underway
  <2> QED BY <2>1, <2>3, <2>4 DEF LimitOf!TryRight
<1>6. ASSUME NEW r \in Requests, VerifyWrong(r)
      PROVE  GuardInv' /\ LimitOf!TryWrong
  <2>1. /\ attempt[r].pc = "verify" /\ attempting = r /\ ~locked
        /\ UNCHANGED <<attempting, failures, locked>> /\ Moves(r, "charge")
        /\ \A s \in Requests \ {r} : attempt[s].pc \notin Underway
    BY <1>6 DEF VerifyWrong, GuardInv, Underway
  <2>2. GuardInv'
    BY <2>1, MovesOne DEF GuardInv
  <2>3. Tries = failures
    BY <2>1 DEF Tries, Underway
  <2>4. Tries' = failures + 1
    BY <2>1, MovesOne DEF Tries
  <2> QED BY <2>1, <2>2, <2>3, <2>4 DEF LimitOf!TryWrong, GuardInv
<1>7. ASSUME NEW r \in Requests, FailLogin(r)
      PROVE  GuardInv' /\ [LimitOf!LimitNext]_<<Tries, locked>>
  <2>1. /\ attempt[r].pc = "charge" /\ attempting = r /\ ~locked
        /\ RecordFailure /\ Released(r, "refused")
        /\ \A s \in Requests \ {r} : attempt[s].pc \notin Underway
    BY <1>7 DEF FailLogin, GuardInv, Underway
  <2>2. \A s \in Requests : attempt'[s].pc \notin Underway
    BY <2>1, ReleasesOne
  <2>a. failures' \in Nat /\ failures' < Limit
    BY <2>1, GuardConstants DEF GuardInv, RecordFailure
  <2>3. GuardInv'
    BY <2>1, <2>2, <2>a, ReleasesOne DEF GuardInv
  <2>4. Tries = failures + 1 /\ Tries' = failures'
    BY <2>1, <2>2 DEF Tries, Underway
  <2>5. CASE failures + 1 < Limit
    BY <2>1, <2>3, <2>4, <2>5 DEF RecordFailure
  <2>6. CASE ~(failures + 1 < Limit)
    <3>1. failures + 1 = Limit
      BY <2>6, GuardConstants DEF GuardInv
    <3>2. LimitOf!LockOut
      BY <2>1, <2>4, <2>6, <3>1 DEF RecordFailure, LimitOf!LockOut
    <3> QED BY <2>3, <3>2 DEF LimitOf!LimitNext
  <2> QED BY <2>5, <2>6
<1>8. ASSUME LockoutEnds
      PROVE  GuardInv' /\ LimitOf!PeriodEnds
  BY <1>8 DEF LockoutEnds, GuardInv, Tries, LimitOf!PeriodEnds
<1>9. ASSUME RestartGuard
      PROVE  GuardInv' /\ LimitOf!Restart
  <2>1. attempt' = [r \in Requests |-> IdleAttempt] /\ failures' = 0 /\ locked' = FALSE
    BY <1>9 DEF RestartGuard
  <2>2. \A r \in Requests : attempt'[r].pc = "idle"
    BY <2>1 DEF IdleAttempt
  <2>3. IsAttempt(IdleAttempt)
    BY DEF IdleAttempt, IsAttempt
  <2>4. \A r \in Requests : IsAttempt(attempt'[r])
    BY <2>1, <2>3
  <2>5. attempt' = [r \in Requests |-> attempt'[r]]
    BY <2>1
  <2>6. failures' \in Nat /\ failures' < Limit
    BY <2>1, GuardConstants
  <2>7. \A r \in Requests : attempt'[r].pc \notin Underway
    BY <2>2 DEF Underway
  <2>8. GuardInv'
    BY <2>4, <2>5, <2>6, <2>7 DEF GuardInv
  <2>9. Tries' = 0
    BY <2>1, <2>2 DEF Tries
  <2> QED BY <2>1, <2>8, <2>9 DEF LimitOf!Restart
<1>10. ASSUME FileSteps \/ NobodyThere \/ UNCHANGED webVars
       PROVE  UNCHANGED guardVars
  BY <1>10 DEF FileSteps, NobodyThere, webVars, guardVars
<1> QED
  BY <1>1, <1>2, <1>3, <1>4, <1>5, <1>6, <1>7, <1>8, <1>9, <1>10
     DEF WebNext, AttemptSteps, LimitOf!LimitNext

(* The guard of internal/web/loginguard.go, used by both forms, lets no more
   wrong passwords be tried than it says, however the requests interleave. *)
THEOREM GuardImplementsTheLimit == WebSpec => LimitHolds
<1> QED BY InitGuardInv, NextGuardInv, PTL DEF WebSpec, LimitHolds, LimitOf!LimitSpec

-----------------------------------------------------------------------------
(* config.toml. *)

FileNumbers == 0..4
FileText == [text : {"whole", "empty", "spliced"}, cfg : Config]
SaverRecord == [pc : {"idle", "open", "prompt", "write", "rename"}, cfg : Config, fd : FileNumbers]

ConfigTypes ==
    /\ config \in FileNumbers /\ temporary \in FileNumbers
    /\ inode \in [Inodes -> FileText]
    /\ saver \in [Savers -> SaverRecord]
    /\ inUse \in Config /\ told \in Passwords \union {None}
    /\ daemon => config # 0

OneAtWork == \A p, q \in Savers : saver[p].pc # "idle" /\ saver[q].pc # "idle" => p = q

(* The file is whole and has the password last reported; the temporary name
   leads elsewhere. *)
FileSafe ==
    /\ config # 0 => inode[config].text = "whole" /\ temporary # config
    /\ told # None => config # 0 /\ OnDisk.hash = told

(* A saver that has the temporary open has it for itself, and puts into it what
   it read, with the password that was in the file or the one it was given. *)
SaverSafe(p) ==
    /\ saver[p].pc \in {"write", "rename"} => saver[p].fd = temporary /\ temporary # 0
    /\ saver[p].pc = "write" => inode[saver[p].fd] = Empty
    /\ saver[p].pc = "rename" => inode[saver[p].fd] = Text(saver[p].cfg)
    /\ told # None /\ saver[p].pc \in {"open", "write", "rename"} =>
            IF p = "passwd" THEN saver[p].cfg.hash # None ELSE saver[p].cfg.hash = told

ConfigSafe == apart => OneAtWork /\ FileSafe /\ \A p \in Savers : SaverSafe(p)

ConfigInv == ConfigTypes /\ ConfigSafe

LEMMA SameConfigSets ==
    /\ Inodes' = Inodes /\ Savers' = Savers /\ Config' = Config /\ FileNumbers' = FileNumbers
    /\ FileText' = FileText /\ SaverRecord' = SaverRecord
BY DEF Inodes, Savers, Config, FileNumbers, FileText, SaverRecord

(* What the steps of a save make of a saver's record. *)
LEMMA SaverReplaced ==
    ASSUME ConfigTypes, NEW p \in Savers, NEW r \in SaverRecord, saver' = [saver EXCEPT ![p] = r]
    PROVE  /\ saver' \in [Savers -> SaverRecord] /\ saver'[p] = r
           /\ \A q \in Savers \ {p} : saver'[q] = saver[q]
BY DEF ConfigTypes

LEMMA SaverMoved ==
    ASSUME NEW r \in SaverRecord, NEW pc
    PROVE  [r EXCEPT !.pc = pc] = [pc |-> pc, cfg |-> r.cfg, fd |-> r.fd]
BY DEF SaverRecord

LEMMA SaverOpened ==
    ASSUME NEW r \in SaverRecord, NEW pc, NEW fd
    PROVE  [r EXCEPT !.pc = pc, !.fd = fd] = [pc |-> pc, cfg |-> r.cfg, fd |-> fd]
<1> DEFINE moved == [r EXCEPT !.pc = pc]
<1>1. moved = [pc |-> pc, cfg |-> r.cfg, fd |-> r.fd]
  BY SaverMoved
<1> HIDE DEF moved
<1>2. [moved EXCEPT !.fd = fd] = [pc |-> pc, cfg |-> r.cfg, fd |-> fd]
  BY <1>1
<1> QED BY <1>2 DEF moved

LEMMA SaverAnswered ==
    ASSUME NEW r \in SaverRecord, NEW pc, NEW hash
    PROVE  [r EXCEPT !.pc = pc, !.cfg.hash = hash]
             = [pc |-> pc, cfg |-> [r.cfg EXCEPT !.hash = hash], fd |-> r.fd]
<1> DEFINE moved == [r EXCEPT !.pc = pc]
<1>1. moved = [pc |-> pc, cfg |-> r.cfg, fd |-> r.fd]
  BY SaverMoved
<1> HIDE DEF moved
<1>2. [moved EXCEPT !.cfg.hash = hash] = [pc |-> pc, cfg |-> [r.cfg EXCEPT !.hash = hash], fd |-> r.fd]
  BY <1>1
<1> QED BY <1>2 DEF moved

LEMMA IdleIsASaver == IdleSaver \in SaverRecord /\ IdleSaver.pc = "idle" /\ Defaults \in Config
BY DEF IdleSaver, SaverRecord, Defaults, Config, FileNumbers

LEMMA OnDiskIsSettings ==
    ASSUME ConfigTypes, config # 0
    PROVE  inode[config] \in FileText /\ OnDisk \in Config
BY DEF ConfigTypes, FileNumbers, Inodes, FileText, OnDisk

(* A step of the one saver at work. *)
LEMMA OnlySaver ==
    ASSUME NEW p \in Savers, \A q \in Savers \ {p} : saver'[q].pc = "idle", FileSafe', SaverSafe(p)'
    PROVE  ConfigSafe'
<1>1. OneAtWork'
  BY SameConfigSets DEF OneAtWork
<1>2. \A q \in Savers \ {p} : SaverSafe(q)'
  BY DEF SaverSafe
<1> QED BY <1>1, <1>2, SameConfigSets DEF ConfigSafe

LEMMA OthersIdle ==
    ASSUME ConfigSafe, apart, NEW p \in Savers, saver[p].pc # "idle"
    PROVE  /\ FileSafe /\ SaverSafe(p)
           /\ \A q \in Savers \ {p} : saver[q].pc = "idle"
BY DEF ConfigSafe, OneAtWork

LEMMA FileStays ==
    ASSUME FileSafe, UNCHANGED <<config, temporary, inode, told>>
    PROVE  FileSafe'
BY DEF FileSafe, OnDisk

(* A process begins to save. *)
LEMMA BeginsInv ==
    ASSUME ConfigInv, NEW p \in Savers, NEW pc \in {"open", "prompt"}, NEW cfg \in Config, Begins(p, pc, cfg),
           UNCHANGED <<daemon, inUse>>,
           apart /\ told # None /\ pc = "open" => p # "passwd" /\ cfg.hash = told
    PROVE  ConfigInv'
<1> DEFINE r == [pc |-> pc, cfg |-> cfg, fd |-> 0]
<1>1. /\ saver' = [saver EXCEPT ![p] = r] /\ apart' = (apart /\ Alone(p))
      /\ UNCHANGED <<config, temporary, inode, told>>
  BY DEF Begins, fileVars
<1>2. r \in SaverRecord /\ r.pc = pc /\ r.cfg = cfg
  BY DEF SaverRecord, FileNumbers
<1> HIDE DEF r
<1>3. /\ saver' \in [Savers -> SaverRecord] /\ saver'[p] = r
      /\ \A q \in Savers \ {p} : saver'[q] = saver[q]
  BY <1>1, <1>2, SaverReplaced DEF ConfigInv
<1>4. ConfigTypes'
  BY <1>1, <1>3, SameConfigSets DEF ConfigInv, ConfigTypes
<1>5. ConfigSafe'
  <2>1. CASE apart'
    <3>1. apart /\ Alone(p)
      BY <1>1, <2>1
    <3>2. \A q \in Savers \ {p} : saver'[q].pc = "idle"
      BY <1>3, <3>1 DEF Alone
    <3>3. FileSafe'
      BY <1>1, <3>1, FileStays DEF ConfigInv, ConfigSafe
    <3>4. SaverSafe(p)'
      BY <1>1, <1>2, <1>3, <3>1 DEF SaverSafe
    <3> QED BY <3>2, <3>3, <3>4, OnlySaver
  <2>2. CASE ~apart'
    BY <2>2 DEF ConfigSafe
  <2> QED BY <2>1, <2>2
<1> QED BY <1>4, <1>5 DEF ConfigInv

LEMMA StartDaemonInv ==
    ASSUME ConfigInv, StartDaemon
    PROVE  ConfigInv'
<1>1. CASE config # 0 /\ daemon' = TRUE /\ inUse' = OnDisk /\ UNCHANGED <<fileVars, saver, told, apart, budget>>
  <2>1. UNCHANGED <<config, temporary, inode, saver, told, apart>>
    BY <1>1 DEF fileVars
  <2>2. ConfigTypes'
    BY <1>1, <2>1, OnDiskIsSettings, SameConfigSets DEF ConfigInv, ConfigTypes
  <2>3. ConfigSafe'
    BY <2>1, SameConfigSets DEF ConfigInv, ConfigSafe, OneAtWork, FileSafe, SaverSafe, OnDisk
  <2> QED BY <2>2, <2>3 DEF ConfigInv
<1>2. CASE config = 0 /\ Begins("daemon", "open", Defaults) /\ UNCHANGED <<daemon, inUse>>
  <2>1. apart => told = None
    BY <1>2 DEF ConfigInv, ConfigSafe, FileSafe
  <2> QED BY <1>2, <2>1, BeginsInv, IdleIsASaver DEF Savers
<1> QED BY <1>1, <1>2 DEF StartDaemon

(* A save of the page keeps the password that is in the file. *)
LEMMA HandleSettingsSaveInv ==
    ASSUME ConfigInv, NEW p \in Pages, NEW b \in Brokers \union {None}, HandleSettingsSave(p, b)
    PROVE  ConfigInv'
<1>1. daemon /\ Begins(p, "open", ApplySettings(OnDisk, b)) /\ UNCHANGED <<daemon, inUse>>
  BY DEF HandleSettingsSave
<1>2. OnDisk \in Config
  BY <1>1, OnDiskIsSettings DEF ConfigInv, ConfigTypes
<1>3. ApplySettings(OnDisk, b) \in Config /\ ApplySettings(OnDisk, b).hash = OnDisk.hash
  BY <1>2 DEF ApplySettings, Config
<1>4. p # "passwd" /\ p \in Savers
  BY ConfigConstants DEF Savers
<1>5. apart /\ told # None => OnDisk.hash = told
  BY DEF ConfigInv, ConfigSafe, FileSafe
<1> QED BY <1>1, <1>3, <1>4, <1>5, BeginsInv

LEMMA RunPasswdInv ==
    ASSUME ConfigInv, RunPasswd
    PROVE  ConfigInv'
<1>1. "passwd" \in Savers /\ UNCHANGED <<daemon, inUse>>
  BY DEF RunPasswd, Savers
<1>2. CASE config # 0 /\ Begins("passwd", "prompt", OnDisk)
  BY <1>1, <1>2, OnDiskIsSettings, BeginsInv DEF ConfigInv
<1>3. CASE config = 0 /\ Begins("passwd", "open", Defaults)
  <2>1. apart => told = None
    BY <1>3 DEF ConfigInv, ConfigSafe, FileSafe
  <2> QED BY <1>1, <1>3, <2>1, IdleIsASaver, BeginsInv
<1> QED BY <1>2, <1>3 DEF RunPasswd

LEMMA SetPasswordInv ==
    ASSUME ConfigInv, NEW password \in Passwords, SetPassword(password)
    PROVE  ConfigInv'
<1> DEFINE p == "passwd"
           r == [pc |-> "open", cfg |-> [saver[p].cfg EXCEPT !.hash = password], fd |-> saver[p].fd]
<1>1. /\ saver[p].pc = "prompt" /\ p \in Savers
      /\ UNCHANGED <<config, temporary, inode, daemon, inUse, told, apart>>
  BY DEF SetPassword, fileVars, Savers
<1>2. saver' = [saver EXCEPT ![p] = r]
  <2>1. saver' = [saver EXCEPT ![p] = [saver[p] EXCEPT !.pc = "open", !.cfg.hash = password]]
    BY <1>1 DEF SetPassword, ConfigInv, ConfigTypes
  <2>2. saver[p] \in SaverRecord
    BY <1>1 DEF ConfigInv, ConfigTypes
  <2>3. [saver[p] EXCEPT !.pc = "open", !.cfg.hash = password] = r
    BY <2>2, SaverAnswered
  <2> QED BY <2>1, <2>3
<1>3. r \in SaverRecord /\ r.pc = "open" /\ r.cfg.hash = password
  <2>1. saver[p].cfg \in Config /\ saver[p].fd \in FileNumbers
    BY <1>1 DEF ConfigInv, ConfigTypes, SaverRecord
  <2>2. [saver[p].cfg EXCEPT !.hash = password] \in Config /\ [saver[p].cfg EXCEPT !.hash = password].hash = password
    BY <2>1 DEF Config
  <2> QED BY <2>1, <2>2 DEF SaverRecord
<1> HIDE DEF r
<1>4. /\ saver' \in [Savers -> SaverRecord] /\ saver'[p] = r
      /\ \A q \in Savers \ {p} : saver'[q] = saver[q]
  BY <1>1, <1>2, <1>3, SaverReplaced DEF ConfigInv
<1>5. ConfigTypes'
  BY <1>1, <1>4, SameConfigSets DEF ConfigInv, ConfigTypes
<1>6. ConfigSafe'
  <2>1. CASE apart
    <3>1. FileSafe /\ \A q \in Savers \ {p} : saver[q].pc = "idle"
      BY <1>1, <2>1, OthersIdle DEF ConfigInv
    <3>2. FileSafe' /\ \A q \in Savers \ {p} : saver'[q].pc = "idle"
      BY <1>1, <1>4, <3>1, FileStays
    <3>3. SaverSafe(p)'
      BY <1>3, <1>4, ConfigConstants DEF SaverSafe
    <3> QED BY <1>1, <3>2, <3>3, OnlySaver
  <2>2. CASE ~apart
    BY <1>1, <2>2 DEF ConfigSafe
  <2> QED BY <2>1, <2>2
<1> QED BY <1>5, <1>6 DEF ConfigInv

(* The temporary that is opened, new or left behind, is never config.toml. *)
LEMMA OpenTemporaryInv ==
    ASSUME ConfigInv, NEW p \in Savers, OpenTemporary(p)
    PROVE  ConfigInv'
<1>1. PICK i \in Inodes :
        /\ IF temporary # 0 THEN i = temporary ELSE ~InUse(i)
        /\ temporary' = i /\ inode' = [inode EXCEPT ![i] = Empty]
        /\ saver' = [saver EXCEPT ![p].pc = "write", ![p].fd = i]
  BY DEF OpenTemporary
<1>2. saver[p].pc = "open" /\ UNCHANGED <<config, daemon, inUse, told, apart>>
  BY DEF OpenTemporary
<1> DEFINE r == [pc |-> "write", cfg |-> saver[p].cfg, fd |-> i]
<1>3. i \in FileNumbers /\ i # 0
  BY DEF Inodes, FileNumbers
<1>4. saver' = [saver EXCEPT ![p] = r]
  <2>1. saver' = [saver EXCEPT ![p] = [saver[p] EXCEPT !.pc = "write", !.fd = i]]
    BY <1>1 DEF ConfigInv, ConfigTypes
  <2>2. saver[p] \in SaverRecord
    BY DEF ConfigInv, ConfigTypes
  <2>3. [saver[p] EXCEPT !.pc = "write", !.fd = i] = r
    BY <2>2, SaverOpened
  <2> QED BY <2>1, <2>3
<1>5. r \in SaverRecord /\ r.pc = "write" /\ r.cfg = saver[p].cfg /\ r.fd = i
  BY <1>3 DEF ConfigInv, ConfigTypes, SaverRecord
<1> HIDE DEF r
<1>6. /\ saver' \in [Savers -> SaverRecord] /\ saver'[p] = r
      /\ \A q \in Savers \ {p} : saver'[q] = saver[q]
  BY <1>4, <1>5, SaverReplaced DEF ConfigInv
<1>7. /\ inode' \in [Inodes -> FileText] /\ inode'[i] = Empty
      /\ \A j \in Inodes \ {i} : inode'[j] = inode[j]
  <2>1. Empty \in FileText
    BY IdleIsASaver DEF Empty, FileText
  <2> QED BY <1>1, <2>1 DEF ConfigInv, ConfigTypes
<1>8. ConfigTypes'
  BY <1>1, <1>2, <1>3, <1>6, <1>7, SameConfigSets DEF ConfigInv, ConfigTypes
<1>9. ConfigSafe'
  <2>1. CASE apart
    <3>1. FileSafe /\ SaverSafe(p) /\ \A q \in Savers \ {p} : saver[q].pc = "idle"
      BY <1>2, <2>1, OthersIdle DEF ConfigInv
    <3>2. \A q \in Savers \ {p} : saver'[q].pc = "idle"
      BY <1>6, <3>1
    <3>3. i # config
      BY <1>1, <1>3, <3>1 DEF FileSafe, InUse
    <3>4. config # 0 => inode'[config] = inode[config]
      BY <1>7, <3>3 DEF ConfigInv, ConfigTypes, FileNumbers, Inodes
    <3>5. FileSafe'
      BY <1>1, <1>2, <3>1, <3>3, <3>4 DEF FileSafe, OnDisk
    <3>6. SaverSafe(p)'
      BY <1>1, <1>2, <1>3, <1>5, <1>6, <1>7, <3>1 DEF SaverSafe
    <3> QED BY <3>2, <3>5, <3>6, OnlySaver
  <2>2. CASE ~apart
    BY <1>2, <2>2 DEF ConfigSafe
  <2> QED BY <2>1, <2>2
<1> QED BY <1>8, <1>9 DEF ConfigInv

(* What is written over a file emptied just before is the whole text. *)
LEMMA EncodeInv ==
    ASSUME ConfigInv, NEW p \in Savers, Encode(p)
    PROVE  ConfigInv'
<1> DEFINE fd == saver[p].fd
           r == [pc |-> "rename", cfg |-> saver[p].cfg, fd |-> saver[p].fd]
<1>1. PICK text \in Written(saver[p].cfg, inode[fd]) : inode' = [inode EXCEPT ![fd] = text]
  BY DEF Encode
<1>2. saver[p].pc = "write" /\ UNCHANGED <<config, temporary, daemon, inUse, told, apart>>
  BY DEF Encode
<1>3. saver[p] \in SaverRecord
  BY DEF ConfigInv, ConfigTypes
<1>4. saver' = [saver EXCEPT ![p] = r]
  <2>1. saver' = [saver EXCEPT ![p] = [saver[p] EXCEPT !.pc = "rename"]]
    BY DEF Encode, ConfigInv, ConfigTypes
  <2>2. [saver[p] EXCEPT !.pc = "rename"] = r
    BY <1>3, SaverMoved
  <2> QED BY <2>1, <2>2
<1>5. r \in SaverRecord /\ r.pc = "rename" /\ r.cfg = saver[p].cfg /\ r.fd = fd
  BY <1>3 DEF SaverRecord
<1> HIDE DEF r
<1>6. /\ saver' \in [Savers -> SaverRecord] /\ saver'[p] = r
      /\ \A q \in Savers \ {p} : saver'[q] = saver[q]
  BY <1>4, <1>5, SaverReplaced DEF ConfigInv
<1>7. text \in FileText /\ (inode[fd] = Empty => text = Text(saver[p].cfg))
  <2>1. Text(saver[p].cfg) \in FileText
    BY <1>3 DEF Text, FileText, SaverRecord
  <2>2. Spliced \in FileText
    BY IdleIsASaver DEF Spliced, FileText
  <2> QED BY <1>1, <2>1, <2>2 DEF Written
<1>8. /\ inode' \in [Inodes -> FileText]
      /\ \A j \in Inodes : inode'[j] = IF j = fd THEN text ELSE inode[j]
  BY <1>1, <1>7 DEF ConfigInv, ConfigTypes
<1> HIDE DEF fd
<1>9. ConfigTypes'
  BY <1>2, <1>6, <1>8, SameConfigSets DEF ConfigInv, ConfigTypes
<1>10. ConfigSafe'
  <2>1. CASE apart
    <3>1. FileSafe /\ SaverSafe(p) /\ \A q \in Savers \ {p} : saver[q].pc = "idle"
      BY <1>2, <2>1, OthersIdle DEF ConfigInv
    <3>2. \A q \in Savers \ {p} : saver'[q].pc = "idle"
      BY <1>6, <3>1
    <3>3. fd = temporary /\ fd # 0 /\ inode[fd] = Empty
      BY <1>2, <3>1 DEF SaverSafe, fd
    <3>4. fd \in Inodes /\ (config # 0 => config # fd /\ config \in Inodes)
      BY <3>1, <3>3 DEF FileSafe, ConfigInv, ConfigTypes, FileNumbers, Inodes
    <3>5. FileSafe'
      BY <1>2, <1>8, <3>1, <3>4 DEF FileSafe, OnDisk
    <3>6. inode'[fd] = Text(saver[p].cfg)
      BY <1>7, <1>8, <3>3, <3>4
    <3>7. SaverSafe(p)'
      BY <1>2, <1>5, <1>6, <3>1, <3>3, <3>6 DEF SaverSafe
    <3> QED BY <3>2, <3>5, <3>7, OnlySaver
  <2>2. CASE ~apart
    BY <1>2, <2>2 DEF ConfigSafe
  <2> QED BY <2>1, <2>2
<1> QED BY <1>9, <1>10 DEF ConfigInv

(* A full disk spoils the temporary only. *)
LEMMA EncodeFailsInv ==
    ASSUME ConfigInv, NEW p \in Savers, EncodeFails(p)
    PROVE  ConfigInv'
<1> DEFINE fd == saver[p].fd
<1>1. /\ saver[p].pc = "write" /\ inode' = [inode EXCEPT ![fd] = Spliced] /\ temporary' = 0
      /\ saver' = [saver EXCEPT ![p] = IdleSaver]
      /\ UNCHANGED <<config, daemon, inUse, told, apart>>
  BY DEF EncodeFails
<1>2. /\ saver' \in [Savers -> SaverRecord] /\ saver'[p] = IdleSaver
      /\ \A q \in Savers \ {p} : saver'[q] = saver[q]
  BY <1>1, IdleIsASaver, SaverReplaced DEF ConfigInv
<1> HIDE DEF fd
<1>3. /\ inode' \in [Inodes -> FileText]
      /\ \A j \in Inodes \ {fd} : inode'[j] = inode[j]
  <2>1. Spliced \in FileText
    BY IdleIsASaver DEF Spliced, FileText
  <2> QED BY <1>1, <2>1 DEF ConfigInv, ConfigTypes
<1>4. ConfigTypes'
  BY <1>1, <1>2, <1>3, SameConfigSets DEF ConfigInv, ConfigTypes, FileNumbers
<1>5. ConfigSafe'
  <2>1. CASE apart
    <3>1. FileSafe /\ SaverSafe(p) /\ \A q \in Savers \ {p} : saver[q].pc = "idle"
      BY <1>1, <2>1, OthersIdle DEF ConfigInv
    <3>2. \A q \in Savers \ {p} : saver'[q].pc = "idle"
      BY <1>2, <3>1
    <3>3. fd = temporary
      BY <1>1, <3>1 DEF SaverSafe, fd
    <3>4. config # 0 => config # fd /\ config \in Inodes
      BY <3>1, <3>3 DEF FileSafe, ConfigInv, ConfigTypes, FileNumbers, Inodes
    <3>5. FileSafe'
      BY <1>1, <1>3, <3>1, <3>4 DEF FileSafe, OnDisk
    <3>6. SaverSafe(p)'
      BY <1>2, IdleIsASaver DEF SaverSafe
    <3> QED BY <3>2, <3>5, <3>6, OnlySaver
  <2>2. CASE ~apart
    BY <1>1, <2>2 DEF ConfigSafe
  <2> QED BY <2>1, <2>2
<1> QED BY <1>4, <1>5 DEF ConfigInv

(* The rename puts a whole file in place, with the password it was to have. *)
LEMMA RenameInv ==
    ASSUME ConfigInv, NEW p \in Savers, Rename(p)
    PROVE  ConfigInv'
<1> DEFINE asks == [pc |-> "prompt", cfg |-> saver[p].cfg, fd |-> 0]
           cfg == saver[p].cfg
           first == p = "passwd" /\ cfg.hash = None
<1>1. saver[p].pc = "rename" /\ UNCHANGED apart
  BY DEF Rename
<1>2. saver[p] \in SaverRecord /\ cfg \in Config /\ cfg.hash \in Passwords \union {None}
  BY DEF ConfigInv, ConfigTypes, SaverRecord, Config
<1>3. asks \in SaverRecord /\ asks.pc = "prompt"
  BY <1>2 DEF SaverRecord, FileNumbers
<1>4. \E r \in {IdleSaver, asks} : saver' = [saver EXCEPT ![p] = r]
  <2>1. CASE saver' = [saver EXCEPT ![p] = IdleSaver]
    BY <2>1
  <2>2. CASE saver' = [saver EXCEPT ![p] = [saver[p] EXCEPT !.pc = "prompt", !.fd = 0]]
    <3>1. [saver[p] EXCEPT !.pc = "prompt", !.fd = 0] = asks
      BY <1>2, SaverOpened
    <3> QED BY <2>2, <3>1
  <2> QED BY <2>1, <2>2 DEF Rename, Saved, ConfigInv, ConfigTypes
<1> HIDE DEF asks
<1>5. /\ saver' \in [Savers -> SaverRecord] /\ saver'[p].pc \in {"idle", "prompt"}
      /\ \A q \in Savers \ {p} : saver'[q] = saver[q]
  <2>1. PICK r \in {IdleSaver, asks} : saver' = [saver EXCEPT ![p] = r]
    BY <1>4
  <2> QED BY <1>3, <2>1, IdleIsASaver, SaverReplaced DEF ConfigInv
<1>6. \/ temporary = 0 /\ UNCHANGED <<config, temporary, inode, daemon, inUse, told>>
      \/ /\ temporary # 0 /\ config' = temporary /\ temporary' = 0 /\ UNCHANGED inode
         /\ inUse' \in {inUse, cfg}
         /\ told' = IF p = "passwd" /\ ~first THEN cfg.hash ELSE told
  BY DEF Rename, Saved, fileVars
<1>7. ConfigTypes'
  BY <1>2, <1>5, <1>6, SameConfigSets DEF ConfigInv, ConfigTypes, FileNumbers
<1>8. ConfigSafe'
  <2>1. CASE apart
    <3>1. FileSafe /\ SaverSafe(p) /\ \A q \in Savers \ {p} : saver[q].pc = "idle"
      BY <1>1, <2>1, OthersIdle DEF ConfigInv
    <3>2. \A q \in Savers \ {p} : saver'[q].pc = "idle"
      BY <1>5, <3>1
    <3>3. /\ temporary # 0 /\ inode[temporary] = Text(cfg)
          /\ told # None => IF p = "passwd" THEN cfg.hash # None ELSE cfg.hash = told
      BY <1>1, <3>1 DEF SaverSafe
    <3>4. /\ config' = temporary /\ temporary' = 0 /\ inode'[config'].text = "whole" /\ OnDisk' = cfg
          /\ told' = IF p = "passwd" /\ ~first THEN cfg.hash ELSE told
      BY <1>6, <3>3 DEF Text, OnDisk
    <3>5. told' # None => cfg.hash = told'
      BY <3>3, <3>4
    <3>6. FileSafe'
      BY <3>3, <3>4, <3>5 DEF FileSafe
    <3>7. SaverSafe(p)'
      BY <1>5 DEF SaverSafe
    <3> QED BY <3>2, <3>6, <3>7, OnlySaver
  <2>2. CASE ~apart
    BY <1>1, <2>2 DEF ConfigSafe
  <2> QED BY <2>1, <2>2
<1> QED BY <1>7, <1>8 DEF ConfigInv

(* A saver that is stopped leaves the files as they are. *)
LEMMA StoppedInv ==
    ASSUME ConfigInv, NEW who, Stopped(who), UNCHANGED <<fileVars, inUse, told, apart>>, daemon' => daemon
    PROVE  ConfigInv'
<1>1. UNCHANGED <<config, temporary, inode>>
  BY DEF fileVars
<1>2. \A p \in Savers : saver'[p] = saver[p] \/ saver'[p] = IdleSaver
  BY DEF Stopped
<1>3. saver' \in [Savers -> SaverRecord]
  BY IdleIsASaver DEF Stopped, ConfigInv, ConfigTypes
<1>4. ConfigTypes'
  BY <1>1, <1>3, SameConfigSets DEF ConfigInv, ConfigTypes
<1>5. ConfigSafe'
  <2> SUFFICES ASSUME apart PROVE OneAtWork' /\ FileSafe' /\ \A p \in Savers : SaverSafe(p)'
    BY SameConfigSets DEF ConfigSafe
  <2>1. OneAtWork /\ FileSafe /\ \A p \in Savers : SaverSafe(p)
    BY DEF ConfigInv, ConfigSafe
  <2>2. OneAtWork'
    BY <1>2, <2>1, IdleIsASaver, SameConfigSets DEF OneAtWork
  <2>3. FileSafe'
    BY <1>1, <2>1, FileStays
  <2>4. ASSUME NEW p \in Savers PROVE SaverSafe(p)'
    <3>1. CASE saver'[p] = IdleSaver
      BY <3>1, IdleIsASaver DEF SaverSafe
    <3>2. CASE saver'[p] = saver[p]
      BY <1>1, <2>1, <3>2 DEF SaverSafe
    <3> QED BY <1>2, <3>1, <3>2
  <2> QED BY <2>2, <2>3, <2>4
<1> QED BY <1>4, <1>5 DEF ConfigInv

LEMMA ConfigNextInv ==
    ASSUME ConfigInv, ConfigNext \/ StopDaemon \/ UNCHANGED configVars
    PROVE  ConfigInv'
<1>1. CASE StopDaemon \/ GiveUpPasswd
  BY <1>1, StoppedInv DEF StopDaemon, GiveUpPasswd
<1>2. CASE UNCHANGED configVars
  <2>1. UNCHANGED <<config, temporary, inode, saver, daemon, inUse, told, apart>>
    BY <1>2 DEF configVars, fileVars
  <2>2. ConfigTypes'
    BY <2>1, SameConfigSets DEF ConfigInv, ConfigTypes
  <2>3. ConfigSafe'
    BY <2>1, SameConfigSets DEF ConfigInv, ConfigSafe, OneAtWork, FileSafe, SaverSafe, OnDisk
  <2> QED BY <2>2, <2>3 DEF ConfigInv
<1>3. CASE \E p \in Savers : SaveSteps(p)
  BY <1>3, OpenTemporaryInv, EncodeInv, EncodeFailsInv, RenameInv DEF SaveSteps
<1> QED BY <1>1, <1>2, <1>3, StartDaemonInv, RunPasswdInv, HandleSettingsSaveInv, SetPasswordInv DEF ConfigNext

-----------------------------------------------------------------------------
(* The attempts, beside config.toml. *)

(* Every hash an attempt is about has been in the file since it began. *)
AttemptSafe(r) ==
    /\ attempt[r].pc \in {"read", "verify"} => OnDisk.hash \in valid[r]
    /\ attempt[r].pc = "verify" => attempt[r].hash \in valid[r]
    /\ attempt[r].pc = "in" => attempt[r].password \in valid[r]

WebSafe ==
    /\ valid = [r \in Requests |-> valid[r]]
    /\ \A r \in Requests : attempt[r].pc # "idle" => config # 0
    /\ apart => \A r \in Requests : AttemptSafe(r)

WebInv == ConfigInv /\ GuardInv /\ WebSafe

(* A step of one request leaves the attempts of all others as they are. *)
LEMMA OneRequest ==
    ASSUME WebInv, NEW r \in Requests, UNCHANGED configVars,
           \A s \in Requests \ {r} : attempt'[s] = attempt[s],
           NEW v, valid' = [valid EXCEPT ![r] = v],
           attempt'[r].pc # "idle" => config # 0,
           apart => AttemptSafe(r)'
    PROVE  WebSafe'
<1>1. UNCHANGED <<config, inode, apart>>
  BY DEF configVars, fileVars
<1>2. valid' = [s \in Requests |-> valid'[s]] /\ \A s \in Requests \ {r} : valid'[s] = valid[s]
  BY DEF WebInv, WebSafe
<1>3. ASSUME apart, NEW s \in Requests \ {r} PROVE AttemptSafe(s)'
  BY <1>1, <1>2, <1>3 DEF WebInv, WebSafe, AttemptSafe, OnDisk
<1>4. \A s \in Requests : attempt'[s].pc # "idle" => config' # 0
  BY <1>1 DEF WebInv, WebSafe
<1> QED BY <1>1, <1>2, <1>3, <1>4 DEF WebSafe

LEMMA TurnedAway ==
    ASSUME WebInv, NEW r \in Requests, Released(r, "refused"), UNCHANGED configVars
    PROVE  WebSafe'
<1>1. valid' = [valid EXCEPT ![r] = {}] /\ attempt'[r] = IdleAttempt
  BY DEF Released, WebInv, GuardInv
<1>2. attempt'[r].pc = "idle"
  BY <1>1 DEF IdleAttempt
<1>3. \A s \in Requests \ {r} : attempt'[s] = attempt[s]
  BY ReleasesOne DEF WebInv
<1>4. AttemptSafe(r)'
  BY <1>2 DEF AttemptSafe
<1> QED BY <1>1, <1>2, <1>3, <1>4, OneRequest

LEMMA PostSafe ==
    ASSUME WebInv, NEW r \in Requests, NEW form, NEW password, Post(r, form, password)
    PROVE  WebSafe'
<1> DEFINE x == [pc |-> "waiting", form |-> form, password |-> password, hash |-> None]
<1>1. /\ daemon /\ attempt' = [attempt EXCEPT ![r] = x] /\ valid' = [valid EXCEPT ![r] = {}]
      /\ UNCHANGED configVars
  BY DEF Post
<1>2. x.pc = "waiting"
  OBVIOUS
<1> HIDE DEF x
<1>3. attempt'[r] = x /\ \A s \in Requests \ {r} : attempt'[s] = attempt[s]
  BY <1>1 DEF WebInv, GuardInv
<1>4. config # 0
  BY <1>1 DEF WebInv, ConfigInv, ConfigTypes
<1>5. AttemptSafe(r)'
  BY <1>2, <1>3 DEF AttemptSafe
<1> QED BY <1>1, <1>3, <1>4, <1>5, OneRequest

(* An attempt begins with the hash that is in the file. *)
LEMMA AttemptStepSafe ==
    ASSUME WebInv, NEW r \in Requests, Attempt(r)
    PROVE  WebSafe'
<1>1. CASE Released(r, "refused")
  BY <1>1, TurnedAway DEF Attempt
<1>2. CASE Moves(r, "read") /\ valid' = [valid EXCEPT ![r] = {OnDisk.hash}]
  <2>1. UNCHANGED configVars /\ attempt[r].pc = "waiting"
    BY DEF Attempt
  <2>2. attempt'[r].pc = "read" /\ \A s \in Requests \ {r} : attempt'[s] = attempt[s]
    BY <1>2, MovesOne DEF WebInv
  <2>3. config # 0
    BY <2>1 DEF WebInv, WebSafe
  <2>4. valid'[r] = {OnDisk.hash} /\ OnDisk' = OnDisk
    BY <1>2, <2>1 DEF WebInv, WebSafe, configVars, fileVars, OnDisk
  <2>5. AttemptSafe(r)'
    BY <2>2, <2>4 DEF AttemptSafe
  <2> QED BY <1>2, <2>1, <2>2, <2>3, <2>5, OneRequest
<1> QED BY <1>1, <1>2 DEF Attempt

(* The file is whole, so that the hash that is read is the one in it. *)
LEMMA ReadHashSafe ==
    ASSUME WebInv, NEW r \in Requests, ReadHash(r)
    PROVE  WebSafe'
<1>1. CASE Released(r, "refused")
  BY <1>1, TurnedAway DEF ReadHash
<1>2. CASE attempt' = [attempt EXCEPT ![r].pc = "verify", ![r].hash = PasswordHash] /\ UNCHANGED valid
  <2>1. UNCHANGED configVars /\ attempt[r].pc = "read" /\ config # 0
    BY DEF ReadHash, WebInv, WebSafe
  <2>2. PICK pc, form, password, hash :
          attempt[r] = [pc |-> pc, form |-> form, password |-> password, hash |-> hash]
    BY DEF WebInv, GuardInv, IsAttempt
  <2>3. attempt' = [attempt EXCEPT ![r] = [attempt[r] EXCEPT !.pc = "verify", !.hash = PasswordHash]]
    BY <1>2 DEF WebInv, GuardInv
  <2>4. /\ attempt'[r] = [attempt[r] EXCEPT !.pc = "verify", !.hash = PasswordHash]
        /\ \A s \in Requests \ {r} : attempt'[s] = attempt[s]
    BY <2>3 DEF WebInv, GuardInv
  <2>5. attempt'[r].pc = "verify" /\ attempt'[r].hash = PasswordHash
    BY <2>2, <2>4
  <2>6. apart => AttemptSafe(r)'
    <3> SUFFICES ASSUME apart PROVE AttemptSafe(r)'
      OBVIOUS
    <3>1. inode[config].text = "whole"
      BY <2>1 DEF WebInv, ConfigInv, ConfigSafe, FileSafe
    <3>2. PasswordHash = OnDisk.hash
      BY <3>1 DEF PasswordHash, Loads
    <3>3. OnDisk.hash \in valid[r] /\ OnDisk' = OnDisk
      BY <2>1 DEF WebInv, WebSafe, AttemptSafe, configVars, fileVars, OnDisk
    <3> QED BY <1>2, <2>5, <3>2, <3>3 DEF AttemptSafe
  <2>7. valid' = [valid EXCEPT ![r] = valid[r]]
    BY <1>2 DEF WebInv, WebSafe
  <2> QED BY <2>1, <2>4, <2>6, <2>7, OneRequest
<1> QED BY <1>1, <1>2 DEF ReadHash

LEMMA VerifyRightSafe ==
    ASSUME WebInv, NEW r \in Requests, VerifyRight(r)
    PROVE  WebSafe'
<1>1. /\ attempt[r].pc = "verify" /\ attempt[r].hash = attempt[r].password
      /\ Released(r, "in") /\ UNCHANGED configVars
  BY DEF VerifyRight, Matches
<1>2. config # 0
  BY <1>1 DEF WebInv, WebSafe
<1>3. attempt'[r] = [attempt[r] EXCEPT !.pc = "in"] /\ valid' = [valid EXCEPT ![r] = valid[r]]
  BY <1>1 DEF Released, WebInv, GuardInv
<1>4. PICK pc, form, password, hash :
        attempt[r] = [pc |-> pc, form |-> form, password |-> password, hash |-> hash]
  BY DEF WebInv, GuardInv, IsAttempt
<1>5. attempt'[r].pc = "in" /\ attempt'[r].password = attempt[r].password
  BY <1>3, <1>4
<1>6. valid'[r] = valid[r]
  BY <1>3 DEF WebInv, WebSafe
<1>7. apart => AttemptSafe(r)'
  BY <1>1, <1>5, <1>6 DEF WebInv, WebSafe, AttemptSafe
<1>8. \A s \in Requests \ {r} : attempt'[s] = attempt[s]
  BY <1>1, ReleasesOne DEF WebInv
<1> QED BY <1>1, <1>2, <1>3, <1>7, <1>8, OneRequest

LEMMA VerifyWrongSafe ==
    ASSUME WebInv, NEW r \in Requests, VerifyWrong(r)
    PROVE  WebSafe'
<1>1. attempt[r].pc = "verify" /\ Moves(r, "charge") /\ UNCHANGED configVars /\ UNCHANGED valid
  BY DEF VerifyWrong
<1>2. attempt'[r].pc = "charge" /\ \A s \in Requests \ {r} : attempt'[s] = attempt[s]
  BY <1>1, MovesOne DEF WebInv
<1>3. AttemptSafe(r)'
  BY <1>2 DEF AttemptSafe
<1>4. config # 0 /\ valid' = [valid EXCEPT ![r] = valid[r]]
  BY <1>1 DEF WebInv, WebSafe
<1> QED BY <1>1, <1>2, <1>3, <1>4, OneRequest

(* What is written to the file while an attempt is under way becomes valid. *)
LEMMA FileStepsSafe ==
    ASSUME WebInv, FileSteps
    PROVE  WebSafe'
<1>1. /\ ConfigNext /\ UNCHANGED attempt
      /\ valid' = [r \in Requests |-> IF attempt[r].pc \in {"read", "verify"}
                                      THEN valid[r] \union {OnDisk'.hash} ELSE valid[r]]
  BY DEF FileSteps, guardVars, OnDisk
<1>2. config # 0 => config' # 0
  BY <1>1 DEF ConfigNext, StartDaemon, Begins, RunPasswd, GiveUpPasswd, HandleSettingsSave, SetPassword,
              SaveSteps, OpenTemporary, Encode, EncodeFails, Rename, fileVars
<1>3. apart' => apart
  BY <1>1 DEF ConfigNext, StartDaemon, Begins, RunPasswd, GiveUpPasswd, HandleSettingsSave, SetPassword,
              SaveSteps, OpenTemporary, Encode, EncodeFails, Rename
<1>4. ASSUME apart, NEW r \in Requests PROVE AttemptSafe(r)'
  BY <1>1, <1>4 DEF WebInv, WebSafe, AttemptSafe
<1> QED BY <1>1, <1>2, <1>3, <1>4 DEF WebInv, WebSafe

LEMMA RestartGuardSafe ==
    ASSUME WebInv, RestartGuard
    PROVE  WebSafe'
<1>1. attempt' = [r \in Requests |-> IdleAttempt] /\ valid' = [r \in Requests |-> {}]
  BY DEF RestartGuard
<1>2. \A r \in Requests : attempt'[r].pc = "idle"
  BY <1>1 DEF IdleAttempt
<1>3. \A r \in Requests : AttemptSafe(r)'
  BY <1>2 DEF AttemptSafe
<1> QED BY <1>1, <1>2, <1>3 DEF WebSafe

LEMMA NextWebInv == WebInv /\ [WebNext]_webVars => WebInv'
<1> SUFFICES ASSUME WebInv, [WebNext]_webVars PROVE WebInv'
  OBVIOUS
<1>1. GuardInv'
  BY NextGuardInv DEF WebInv
<1>2. ConfigInv'
  <2>1. ConfigNext \/ StopDaemon \/ UNCHANGED configVars
    BY DEF WebNext, FileSteps, RestartGuard, LockoutEnds, NobodyThere, webVars, Post, AttemptSteps,
           Attempt, ReadHash, VerifyRight, VerifyWrong, FailLogin
  <2> QED BY <2>1, ConfigNextInv DEF WebInv
<1>3. ASSUME UNCHANGED <<configVars, attempt, valid>> PROVE WebSafe'
  BY <1>3 DEF WebInv, WebSafe, AttemptSafe, OnDisk, configVars, fileVars
<1>4. ASSUME LockoutEnds \/ NobodyThere \/ UNCHANGED webVars PROVE WebSafe'
  BY <1>3, <1>4 DEF LockoutEnds, NobodyThere, webVars, guardVars
<1>5. ASSUME NEW r \in Requests, AttemptSteps(r) PROVE WebSafe'
  <2>1. CASE FailLogin(r)
    BY <2>1, TurnedAway DEF FailLogin
  <2> QED BY <1>5, <2>1, AttemptStepSafe, ReadHashSafe, VerifyRightSafe, VerifyWrongSafe DEF AttemptSteps
<1>6. WebSafe'
  BY <1>4, <1>5, PostSafe, FileStepsSafe, RestartGuardSafe DEF WebNext, WebInv
<1> QED BY <1>1, <1>2, <1>6 DEF WebInv

LEMMA InitWebInv == WebInit => WebInv
<1> SUFFICES ASSUME WebInit PROVE WebInv
  OBVIOUS
<1>1. GuardInv
  BY InitGuardInv
<1>2. /\ config = 0 /\ temporary = 0 /\ inode = [i \in Inodes |-> Empty] /\ daemon = FALSE
      /\ saver = [p \in Savers |-> IdleSaver] /\ inUse = Defaults /\ told = None
      /\ attempt = [r \in Requests |-> IdleAttempt] /\ valid = [r \in Requests |-> {}]
  BY DEF WebInit, ConfigInit
<1>3. ConfigTypes
  <2>1. Empty \in FileText
    BY IdleIsASaver DEF Empty, FileText
  <2> QED BY <1>2, <2>1, IdleIsASaver DEF ConfigTypes, FileNumbers
<1>4. \A p \in Savers : saver[p].pc = "idle"
  BY <1>2, IdleIsASaver
<1>5. ConfigSafe
  BY <1>2, <1>4 DEF ConfigSafe, OneAtWork, FileSafe, SaverSafe
<1>6. \A r \in Requests : attempt[r].pc = "idle"
  BY <1>2 DEF IdleAttempt
<1>7. WebSafe
  BY <1>2, <1>6 DEF WebSafe, AttemptSafe
<1> QED BY <1>1, <1>3, <1>5, <1>7 DEF WebInv, ConfigInv

LEMMA WebInvHolds == WebSpec => []WebInv
<1> QED BY InitWebInv, NextWebInv, PTL DEF WebSpec

(* One saver at a time leaves config.toml whole from the first save on, at
   whichever operation of internal/config's Save it is stopped. *)
THEOREM ConfigSafety == WebSpec => []ConfigIsWhole
<1>1. WebInv => ConfigIsWhole
  BY DEF WebInv, ConfigInv, ConfigSafe, FileSafe, ConfigIsWhole
<1> QED BY <1>1, WebInvHolds, PTL

(* The password `gpb passwd` reported as written outlives every save of the
   settings page, and every stop, kill and full disk. *)
THEOREM PasswordSafety == WebSpec => []PasswordStands
<1>1. WebInv => PasswordStands
  BY DEF WebInv, ConfigInv, ConfigSafe, FileSafe, PasswordStands
<1> QED BY <1>1, WebInvHolds, PTL

(* Both forms let in whoever gave a password the file has had since the
   attempt began, and nobody else, whatever is saved meanwhile. *)
THEOREM OnlyCurrentSafety == WebSpec => []OnlyCurrentPasswords
<1>1. WebInv => OnlyCurrentPasswords
  BY DEF WebInv, WebSafe, AttemptSafe, OnlyCurrentPasswords
<1> QED BY <1>1, WebInvHolds, PTL
=============================================================================
