------------------------------ MODULE WebLogin ------------------------------
(***************************************************************************)
(* The two forms that take the web password, the login form and the one    *)
(* that starts a login browser, beside everything that rewrites            *)
(* config.toml.  Requests are served at once; the guard's mutex makes      *)
(* their attempts follow one another, and the hash is read from the file   *)
(* at every attempt.                                                       *)
(***************************************************************************)
EXTENDS ConfigFile

CONSTANTS
    Requests,           \* requests with a password in them
    Limit,              \* loginFailureLimit
    MaxPosts            \* bound: passwords posted

ASSUME GuardConstants == Limit \in Nat \ {0} /\ MaxPosts \in Nat /\ None \notin Requests

VARIABLES
    attempting, \* the request that holds the mutex, None for nobody
    attempt,    \* [Requests -> where the attempt is]
    failures,   \* the guard's counter
    locked,     \* whether lockedUntil is still to come
    valid,      \* history: [Requests -> hashes the file has had since the attempt began]
    posts       \* what is left of the bound

guardVars == <<attempting, attempt, failures, locked>>
webVars == <<configVars, guardVars, valid, posts>>

Forms == {"login", "confirm"}
IdleAttempt == [pc |-> "idle", form |-> "login", password |-> None, hash |-> None]

WebInit ==
    /\ ConfigInit
    /\ attempting = None /\ attempt = [r \in Requests |-> IdleAttempt]
    /\ failures = 0 /\ locked = FALSE
    /\ valid = [r \in Requests |-> {}]
    /\ posts = MaxPosts

-----------------------------------------------------------------------------
(* The guard. *)

RecordSuccess == failures' = 0 /\ UNCHANGED locked

RecordFailure ==
    IF failures + 1 < Limit
    THEN failures' = failures + 1 /\ UNCHANGED locked
    ELSE failures' = 0 /\ locked' = TRUE

LockoutEnds ==
    /\ locked /\ locked' = FALSE
    /\ UNCHANGED <<configVars, attempting, attempt, failures, valid, posts>>

-----------------------------------------------------------------------------
(* An attempt: checkLoginPassword and confirmPassword. *)

Moves(r, pc) == attempt' = [attempt EXCEPT ![r].pc = pc]

(* Answered: let in, or turned away and nothing of the request kept. *)
Released(r, answer) ==
    /\ attempting' = None
    /\ attempt' = [attempt EXCEPT ![r] = IF answer = "in" THEN [@ EXCEPT !.pc = "in"] ELSE IdleAttempt]
    /\ valid' = [valid EXCEPT ![r] = IF answer = "in" THEN @ ELSE {}]

Post(r, form, password) ==
    /\ daemon /\ attempt[r].pc \in {"idle", "in"} /\ posts > 0
    /\ attempt' = [attempt EXCEPT ![r] =
            [pc |-> "waiting", form |-> form, password |-> password, hash |-> None]]
    /\ valid' = [valid EXCEPT ![r] = {}]
    /\ posts' = posts - 1
    /\ UNCHANGED <<configVars, attempting, failures, locked>>

(* Faulty variant of Attempt: the lockout is read, and nobody waits for anybody. *)
AttemptTogether(r) ==
    /\ attempt[r].pc = "waiting"
    /\ IF locked
       THEN Released(r, "refused")
       ELSE /\ Moves(r, "read") /\ attempting' = r
            /\ valid' = [valid EXCEPT ![r] = {OnDisk.hash}]
    /\ UNCHANGED <<configVars, failures, locked, posts>>

(* The mutex is taken for the whole attempt, and the lockout read under it. *)
Attempt(r) ==
    /\ attempt[r].pc = "waiting" /\ attempting = None
    /\ IF locked
       THEN Released(r, "refused")
       ELSE /\ Moves(r, "read") /\ attempting' = r
            /\ valid' = [valid EXCEPT ![r] = {OnDisk.hash}]
    /\ UNCHANGED <<configVars, failures, locked, posts>>

(* Faulty variant of PasswordHash: the hash the daemon started with. *)
PasswordHashAtStart == inUse.hash

(* passwordHash: from the file, or what the daemon started with if the file
   cannot be read.  Without a password the login form refuses, and the other
   form takes it for a wrong one. *)
PasswordHash == IF Loads THEN OnDisk.hash ELSE inUse.hash

ReadHash(r) ==
    /\ attempt[r].pc = "read"
    /\ IF PasswordHash = None /\ attempt[r].form = "login"
       THEN Released(r, "refused")
       ELSE /\ attempt' = [attempt EXCEPT ![r].pc = "verify", ![r].hash = PasswordHash]
            /\ UNCHANGED <<attempting, valid>>
    /\ UNCHANGED <<configVars, failures, locked, posts>>

Matches(r) == attempt[r].hash # None /\ attempt[r].hash = attempt[r].password

VerifyRight(r) ==
    /\ attempt[r].pc = "verify" /\ Matches(r)
    /\ RecordSuccess /\ Released(r, "in")
    /\ UNCHANGED <<configVars, posts>>

(* A wrong password costs a second before it is counted. *)
VerifyWrong(r) ==
    /\ attempt[r].pc = "verify" /\ ~Matches(r)
    /\ Moves(r, "charge")
    /\ UNCHANGED <<configVars, attempting, failures, locked, valid, posts>>

FailLogin(r) ==
    /\ attempt[r].pc = "charge"
    /\ RecordFailure /\ Released(r, "refused")
    /\ UNCHANGED <<configVars, posts>>

AttemptSteps(r) == Attempt(r) \/ ReadHash(r) \/ VerifyRight(r) \/ VerifyWrong(r) \/ FailLogin(r)

-----------------------------------------------------------------------------
(* The file changes under the attempts. *)
FileSteps ==
    /\ ConfigNext
    /\ valid' = [r \in Requests |->
            IF attempt[r].pc \in {"read", "verify"} THEN valid[r] \union {inode'[config'].cfg.hash} ELSE valid[r]]
    /\ UNCHANGED <<guardVars, posts>>

(* The guard and the attempts go with the process. *)
RestartGuard ==
    /\ StopDaemon
    /\ attempting' = None /\ attempt' = [r \in Requests |-> IdleAttempt]
    /\ failures' = 0 /\ locked' = FALSE /\ valid' = [r \in Requests |-> {}]
    /\ UNCHANGED posts

(* Nothing is left of the bounds, or nobody asks for anything. *)
NobodyThere ==
    /\ \A p \in Savers : saver[p].pc = "idle"
    /\ \A r \in Requests : attempt[r].pc \in {"idle", "in"}
    /\ UNCHANGED webVars

WebNext ==
    \/ LockoutEnds \/ FileSteps \/ RestartGuard \/ NobodyThere
    \/ \E r \in Requests, f \in Forms, w \in Passwords : Post(r, f, w)
    \/ \E r \in Requests : AttemptSteps(r)

WebSpec == WebInit /\ [][WebNext]_webVars

-----------------------------------------------------------------------------
(* Properties. *)

(* However many requests post at once, the guard is the one that tries them
   one at a time.  A wrong password counts from the comparison, a second
   before the counter has it. *)
Tries == IF \E r \in Requests : attempt[r].pc = "charge" THEN failures + 1 ELSE failures

LimitOf == INSTANCE LoginLimit WITH tries <- Tries, lockedOut <- locked

LimitHolds == LimitOf!LimitSpec

(* Whoever is let in gave a password that the file had at some time of the
   attempt: one that `gpb passwd` has replaced stops working at once, and no
   other is ever accepted, as long as the file was never torn by two saves. *)
OnlyCurrentPasswords ==
    apart => \A r \in Requests : attempt[r].pc = "in" => attempt[r].password \in valid[r]
=============================================================================
