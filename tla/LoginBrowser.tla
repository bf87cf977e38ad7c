----------------------------- MODULE LoginBrowser -----------------------------
(***************************************************************************)
(* The Google session: who drives the one browser profile and what the     *)
(* daemon then believes of it (internal/auth), and the login browser the   *)
(* pages open, watch and close (internal/web/reauth.go, login.go).         *)
(*                                                                         *)
(* The profile is claimed by an in-process flag and a file lock together.  *)
(* ReauthStack.mu is held while the browser is spawned; every other use of *)
(* it is one step here.  Stop lets go of it before the profile is released *)
(* and the daemon told.                                                    *)
(***************************************************************************)
EXTENDS Naturals, FiniteSets

CONSTANTS
    Sessions,     \* web sessions
    Events,       \* what can happen: subset of EventKinds
    MaxStarts,    \* bound: login browsers started
    MaxWarmups    \* bound: keepalive and run warmups, `gpb sync` commands, sessions Google ends

EventKinds == {"cli", "expire", "spawnfails", "checkfails", "cancel", "ended"}

ASSUME LoginConstants ==
    /\ IsFiniteSet(Sessions) /\ Events \subseteq EventKinds
    /\ MaxStarts \in Nat /\ MaxWarmups \in Nat
    /\ "none" \notin Sessions /\ Sessions \intersect 1..MaxStarts = {}

Watchers == 1..MaxStarts                       \* one goroutine per browser started
Stoppers == Sessions \union Watchers           \* who may be inside ReauthStack.Stop
Scheduled == {MaxStarts + 1, MaxStarts + 2}    \* the keepalive's warmup and a run's
Warmups == Watchers \union Scheduled            \* a watcher's number: the check after that browser

VARIABLES
    flag,       \* Manager.profileBusy of the daemon
    flock,      \* who has the profile's file lock: "none", "daemon", "cli"
    spawning,   \* the session whose Start holds ReauthStack.mu, or "none"
    stack,      \* the running login browser
    quiet,      \* lastActivity is older than the idle timeout
    viewers,    \* sessions whose socket is bridged to it
    watch,      \* [Watchers -> where its watchIdle is]
    request,    \* [Sessions -> the page request being served]
    stop,       \* [Stoppers -> where in Stop it is, and which browser it closed]
    open,       \* sessions still open
    warm,       \* [Warmups -> where the warmup is, and what it saw]
    health,     \* Manager.state and whether it has a session
    signedIn,   \* Google accepts the profile's cookies
    cli,        \* a `gpb sync` is warming the profile
    left        \* what is left of the bounds

vars == <<flag, flock, spawning, stack, quiet, viewers, watch, request, stop, open, warm, health, signedIn, cli, left>>

NoStack == [up |-> FALSE, owner |-> "none", number |-> 0]
NoStop == [pc |-> "none", number |-> 0]
NoWarmup == [pc |-> "none", saw |-> "none"]

LoginInit ==
    /\ flag = FALSE /\ flock = "none" /\ spawning = "none"
    /\ stack = NoStack /\ quiet = FALSE /\ viewers = {}
    /\ watch = [g \in Watchers |-> "off"]
    /\ request = [s \in Sessions |-> "none"]
    /\ stop = [a \in Stoppers |-> NoStop]
    /\ open = Sessions
    /\ warm = [w \in Warmups |-> NoWarmup]
    /\ health = [state |-> "unknown", session |-> FALSE]
    /\ signedIn \in BOOLEAN
    /\ cli = FALSE
    /\ left = [starts |-> MaxStarts, warmups |-> MaxWarmups]

MuFree == spawning = "none"

-----------------------------------------------------------------------------
(* The profile. *)

ProfileFree == ~flag /\ flock = "none"
AcquireProfile == flag' = TRUE /\ flock' = "daemon"
ReleaseProfile == flag' = FALSE /\ flock' = "none"

(* A keepalive tick, or a run connecting, begins a warmup. *)
Warmup(w) ==
    /\ w \in Scheduled /\ warm[w].pc = "none" /\ left.warmups > 0
    /\ left' = [left EXCEPT !.warmups = @ - 1]
    /\ warm' = [warm EXCEPT ![w].pc = "acquire"]
    /\ UNCHANGED <<flag, flock, spawning, stack, quiet, viewers, watch, request, stop, open, health, signedIn, cli>>

(* A profile in use refuses the warmup, which then says nothing. *)
BeginWarmup(w) ==
    /\ warm[w].pc = "acquire"
    /\ \/ ProfileFree /\ AcquireProfile /\ warm' = [warm EXCEPT ![w].pc = "browser"]
       \/ ~ProfileFree /\ UNCHANGED <<flag, flock>> /\ warm' = [warm EXCEPT ![w] = NoWarmup]
    /\ UNCHANGED <<spawning, stack, quiet, viewers, watch, request, stop, open, health, signedIn, cli, left>>

(* The browser lands where Google sends it, or the check cannot be made. *)
AttemptWarmup(w) ==
    /\ warm[w].pc = "browser"
    /\ \E saw \in {IF signedIn THEN "ok" ELSE "auth_required"}
                  \union (IF "checkfails" \in Events THEN {"warmup_failed"} ELSE {})
                  \union (IF "cancel" \in Events THEN {"cancelled"} ELSE {}) :
        warm' = [warm EXCEPT ![w] = [pc |-> "record", saw |-> saw]]
    /\ UNCHANGED <<flag, flock, spawning, stack, quiet, viewers, watch, request, stop, open, health, signedIn, cli, left>>

(* Faulty variant of Record: a session is not let go of when Google has ended it. *)
RecordKeepingTheSession(w) ==
    /\ warm[w].pc = "record"
    /\ health' = CASE warm[w].saw = "ok" -> [state |-> "ok", session |-> TRUE]
                   [] warm[w].saw = "auth_required" -> [health EXCEPT !.state = "auth_required"]
                   [] warm[w].saw = "warmup_failed" -> [health EXCEPT !.state = "warmup_failed"]
                   [] OTHER -> health
    /\ warm' = [warm EXCEPT ![w].pc = "release"]
    /\ UNCHANGED <<flag, flock, spawning, stack, quiet, viewers, watch, request, stop, open, signedIn, cli, left>>

(* An abandoned warmup is no evidence; a check that could not be made leaves
   the session in place. *)
Record(w) ==
    /\ warm[w].pc = "record"
    /\ health' = CASE warm[w].saw = "ok" -> [state |-> "ok", session |-> TRUE]
                   [] warm[w].saw = "auth_required" -> [state |-> "auth_required", session |-> FALSE]
                   [] warm[w].saw = "warmup_failed" -> [health EXCEPT !.state = "warmup_failed"]
                   [] OTHER -> health
    /\ warm' = [warm EXCEPT ![w].pc = "release"]
    /\ UNCHANGED <<flag, flock, spawning, stack, quiet, viewers, watch, request, stop, open, signedIn, cli, left>>

EndWarmup(w) ==
    /\ warm[w].pc = "release"
    /\ ReleaseProfile
    /\ warm' = [warm EXCEPT ![w] = NoWarmup]
    /\ UNCHANGED <<spawning, stack, quiet, viewers, watch, request, stop, open, health, signedIn, cli, left>>

(* Another process's warmup; the kernel drops its lock however it ends. *)
CliWarms ==
    /\ "cli" \in Events /\ ~cli /\ flock = "none" /\ left.warmups > 0
    /\ cli' = TRUE /\ flock' = "cli"
    /\ left' = [left EXCEPT !.warmups = @ - 1]
    /\ UNCHANGED <<flag, spawning, stack, quiet, viewers, watch, request, stop, open, warm, health, signedIn>>

CliEnds ==
    /\ cli /\ cli' = FALSE /\ flock' = "none"
    /\ UNCHANGED <<flag, spawning, stack, quiet, viewers, watch, request, stop, open, warm, health, signedIn, left>>

Warming(w) == BeginWarmup(w) \/ AttemptWarmup(w) \/ Record(w) \/ EndWarmup(w)

-----------------------------------------------------------------------------
(* ReauthStack.Start, asked for by a page. *)

AskToStart(s) ==
    /\ s \in open /\ request[s] = "none" /\ left.starts > 0
    /\ request' = [request EXCEPT ![s] = "start"]
    /\ UNCHANGED <<flag, flock, spawning, stack, quiet, viewers, watch, stop, open, warm, health, signedIn, cli, left>>

(* Refused while a browser runs or the profile is in use. *)
Start(s) ==
    /\ request[s] = "start" /\ MuFree
    /\ request' = [request EXCEPT ![s] = "none"]
    /\ \/ /\ ~stack.up /\ ProfileFree /\ left.starts > 0
          /\ AcquireProfile /\ spawning' = s
          /\ left' = [left EXCEPT !.starts = @ - 1]
       \/ /\ stack.up \/ ~ProfileFree \/ left.starts = 0
          /\ UNCHANGED <<flag, flock, spawning, left>>
    /\ UNCHANGED <<stack, quiet, viewers, watch, stop, open, warm, health, signedIn, cli>>

SpawnFails ==
    /\ ~MuFree /\ "spawnfails" \in Events
    /\ spawning' = "none" /\ ReleaseProfile
    /\ UNCHANGED <<stack, quiet, viewers, watch, request, stop, open, warm, health, signedIn, cli, left>>

Spawned ==
    /\ ~MuFree
    /\ LET number == MaxStarts - left.starts
       IN  /\ stack' = [up |-> TRUE, owner |-> spawning, number |-> number]
           /\ watch' = [watch EXCEPT ![number] = "ticking"]
    /\ quiet' = FALSE /\ spawning' = "none"
    /\ UNCHANGED <<flag, flock, viewers, request, stop, open, warm, health, signedIn, cli, left>>

-----------------------------------------------------------------------------
(* The login browser in use. *)

MayReachTheLoginBrowser(s) == stack.up /\ (stack.owner = s \/ stack.owner \notin open)

OpenSocket(s) ==
    /\ s \in open /\ MuFree /\ MayReachTheLoginBrowser(s)
    /\ viewers' = viewers \union {s}
    /\ UNCHANGED <<flag, flock, spawning, stack, quiet, watch, request, stop, open, warm, health, signedIn, cli, left>>

CloseSocket(s) ==
    /\ s \in viewers /\ viewers' = viewers \ {s}
    /\ UNCHANGED <<flag, flock, spawning, stack, quiet, watch, request, stop, open, warm, health, signedIn, cli, left>>

Touch(s) ==
    /\ s \in viewers /\ MuFree /\ quiet
    /\ quiet' = FALSE
    /\ UNCHANGED <<flag, flock, spawning, stack, viewers, watch, request, stop, open, warm, health, signedIn, cli, left>>

SignIn(s) ==
    /\ s \in viewers /\ ~signedIn
    /\ signedIn' = TRUE
    /\ UNCHANGED <<flag, flock, spawning, stack, quiet, viewers, watch, request, stop, open, warm, health, cli, left>>

(* Google ends the session: what signed in a moment ago is signed out. *)
SessionEnds ==
    /\ signedIn /\ "ended" \in Events /\ left.warmups > 0
    /\ signedIn' = FALSE
    /\ left' = [left EXCEPT !.warmups = @ - 1]
    /\ UNCHANGED <<flag, flock, spawning, stack, quiet, viewers, watch, request, stop, open, warm, health, cli>>

(* The idle timeout goes by with no traffic. *)
IdleTimeout ==
    /\ stack.up /\ ~quiet /\ quiet' = TRUE
    /\ UNCHANGED <<flag, flock, spawning, stack, viewers, watch, request, stop, open, warm, health, signedIn, cli, left>>

-----------------------------------------------------------------------------
(* Closing it: the idle watcher, the page, a logout.  Each decides first and
   calls Stop after. *)

(* Faulty variant of WatchIdle: a browser whose session has gone is left alone. *)
WatchIdleOfOpenSessions(g) ==
    /\ watch[g] \in {"ticking", "cancelled"} /\ MuFree /\ quiet
    /\ watch' = [watch EXCEPT ![g] = IF stack.owner \in open THEN "off" ELSE @]
    /\ stop' = IF stack.owner \in open THEN [stop EXCEPT ![g].pc = "teardown"] ELSE stop
    /\ UNCHANGED <<flag, flock, spawning, stack, quiet, viewers, request, open, warm, health, signedIn, cli, left>>

(* A tick that finds the browser idle.  A select that finds the context done
   and a tick waiting may take the tick. *)
WatchIdle(g) ==
    /\ watch[g] \in {"ticking", "cancelled"} /\ MuFree /\ quiet
    /\ watch' = [watch EXCEPT ![g] = "off"]
    /\ stop' = [stop EXCEPT ![g].pc = "teardown"]
    /\ UNCHANGED <<flag, flock, spawning, stack, quiet, viewers, request, open, warm, health, signedIn, cli, left>>

WatchEnds(g) ==
    /\ watch[g] = "cancelled" /\ watch' = [watch EXCEPT ![g] = "off"]
    /\ UNCHANGED <<flag, flock, spawning, stack, quiet, viewers, request, stop, open, warm, health, signedIn, cli, left>>

HandleReauthStop(s) ==
    /\ s \in open /\ request[s] = "none" /\ MuFree /\ MayReachTheLoginBrowser(s)
    /\ request' = [request EXCEPT ![s] = "stop"]
    /\ stop' = [stop EXCEPT ![s].pc = "teardown"]
    /\ UNCHANGED <<flag, flock, spawning, stack, quiet, viewers, watch, open, warm, health, signedIn, cli, left>>

(* handleLogout stops the browser its session started, then ends the session. *)
HandleLogout(s) ==
    /\ s \in open /\ request[s] = "none" /\ MuFree
    /\ request' = [request EXCEPT ![s] = "logout"]
    /\ stop' = IF stack.up /\ stack.owner = s THEN [stop EXCEPT ![s].pc = "teardown"] ELSE stop
    /\ UNCHANGED <<flag, flock, spawning, stack, quiet, viewers, watch, open, warm, health, signedIn, cli, left>>

RequestEnds(s) ==
    /\ request[s] \in {"stop", "logout"} /\ stop[s].pc = "none"
    /\ request' = [request EXCEPT ![s] = "none"]
    /\ open' = IF request[s] = "logout" THEN open \ {s} ELSE open
    /\ UNCHANGED <<flag, flock, spawning, stack, quiet, viewers, watch, stop, warm, health, signedIn, cli, left>>

SessionExpires(s) ==
    /\ s \in open /\ "expire" \in Events
    /\ open' = open \ {s}
    /\ UNCHANGED <<flag, flock, spawning, stack, quiet, viewers, watch, request, stop, warm, health, signedIn, cli, left>>

(* Faulty variant of Teardown: the profile is released whether or not a browser ran. *)
TeardownRegardless(a) ==
    /\ stop[a].pc = "teardown" /\ MuFree
    /\ stop' = [stop EXCEPT ![a] = [pc |-> "release", number |-> stack.number]]
    /\ stack' = NoStack /\ viewers' = {}
    /\ watch' = [g \in Watchers |-> IF g = stack.number /\ watch[g] = "ticking" THEN "cancelled" ELSE watch[g]]
    /\ UNCHANGED <<flag, flock, spawning, quiet, request, open, warm, health, signedIn, cli, left>>

(* Under mu; nothing running, nothing to stop. *)
Teardown(a) ==
    /\ stop[a].pc = "teardown" /\ MuFree
    /\ stop' = [stop EXCEPT ![a] = IF stack.up THEN [pc |-> "release", number |-> stack.number] ELSE NoStop]
    /\ stack' = NoStack /\ viewers' = {}
    /\ watch' = [g \in Watchers |-> IF g = stack.number /\ watch[g] = "ticking" THEN "cancelled" ELSE watch[g]]
    /\ UNCHANGED <<flag, flock, spawning, quiet, request, open, warm, health, signedIn, cli, left>>

StopReleases(a) ==
    /\ stop[a].pc = "release"
    /\ ReleaseProfile
    /\ stop' = [stop EXCEPT ![a].pc = "handler"]
    /\ UNCHANGED <<spawning, stack, quiet, viewers, watch, request, open, warm, health, signedIn, cli, left>>

(* Faulty variant of VerifyAfterReauth: only a close from a page is verified. *)
VerifyAfterAPageOnly(a) ==
    /\ stop[a].pc = "handler"
    /\ stop' = [stop EXCEPT ![a] = NoStop]
    /\ warm' = IF a \in Sessions THEN [warm EXCEPT ![stop[a].number].pc = "acquire"] ELSE warm
    /\ UNCHANGED <<flag, flock, spawning, stack, quiet, viewers, watch, request, open, health, signedIn, cli, left>>

VerifyAfterReauth(a) ==
    /\ stop[a].pc = "handler"
    /\ stop' = [stop EXCEPT ![a] = NoStop]
    /\ warm' = [warm EXCEPT ![stop[a].number].pc = "acquire"]
    /\ UNCHANGED <<flag, flock, spawning, stack, quiet, viewers, watch, request, open, health, signedIn, cli, left>>

Stopping(a) == Teardown(a) \/ StopReleases(a) \/ VerifyAfterReauth(a)

(* Everybody has gone and nothing is running. *)
NothingToDo ==
    /\ ~stack.up /\ MuFree /\ left.warmups = 0
    /\ UNCHANGED vars

LoginNext ==
    \/ \E w \in Warmups : Warmup(w) \/ Warming(w)
    \/ CliWarms \/ CliEnds
    \/ \E s \in Sessions :
        \/ AskToStart(s) \/ Start(s) \/ OpenSocket(s) \/ CloseSocket(s) \/ Touch(s) \/ SignIn(s)
        \/ HandleReauthStop(s) \/ HandleLogout(s) \/ RequestEnds(s) \/ SessionExpires(s)
    \/ SpawnFails \/ Spawned \/ IdleTimeout \/ SessionEnds
    \/ \E g \in Watchers : WatchIdle(g) \/ WatchEnds(g)
    \/ \E a \in Stoppers : Stopping(a)
    \/ NothingToDo

LoginSpec == LoginInit /\ [][LoginNext]_vars

(* Tickers tick, children start or fail within a bounded wait, handlers and
   warmups run to their end.  Nothing is assumed of the people. *)
LoginFairness ==
    /\ WF_vars(Spawned \/ SpawnFails) /\ WF_vars(IdleTimeout) /\ WF_vars(CliEnds)
    /\ \A g \in Watchers : WF_vars(WatchIdle(g)) /\ WF_vars(WatchEnds(g))
    /\ \A a \in Stoppers : WF_vars(Stopping(a))
    /\ \A w \in Warmups : WF_vars(Warming(w))
    /\ \A s \in Sessions : WF_vars(Start(s)) /\ WF_vars(RequestEnds(s))

FairLoginSpec == LoginSpec /\ LoginFairness

-----------------------------------------------------------------------------
(* Properties. *)

(* Whatever order warmups, sign-ins, sessions that Google ends and failed checks
   record their results in, health says ok only with a session to use, and that
   a sign-in is needed only without one: the session of an earlier success does
   not outlive the check that finds it ended. *)
HealthFitsTheSession ==
    /\ health.state = "ok" => health.session
    /\ health.state \in {"unknown", "auth_required"} => ~health.session

WarmingUp == {w \in Warmups : warm[w].pc \in {"browser", "record", "release"}}
Closing == {a \in Stoppers : stop[a].pc = "release"}
LoginHolds == IF stack.up \/ ~MuFree THEN 1 ELSE 0

(* One browser at a time drives the profile, in this process or another, and
   nobody lets go of what another holds: the flag is up exactly while one
   warmup, one login browser or one that is being closed has the profile. *)
OneBrowserOnTheProfile ==
    /\ Cardinality(WarmingUp) + Cardinality(Closing) + LoginHolds = IF flag THEN 1 ELSE 0
    /\ flag <=> flock = "daemon"
    /\ cli <=> flock = "cli"

(* A login browser nobody uses is closed, whoever started it and wherever they
   have gone. *)
IdleBrowserIsClosed == stack.up ~> ~stack.up \/ viewers # {}

(* A sign-in completed in the login browser is noticed however the browser is
   closed and whichever warmup then gets the profile, unless that warmup is
   another process's or is abandoned, or another login browser is asked for
   first and takes the profile: then its close, or the next keepalive, tells.
   And unless Google ends the session again. *)
LoginIsNoticed ==
    (\E a \in Stoppers : stop[a].pc = "release") /\ signedIn
        ~> \/ health.state # "auth_required" \/ ~signedIn
           \/ cli \/ ~MuFree \/ \E w \in Warmups : warm[w].saw = "cancelled"
=============================================================================
