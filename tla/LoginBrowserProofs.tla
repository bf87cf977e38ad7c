-------------------------- MODULE LoginBrowserProofs --------------------------
(***************************************************************************)
(* One browser at a time on the profile, and a health that fits the        *)
(* session, for any number of sessions, login browsers and warmups.        *)
(***************************************************************************)
EXTENDS LoginBrowser, FiniteSetTheorems, TLAPS

Started == MaxStarts - left.starts
LoginUp == stack.up \/ ~MuFree
InBrowser(w) == warm[w].pc \in {"browser", "record", "release"}
Closes(a) == stop[a].pc = "release"
ToCheck(a) == stop[a].pc \in {"release", "handler"}

WarmupRecord == [pc : {"none", "acquire", "browser", "record", "release"},
                 saw : {"none", "ok", "auth_required", "warmup_failed", "cancelled"}]

StopRecord == [pc : {"none", "teardown", "release", "handler"}, number : Nat]

LoginTypes ==
    /\ left \in [starts : 0..MaxStarts, warmups : Nat]
    /\ flock \in {"none", "daemon", "cli"}
    /\ warm \in [Warmups -> WarmupRecord]
    /\ stop \in [Stoppers -> StopRecord]
    /\ watch \in [Watchers -> {"off", "ticking", "cancelled"}]
    /\ request \in [Sessions -> {"none", "start", "stop", "logout"}]
    /\ stack.number \in Nat
    /\ spawning \in Sessions \union {"none"}

(* At most one of the warmups, the closing steps and the login browser has
   the profile, and the file lock says whether one has. *)
OneHolder ==
    /\ \A v, w \in Warmups : InBrowser(v) /\ InBrowser(w) => v = w
    /\ \A a, b \in Stoppers : Closes(a) /\ Closes(b) => a = b
    /\ \A w \in Warmups, a \in Stoppers : ~(InBrowser(w) /\ Closes(a))
    /\ LoginUp => /\ \A w \in Warmups : ~InBrowser(w)
                  /\ \A a \in Stoppers : ~Closes(a)
    /\ ~(stack.up /\ ~MuFree)
    /\ flock = "daemon" <=> LoginUp \/ (\E w \in Warmups : InBrowser(w)) \/ (\E a \in Stoppers : Closes(a))

(* The in-process flag follows the file lock. *)
FlagFollows == (flag <=> flock = "daemon") /\ (cli <=> flock = "cli")

(* A goroutine is in Stop once at a time: a page's while its request is being
   served, a watcher's after its last tick. *)
OneStopEach ==
    /\ \A s \in Sessions : stop[s].pc # "none" => request[s] \in {"stop", "logout"}
    /\ \A g \in Watchers : watch[g] # "off" => stop[g].pc = "none"
    /\ \A g \in Watchers : g > Started \/ (~MuFree /\ g = Started) => watch[g] = "off" /\ stop[g].pc = "none"

(* Each browser is closed once and checked once after: no check of it is under
   way while it is still being closed. *)
OneCheckEach ==
    /\ stack.up => stack.number = Started /\ stack.number \in Watchers
    /\ ~MuFree => Started \in Watchers
    /\ \A a \in Stoppers : ToCheck(a) => /\ stop[a].number \in Watchers
                                         /\ stop[a].number <= Started
                                         /\ LoginUp => stop[a].number < Started
    /\ \A a, b \in Stoppers : ToCheck(a) /\ ToCheck(b) /\ a # b => stop[a].number # stop[b].number
    /\ \A w \in Watchers : warm[w].pc # "none" => /\ w <= Started
                                                  /\ LoginUp => w < Started
                                                  /\ \A a \in Stoppers : ToCheck(a) => stop[a].number # w

LoginInv == LoginTypes /\ OneHolder /\ FlagFollows /\ OneStopEach /\ OneCheckEach

(* The actors are the same before and after a step. *)
LEMMA SameActors == Watchers' = Watchers /\ Stoppers' = Stoppers /\ Warmups' = Warmups /\ WarmupRecord' = WarmupRecord /\ StopRecord' = StopRecord
BY DEF Watchers, Stoppers, Warmups, Scheduled, WarmupRecord, StopRecord

(* Moving a warmup on to its next place leaves what it saw and the others. *)
LEMMA MovedOn ==
    ASSUME NEW w \in Warmups, warm \in [Warmups -> WarmupRecord],
           NEW pc \in {"none", "acquire", "browser", "record", "release"},
           warm' = [warm EXCEPT ![w].pc = pc]
    PROVE  /\ warm' \in [Warmups -> WarmupRecord]
           /\ warm'[w].pc = pc
           /\ \A v \in Warmups : v # w => warm'[v] = warm[v]
BY DEF WarmupRecord

(* So does a warmup that begins anew or reports. *)
LEMMA Replaced ==
    ASSUME NEW w \in Warmups, warm \in [Warmups -> WarmupRecord], NEW r \in WarmupRecord,
           warm' = [warm EXCEPT ![w] = r]
    PROVE  /\ warm' \in [Warmups -> WarmupRecord]
           /\ warm'[w] = r
           /\ \A v \in Warmups : v # w => warm'[v] = warm[v]
OBVIOUS

(* A step of Stop leaves the other Stops, and the number of the browser it closes. *)
LEMMA StopMovedOn ==
    ASSUME NEW a \in Stoppers, stop \in [Stoppers -> StopRecord],
           NEW pc \in {"none", "teardown", "release", "handler"},
           stop' = [stop EXCEPT ![a].pc = pc]
    PROVE  /\ stop' \in [Stoppers -> StopRecord]
           /\ stop'[a].pc = pc /\ stop'[a].number = stop[a].number
           /\ \A b \in Stoppers : b # a => stop'[b] = stop[b]
BY DEF StopRecord

LEMMA StopReplaced ==
    ASSUME NEW a \in Stoppers, stop \in [Stoppers -> StopRecord], NEW r \in StopRecord,
           stop' = [stop EXCEPT ![a] = r]
    PROVE  /\ stop' \in [Stoppers -> StopRecord]
           /\ stop'[a] = r
           /\ \A b \in Stoppers : b # a => stop'[b] = stop[b]
OBVIOUS

(* What the types say of the two tables. *)
LEMMA Tables ==
    ASSUME LoginInv
    PROVE  warm \in [Warmups -> WarmupRecord] /\ stop \in [Stoppers -> StopRecord]
BY DEF LoginInv, LoginTypes

(* The same holders hold on. *)
LEMMA HoldersKept ==
    ASSUME LoginInv, UNCHANGED <<spawning, stack>>, flock' = "daemon" <=> flock = "daemon",
           \A w \in Warmups : InBrowser(w)' <=> InBrowser(w),
           \A a \in Stoppers : Closes(a)' <=> Closes(a)
    PROVE  OneHolder'
<1>1. OneHolder
  BY DEF LoginInv
<1>2. (LoginUp' <=> LoginUp) /\ stack'.up = stack.up /\ (MuFree' <=> MuFree)
  BY DEF LoginUp, MuFree
<1> QED BY <1>1, <1>2, SameActors DEF OneHolder

(* The one holder has let go. *)
LEMMA HolderGone ==
    ASSUME LoginInv, flock' = "none", ~LoginUp',
           \A w \in Warmups : ~InBrowser(w)', \A a \in Stoppers : ~Closes(a)'
    PROVE  OneHolder'
BY SameActors DEF OneHolder, LoginUp

(* No request, tick or Stop has moved. *)
LEMMA StopsKept ==
    ASSUME LoginInv, UNCHANGED <<request, watch, stop, left>>, ~MuFree' => ~MuFree,
           UNCHANGED spawning \/ MuFree'
    PROVE  OneStopEach'
<1>1. OneStopEach /\ Started' = Started
  BY DEF LoginInv, Started
<1> QED BY <1>1, SameActors DEF OneStopEach

(* No Stop has begun, no request that is inside Stop has ended and no watcher
   has begun to tick. *)
LEMMA StopsStand ==
    ASSUME LoginInv, UNCHANGED <<watch, request, spawning, left>>,
           \A a \in Stoppers : stop'[a].pc # "none" => stop[a].pc # "none"
    PROVE  OneStopEach'
<1>1. OneStopEach /\ Started' = Started /\ (MuFree' <=> MuFree) /\ Sessions \subseteq Stoppers /\ Watchers \subseteq Stoppers
  BY DEF LoginInv, Started, MuFree, Stoppers
<1> QED BY <1>1, SameActors DEF OneStopEach

(* No Stop has taken a browser and no check has begun. *)
LEMMA ChecksKept ==
    ASSUME LoginInv, Started' = Started, LoginUp' => LoginUp, stack'.up => UNCHANGED stack, ~MuFree' => ~MuFree,
           \A a \in Stoppers : ToCheck(a)' => ToCheck(a) /\ stop'[a].number = stop[a].number,
           \A w \in Watchers : warm'[w].pc # "none" => warm[w].pc # "none"
    PROVE  OneCheckEach'
<1>1. OneCheckEach
  BY DEF LoginInv
<1>2. stack'.up => stack'.number = Started' /\ stack'.number \in Watchers
  BY <1>1 DEF OneCheckEach
<1>3. ~MuFree' => Started' \in Watchers
  BY <1>1 DEF OneCheckEach
<1>4. \A a \in Stoppers : ToCheck(a)' => /\ stop'[a].number \in Watchers
                                         /\ stop'[a].number <= Started'
                                         /\ LoginUp' => stop'[a].number < Started'
  BY <1>1 DEF OneCheckEach
<1>5. \A a, b \in Stoppers : ToCheck(a)' /\ ToCheck(b)' /\ a # b => stop'[a].number # stop'[b].number
  BY <1>1 DEF OneCheckEach
<1>6. \A w \in Watchers : warm'[w].pc # "none" => /\ w <= Started'
                                                  /\ LoginUp' => w < Started'
                                                  /\ \A a \in Stoppers : ToCheck(a)' => stop'[a].number # w
  BY <1>1 DEF OneCheckEach
<1> QED BY <1>2, <1>3, <1>4, <1>5, <1>6, SameActors DEF OneCheckEach

(* What the invariant says of the checks: a browser that is closed and not yet
   checked has a number of its own, with no check of it under way. *)
LEMMA ChecksAreApart ==
    ASSUME LoginInv
    PROVE  /\ \A a \in Stoppers : ToCheck(a) => stop[a].number \in Watchers /\ stop[a].number <= Started
           /\ \A a, b \in Stoppers : ToCheck(a) /\ ToCheck(b) /\ a # b => stop[a].number # stop[b].number
           /\ \A w \in Watchers : warm[w].pc # "none" => w <= Started
           /\ \A w \in Watchers : warm[w].pc # "none" => \A a \in Stoppers : ToCheck(a) => stop[a].number # w
           /\ \A a \in Stoppers : ToCheck(a) => warm[stop[a].number].pc = "none"
<1>1. OneCheckEach
  BY DEF LoginInv
<1>2. \A a \in Stoppers : ToCheck(a) => stop[a].number \in Watchers /\ stop[a].number <= Started
  BY <1>1 DEF OneCheckEach
<1>3. \A a, b \in Stoppers : ToCheck(a) /\ ToCheck(b) /\ a # b => stop[a].number # stop[b].number
  BY <1>1 DEF OneCheckEach
<1>4. \A w \in Watchers : warm[w].pc # "none" => w <= Started
  BY <1>1 DEF OneCheckEach
<1>5. \A w \in Watchers : warm[w].pc # "none" => \A a \in Stoppers : ToCheck(a) => stop[a].number # w
  BY <1>1 DEF OneCheckEach
<1> QED BY <1>2, <1>3, <1>4, <1>5

(* Nothing has been started at first. *)
LEMMA InitInv == LoginInit => LoginInv
<1> SUFFICES ASSUME LoginInit PROVE LoginInv
  OBVIOUS
<1>1. /\ flag = FALSE /\ flock = "none" /\ spawning = "none" /\ cli = FALSE
      /\ stack.up = FALSE /\ stack.number = 0
      /\ left = [starts |-> MaxStarts, warmups |-> MaxWarmups]
      /\ request = [s \in Sessions |-> "none"] /\ watch = [g \in Watchers |-> "off"]
      /\ stop = [a \in Stoppers |-> NoStop] /\ warm = [w \in Warmups |-> NoWarmup]
  BY DEF LoginInit, NoStack
<1>2. NoStop \in StopRecord /\ NoStop.pc = "none" /\ NoWarmup \in WarmupRecord /\ NoWarmup.pc = "none"
  BY DEF NoStop, StopRecord, NoWarmup, WarmupRecord
<1>3. /\ \A a \in Stoppers : stop[a].pc = "none"
      /\ \A w \in Warmups : warm[w].pc = "none"
  BY <1>1, <1>2
<1>4. ~LoginUp /\ MuFree /\ Started = 0
  BY <1>1, LoginConstants DEF LoginUp, MuFree, Started
<1>5. LoginTypes
  BY <1>1, <1>2, LoginConstants DEF LoginTypes
<1>6. OneHolder
  BY <1>1, <1>3, <1>4 DEF OneHolder, InBrowser, Closes
<1>7. FlagFollows
  BY <1>1 DEF FlagFollows
<1>8. OneStopEach
  <2>1. Sessions \subseteq Stoppers /\ Watchers \subseteq Stoppers
    BY DEF Stoppers
  <2> QED BY <1>1, <1>3, <2>1 DEF OneStopEach
<1>9. OneCheckEach
  <2>1. Watchers \subseteq Warmups
    BY DEF Warmups
  <2> QED BY <1>1, <1>3, <1>4, <2>1 DEF OneCheckEach, ToCheck
<1> QED BY <1>5, <1>6, <1>7, <1>8, <1>9 DEF LoginInv

(* A keepalive or a run only asks for the profile. *)
LEMMA WarmupInv ==
    ASSUME LoginInv, NEW w \in Warmups, Warmup(w)
    PROVE  LoginInv'
<1>1. /\ warm' \in [Warmups -> WarmupRecord]
      /\ warm[w].pc = "none" /\ warm'[w].pc = "acquire"
      /\ \A v \in Warmups : v # w => warm'[v] = warm[v]
  <2>1. warm' = [warm EXCEPT ![w].pc = "acquire"] /\ warm[w].pc = "none"
    BY DEF Warmup
  <2> QED BY <2>1, Tables, MovedOn
<1>2. /\ left' \in [starts : 0..MaxStarts, warmups : Nat] /\ left'.starts = left.starts
      /\ UNCHANGED <<flag, flock, spawning, stack, watch, request, stop, cli>>
  <2>1. left \in [starts : 0..MaxStarts, warmups : Nat]
    BY DEF LoginInv, LoginTypes
  <2> QED BY <2>1 DEF Warmup
<1>3. LoginTypes'
  BY <1>1, <1>2, SameActors DEF LoginInv, LoginTypes
<1>4. OneHolder'
  <2>1. \A v \in Warmups : InBrowser(v)' <=> InBrowser(v)
    BY <1>1 DEF InBrowser
  <2> QED BY <1>2, <2>1, HoldersKept DEF Closes
<1>5. FlagFollows'
  BY <1>2 DEF LoginInv, FlagFollows
<1>6. OneStopEach'
  BY <1>2, SameActors DEF LoginInv, OneStopEach, Started, MuFree
<1>7. OneCheckEach'
  <2>1. w \notin Watchers /\ Watchers \subseteq Warmups
    BY LoginConstants DEF Warmup, Scheduled, Watchers, Warmups
  <2>2. \A v \in Watchers : warm'[v].pc # "none" => warm[v].pc # "none"
    BY <1>1, <2>1
  <2> QED BY <1>2, <2>2, ChecksKept DEF Started, LoginUp, MuFree, ToCheck
<1> QED BY <1>3, <1>4, <1>5, <1>6, <1>7 DEF LoginInv

(* A step of a warmup that leaves the profile, the browsers and the Stops, and
   neither begins nor ends the warmup's use of the profile. *)
LEMMA WarmupMoves ==
    ASSUME LoginInv, NEW w \in Warmups, warm[w].pc # "none",
           warm' \in [Warmups -> WarmupRecord], \A v \in Warmups : v # w => warm'[v] = warm[v],
           InBrowser(w)' <=> InBrowser(w),
           UNCHANGED <<flag, flock, spawning, stack, watch, request, stop, cli, left>>
    PROVE  LoginInv'
<1>1. LoginTypes'
  BY SameActors DEF LoginInv, LoginTypes
<1>2. OneHolder'
  <2>1. \A v \in Warmups : InBrowser(v)' <=> InBrowser(v)
    BY DEF InBrowser
  <2> QED BY <2>1, HoldersKept DEF Closes
<1>3. FlagFollows'
  BY DEF LoginInv, FlagFollows
<1>4. OneStopEach'
  BY StopsKept DEF MuFree
<1>5. OneCheckEach'
  <2>1. \A v \in Watchers : warm'[v].pc # "none" => warm[v].pc # "none"
    BY DEF Warmups
  <2> QED BY <2>1, ChecksKept DEF Started, LoginUp, MuFree, ToCheck
<1> QED BY <1>1, <1>2, <1>3, <1>4, <1>5 DEF LoginInv

(* A warmup gets the profile only when nobody holds it. *)
LEMMA BeginWarmupInv ==
    ASSUME LoginInv, NEW w \in Warmups, BeginWarmup(w)
    PROVE  LoginInv'
<1>1. warm[w].pc = "acquire" /\ UNCHANGED <<spawning, stack, watch, request, stop, cli, left>>
  BY DEF BeginWarmup
<1>2. CASE ProfileFree /\ AcquireProfile /\ warm' = [warm EXCEPT ![w].pc = "browser"]
  <2>1. /\ warm' \in [Warmups -> WarmupRecord] /\ warm'[w].pc = "browser"
        /\ \A v \in Warmups : v # w => warm'[v] = warm[v]
    BY <1>2, Tables, MovedOn
  <2>2. ~flag /\ flock = "none" /\ flag' /\ flock' = "daemon"
    BY <1>2 DEF ProfileFree, AcquireProfile
  <2>3. LoginTypes'
    BY <1>1, <2>1, <2>2, SameActors DEF LoginInv, LoginTypes
  <2>4. OneHolder'
    <3>1. /\ \A v \in Warmups : ~InBrowser(v)
          /\ ~LoginUp /\ \A a \in Stoppers : ~Closes(a)
      BY <2>2 DEF LoginInv, OneHolder
    <3>2. /\ \A v \in Warmups : InBrowser(v)' <=> v = w
          /\ ~LoginUp' /\ \A a \in Stoppers : ~Closes(a)'
      BY <1>1, <2>1, <3>1 DEF InBrowser, LoginUp, Closes, MuFree
    <3> QED BY <2>2, <3>2, SameActors DEF OneHolder, LoginUp
  <2>5. FlagFollows'
    BY <1>1, <2>2 DEF LoginInv, FlagFollows
  <2>6. OneStopEach'
    BY <1>1, StopsKept DEF MuFree
  <2>7. OneCheckEach'
    <3>1. \A v \in Watchers : warm'[v].pc # "none" => warm[v].pc # "none"
      BY <1>1, <2>1 DEF Warmups
    <3> QED BY <1>1, <3>1, ChecksKept DEF Started, LoginUp, MuFree, ToCheck
  <2> QED BY <2>3, <2>4, <2>5, <2>6, <2>7 DEF LoginInv
<1>3. CASE UNCHANGED <<flag, flock>> /\ warm' = [warm EXCEPT ![w] = NoWarmup]
  <2>1. NoWarmup \in WarmupRecord /\ NoWarmup.pc = "none"
    BY DEF WarmupRecord, NoWarmup
  <2>2. /\ warm' \in [Warmups -> WarmupRecord] /\ warm'[w] = NoWarmup
        /\ \A v \in Warmups : v # w => warm'[v] = warm[v]
    BY <1>3, <2>1, Tables, Replaced
  <2>3. InBrowser(w)' <=> InBrowser(w)
    BY <1>1, <2>1, <2>2 DEF InBrowser
  <2> QED BY <1>1, <1>3, <2>2, <2>3, WarmupMoves
<1> QED BY <1>2, <1>3, Zenon DEF BeginWarmup

(* The warmup keeps the profile while its browser looks. *)
LEMMA AttemptWarmupInv ==
    ASSUME LoginInv, NEW w \in Warmups, AttemptWarmup(w)
    PROVE  LoginInv'
<1>1. /\ warm[w].pc = "browser"
      /\ UNCHANGED <<flag, flock, spawning, stack, watch, request, stop, cli, left>>
  BY DEF AttemptWarmup
<1>2. PICK saw \in {"ok", "auth_required", "warmup_failed", "cancelled"} :
          warm' = [warm EXCEPT ![w] = [pc |-> "record", saw |-> saw]]
  BY DEF AttemptWarmup
<1>3. [pc |-> "record", saw |-> saw] \in WarmupRecord
  BY DEF WarmupRecord
<1>4. /\ warm' \in [Warmups -> WarmupRecord] /\ warm'[w] = [pc |-> "record", saw |-> saw]
      /\ \A v \in Warmups : v # w => warm'[v] = warm[v]
  BY <1>2, <1>3, Tables, Replaced
<1>5. InBrowser(w)' <=> InBrowser(w)
  BY <1>1, <1>4 DEF InBrowser
<1> QED BY <1>1, <1>4, <1>5, WarmupMoves

(* The warmup keeps the profile while it says what it saw. *)
LEMMA RecordInv ==
    ASSUME LoginInv, NEW w \in Warmups, Record(w)
    PROVE  LoginInv'
<1>1. /\ warm[w].pc = "record" /\ warm' = [warm EXCEPT ![w].pc = "release"]
      /\ UNCHANGED <<flag, flock, spawning, stack, watch, request, stop, cli, left>>
  BY DEF Record
<1>2. /\ warm' \in [Warmups -> WarmupRecord] /\ warm'[w].pc = "release"
      /\ \A v \in Warmups : v # w => warm'[v] = warm[v]
  BY <1>1, Tables, MovedOn
<1>3. InBrowser(w)' <=> InBrowser(w)
  BY <1>1, <1>2 DEF InBrowser
<1> QED BY <1>1, <1>2, <1>3, WarmupMoves

(* The warmup that lets go was the only holder. *)
LEMMA EndWarmupInv ==
    ASSUME LoginInv, NEW w \in Warmups, EndWarmup(w)
    PROVE  LoginInv'
<1>1. /\ warm[w].pc = "release" /\ warm' = [warm EXCEPT ![w] = NoWarmup]
      /\ flag' = FALSE /\ flock' = "none"
      /\ UNCHANGED <<spawning, stack, watch, request, stop, cli, left>>
  BY DEF EndWarmup, ReleaseProfile
<1>2. NoWarmup \in WarmupRecord /\ NoWarmup.pc = "none"
  BY DEF WarmupRecord, NoWarmup
<1>3. /\ warm' \in [Warmups -> WarmupRecord] /\ warm'[w] = NoWarmup
      /\ \A v \in Warmups : v # w => warm'[v] = warm[v]
  BY <1>1, <1>2, Tables, Replaced
<1>4. InBrowser(w)
  BY <1>1 DEF InBrowser
<1>5. /\ ~LoginUp /\ \A v \in Warmups : v # w => ~InBrowser(v)
      /\ \A a \in Stoppers : ~Closes(a)
      /\ flock = "daemon"
  BY <1>4 DEF LoginInv, OneHolder
<1>6. LoginTypes'
  BY <1>1, <1>3, SameActors DEF LoginInv, LoginTypes
<1>7. OneHolder'
  <2>1. /\ ~LoginUp' /\ \A v \in Warmups : ~InBrowser(v)'
        /\ \A a \in Stoppers : ~Closes(a)'
    BY <1>1, <1>2, <1>3, <1>5 DEF InBrowser, LoginUp, MuFree, Closes
  <2> QED BY <1>1, <2>1, HolderGone
<1>8. FlagFollows'
  BY <1>1, <1>5 DEF LoginInv, FlagFollows
<1>9. OneStopEach'
  BY <1>1, StopsKept DEF MuFree
<1>10. OneCheckEach'
  <2>1. \A v \in Watchers : warm'[v].pc # "none" => warm[v].pc # "none"
    BY <1>1, <1>2, <1>3 DEF Warmups
  <2> QED BY <1>1, <2>1, ChecksKept DEF Started, LoginUp, MuFree, ToCheck
<1> QED BY <1>6, <1>7, <1>8, <1>9, <1>10 DEF LoginInv

(* Another process takes the file lock only when it is free. *)
LEMMA CliWarmsInv ==
    ASSUME LoginInv, CliWarms
    PROVE  LoginInv'
<1>1. /\ flock = "none" /\ flock' = "cli" /\ cli'
      /\ UNCHANGED <<flag, spawning, stack, watch, request, stop, warm>>
  BY DEF CliWarms
<1>2. left' \in [starts : 0..MaxStarts, warmups : Nat] /\ left'.starts = left.starts
  <2>1. left \in [starts : 0..MaxStarts, warmups : Nat]
    BY DEF LoginInv, LoginTypes
  <2> QED BY <2>1 DEF CliWarms
<1>3. LoginTypes'
  BY <1>1, <1>2, SameActors DEF LoginInv, LoginTypes
<1>4. OneHolder'
  BY <1>1, HoldersKept DEF InBrowser, Closes
<1>5. FlagFollows'
  BY <1>1 DEF LoginInv, FlagFollows
<1>6. OneStopEach'
  BY <1>1, <1>2, SameActors DEF LoginInv, OneStopEach, Started, MuFree
<1>7. OneCheckEach'
  BY <1>1, <1>2, ChecksKept DEF Started, LoginUp, MuFree, ToCheck
<1> QED BY <1>3, <1>4, <1>5, <1>6, <1>7 DEF LoginInv

(* A session that Google ends holds no browser. *)
LEMMA SessionEndsInv ==
    ASSUME LoginInv, SessionEnds
    PROVE  LoginInv'
<1>1. UNCHANGED <<flag, flock, spawning, stack, watch, request, stop, warm, cli>>
  BY DEF SessionEnds
<1>2. left' \in [starts : 0..MaxStarts, warmups : Nat] /\ left'.starts = left.starts
  <2>1. left \in [starts : 0..MaxStarts, warmups : Nat]
    BY DEF LoginInv, LoginTypes
  <2> QED BY <2>1 DEF SessionEnds
<1>3. LoginTypes'
  BY <1>1, <1>2, SameActors DEF LoginInv, LoginTypes
<1>4. OneHolder'
  BY <1>1, HoldersKept DEF InBrowser, Closes
<1>5. FlagFollows'
  BY <1>1 DEF LoginInv, FlagFollows
<1>6. OneStopEach'
  BY <1>1, <1>2, SameActors DEF LoginInv, OneStopEach, Started, MuFree
<1>7. OneCheckEach'
  BY <1>1, <1>2, ChecksKept DEF Started, LoginUp, MuFree, ToCheck
<1> QED BY <1>3, <1>4, <1>5, <1>6, <1>7 DEF LoginInv

(* Another process drops only its own lock. *)
LEMMA CliEndsInv ==
    ASSUME LoginInv, CliEnds
    PROVE  LoginInv'
<1>1. /\ cli /\ cli' = FALSE /\ flock' = "none"
      /\ UNCHANGED <<flag, spawning, stack, watch, request, stop, warm, left>>
  BY DEF CliEnds
<1>2. flock = "cli" /\ ~flag
  BY <1>1 DEF LoginInv, FlagFollows
<1>3. LoginTypes'
  BY <1>1, SameActors DEF LoginInv, LoginTypes
<1>4. OneHolder'
  BY <1>1, <1>2, HoldersKept DEF InBrowser, Closes
<1>5. FlagFollows'
  BY <1>1, <1>2 DEF FlagFollows
<1>6. OneStopEach'
  BY <1>1, StopsKept DEF MuFree
<1>7. OneCheckEach'
  BY <1>1, ChecksKept DEF Started, LoginUp, MuFree, ToCheck
<1> QED BY <1>3, <1>4, <1>5, <1>6, <1>7 DEF LoginInv

(* A step of the pages' requests alone. *)
LEMMA RequestsMove ==
    ASSUME LoginInv, request' \in [Sessions -> {"none", "start", "stop", "logout"}],
           \A t \in Sessions : stop'[t].pc # "none" => request'[t] \in {"stop", "logout"},
           UNCHANGED <<flag, flock, spawning, stack, watch, stop, warm, cli, left>>
    PROVE  LoginInv'
<1>1. LoginTypes'
  BY SameActors DEF LoginInv, LoginTypes
<1>2. OneHolder'
  BY HoldersKept DEF InBrowser, Closes
<1>3. FlagFollows'
  BY DEF LoginInv, FlagFollows
<1>4. OneStopEach'
  BY SameActors DEF LoginInv, OneStopEach, Started, MuFree
<1>5. OneCheckEach'
  BY ChecksKept DEF Started, LoginUp, MuFree, ToCheck
<1> QED BY <1>1, <1>2, <1>3, <1>4, <1>5 DEF LoginInv

(* A page that asks for a browser holds nothing yet. *)
LEMMA AskToStartInv ==
    ASSUME LoginInv, NEW s \in Sessions, AskToStart(s)
    PROVE  LoginInv'
<1>1. /\ request[s] = "none" /\ request' = [request EXCEPT ![s] = "start"]
      /\ UNCHANGED <<flag, flock, spawning, stack, watch, stop, warm, cli, left>>
  BY DEF AskToStart
<1>2. /\ request' \in [Sessions -> {"none", "start", "stop", "logout"}]
      /\ \A t \in Sessions : request[t] # "none" => request'[t] = request[t]
  BY <1>1 DEF LoginInv, LoginTypes
<1>3. \A t \in Sessions : stop'[t].pc # "none" => request'[t] \in {"stop", "logout"}
  BY <1>1, <1>2 DEF LoginInv, OneStopEach
<1> QED BY <1>1, <1>2, <1>3, RequestsMove

(* A page's request that is over, or was only asked, is in no Stop. *)
LEMMA RequestServed ==
    ASSUME LoginInv, NEW s \in Sessions, stop[s].pc = "none",
           NEW r \in {"none", "start", "stop", "logout"},
           request' = [request EXCEPT ![s] = r], UNCHANGED stop
    PROVE  /\ request' \in [Sessions -> {"none", "start", "stop", "logout"}]
           /\ \A t \in Sessions : stop'[t].pc # "none" => request'[t] \in {"stop", "logout"}
<1>1. request' \in [Sessions -> {"none", "start", "stop", "logout"}] /\ \A t \in Sessions : t # s => request'[t] = request[t]
  BY DEF LoginInv, LoginTypes
<1> QED BY <1>1 DEF LoginInv, OneStopEach

(* A browser is spawned only on a free profile, under a number not used before. *)
LEMMA StartInv ==
    ASSUME LoginInv, NEW s \in Sessions, Start(s)
    PROVE  LoginInv'
<1>1. /\ request[s] = "start" /\ spawning = "none" /\ request' = [request EXCEPT ![s] = "none"]
      /\ UNCHANGED <<stack, watch, stop, warm, cli>>
  BY DEF Start, MuFree
<1>2. stop[s].pc = "none"
  BY <1>1 DEF LoginInv, OneStopEach
<1>3. /\ request' \in [Sessions -> {"none", "start", "stop", "logout"}]
      /\ \A t \in Sessions : stop'[t].pc # "none" => request'[t] \in {"stop", "logout"}
  BY <1>1, <1>2, RequestServed
<1>4. CASE UNCHANGED <<flag, flock, spawning, left>>
  <2>1. LoginTypes'
    BY <1>1, <1>3, <1>4, SameActors DEF LoginInv, LoginTypes
  <2>2. OneHolder'
    BY <1>1, <1>4, HoldersKept DEF InBrowser, Closes
  <2>3. FlagFollows'
    BY <1>1, <1>4 DEF LoginInv, FlagFollows
  <2>4. OneStopEach'
    BY <1>1, <1>3, <1>4, SameActors DEF LoginInv, OneStopEach, Started, MuFree
  <2>5. OneCheckEach'
    BY <1>1, <1>4, ChecksKept DEF Started, LoginUp, MuFree, ToCheck
  <2> QED BY <2>1, <2>2, <2>3, <2>4, <2>5 DEF LoginInv
<1>5. CASE /\ ~stack.up /\ ProfileFree /\ left.starts > 0 /\ AcquireProfile
           /\ spawning' = s /\ left' = [left EXCEPT !.starts = @ - 1]
  <2>1. ~flag /\ flock = "none" /\ flag' /\ flock' = "daemon" /\ spawning' = s /\ s # "none" /\ ~stack'.up
    BY <1>1, <1>5, LoginConstants DEF ProfileFree, AcquireProfile
  <2>2. left' \in [starts : 0..MaxStarts, warmups : Nat] /\ left'.starts = left.starts - 1
    <3>1. left \in [starts : 0..MaxStarts, warmups : Nat] /\ left.starts > 0
      BY <1>5 DEF LoginInv, LoginTypes
    <3>2. left.starts - 1 \in 0..MaxStarts
      BY <3>1, LoginConstants
    <3>3. left' = [left EXCEPT !.starts = @ - 1]
      BY <1>5
    <3> QED BY <3>1, <3>2, <3>3
  <2>3. Started \in Nat /\ Started' = Started + 1 /\ Started' \in Watchers
    <3>1. left.starts \in 1..MaxStarts
      BY <1>5 DEF LoginInv, LoginTypes
    <3> QED BY <2>2, <3>1, LoginConstants DEF Started, Watchers
  <2>4. LoginTypes'
    BY <1>1, <1>3, <2>1, <2>2, SameActors DEF LoginInv, LoginTypes
  <2>5. OneHolder'
    <3>1. (\A w \in Warmups : ~InBrowser(w)) /\ \A a \in Stoppers : ~Closes(a)
      BY <2>1 DEF LoginInv, OneHolder
    <3>2. (\A w \in Warmups : ~InBrowser(w)') /\ \A a \in Stoppers : ~Closes(a)'
      BY <1>1, <3>1 DEF InBrowser, Closes
    <3> QED BY <2>1, <3>2, SameActors DEF OneHolder, LoginUp, MuFree
  <2>6. FlagFollows'
    BY <1>1, <2>1 DEF LoginInv, FlagFollows
  <2>7. OneStopEach'
    <3>1. \A g \in Watchers : watch'[g] # "off" => stop'[g].pc = "none"
      BY <1>1 DEF LoginInv, OneStopEach
    <3>2. \A g \in Watchers : g > Started => watch'[g] = "off" /\ stop'[g].pc = "none"
      BY <1>1 DEF LoginInv, OneStopEach
    <3>3. \A g \in Watchers : g > Started' \/ g = Started' => g > Started
      BY <2>3 DEF Watchers
    <3> QED BY <1>3, <3>1, <3>2, <3>3, SameActors DEF OneStopEach
  <2>8. OneCheckEach'
    <3>1. \A a \in Stoppers : ToCheck(a)' <=> ToCheck(a)
      BY <1>1 DEF ToCheck
    <3>2. \A a \in Stoppers : ToCheck(a)' => /\ stop'[a].number \in Watchers
                                             /\ stop'[a].number <= Started' /\ stop'[a].number < Started'
      <4> SUFFICES ASSUME NEW a \in Stoppers, ToCheck(a)
                   PROVE  /\ stop[a].number \in Watchers
                          /\ stop[a].number <= Started + 1 /\ stop[a].number < Started + 1
        BY <1>1, <2>3, <3>1
      <4>1. stop[a].number \in Watchers /\ stop[a].number <= Started
        BY ChecksAreApart
      <4>2. stop[a].number \in Nat
        BY <4>1 DEF Watchers
      <4> QED BY <2>3, <4>1, <4>2
    <3>3. \A a, b \in Stoppers : ToCheck(a)' /\ ToCheck(b)' /\ a # b => stop'[a].number # stop'[b].number
      BY <1>1, <3>1, ChecksAreApart
    <3>4. \A w \in Watchers : warm'[w].pc # "none" => w < Started' /\ w <= Started'
      <4>1. \A w \in Watchers : w \in Nat /\ (warm[w].pc # "none" => w <= Started)
        BY ChecksAreApart DEF Watchers
      <4> QED BY <1>1, <2>3, <4>1
    <3>5. \A w \in Watchers : warm'[w].pc # "none" => \A a \in Stoppers : ToCheck(a)' => stop'[a].number # w
      BY <1>1, <3>1, ChecksAreApart
    <3> QED BY <2>1, <2>3, <3>2, <3>3, <3>4, <3>5, SameActors DEF OneCheckEach
  <2> QED BY <2>4, <2>5, <2>6, <2>7, <2>8 DEF LoginInv
<1> QED BY <1>1, <1>4, <1>5, Zenon DEF Start

(* A page that enters Stop was not inside Stop, and holds nothing yet. *)
LEMMA PageStops ==
    ASSUME LoginInv, NEW s \in Sessions, request[s] = "none",
           NEW r \in {"stop", "logout"}, request' = [request EXCEPT ![s] = r],
           stop' = [stop EXCEPT ![s].pc = "teardown"],
           UNCHANGED <<flag, flock, spawning, stack, watch, warm, cli, left>>
    PROVE  LoginInv'
<1>1. s \in Stoppers /\ s \notin Watchers /\ Watchers \subseteq Stoppers /\ Sessions \subseteq Stoppers
  BY LoginConstants DEF Stoppers, Watchers
<1>2. stop[s].pc = "none"
  BY DEF LoginInv, OneStopEach
<1>3. /\ stop' \in [Stoppers -> StopRecord] /\ stop'[s].pc = "teardown"
      /\ \A b \in Stoppers : b # s => stop'[b] = stop[b]
  BY <1>1, Tables, StopMovedOn
<1>4. /\ request' \in [Sessions -> {"none", "start", "stop", "logout"}]
      /\ request'[s] = r /\ \A t \in Sessions : t # s => request'[t] = request[t]
  BY DEF LoginInv, LoginTypes
<1>5. \A a \in Stoppers : /\ Closes(a)' <=> Closes(a)
                          /\ ToCheck(a)' => ToCheck(a) /\ stop'[a].number = stop[a].number
  BY <1>2, <1>3 DEF Closes, ToCheck
<1>6. LoginTypes'
  BY <1>3, <1>4, SameActors DEF LoginInv, LoginTypes
<1>7. OneHolder'
  BY <1>5, HoldersKept DEF InBrowser
<1>8. FlagFollows'
  BY DEF LoginInv, FlagFollows
<1>9. OneStopEach'
  <2>1. OneStopEach /\ Started' = Started /\ (MuFree' <=> MuFree)
    BY DEF LoginInv, Started, MuFree
  <2>2. \A t \in Sessions : stop'[t].pc # "none" => request'[t] \in {"stop", "logout"}
    BY <1>1, <1>3, <1>4, <2>1 DEF OneStopEach
  <2>3. \A g \in Watchers : stop'[g] = stop[g] /\ watch'[g] = watch[g]
    BY <1>1, <1>3
  <2>4. \A g \in Watchers : watch'[g] # "off" => stop'[g].pc = "none"
    <3>1. \A g \in Watchers : watch[g] # "off" => stop[g].pc = "none"
      BY <2>1 DEF OneStopEach
    <3> QED BY <2>3, <3>1, Zenon
  <2>5. \A g \in Watchers : g > Started' \/ (~MuFree' /\ g = Started') => watch'[g] = "off" /\ stop'[g].pc = "none"
    <3>1. \A g \in Watchers : g > Started \/ (~MuFree /\ g = Started) => watch[g] = "off" /\ stop[g].pc = "none"
      BY <2>1 DEF OneStopEach
    <3> QED BY <2>1, <2>3, <3>1, Zenon
  <2> QED BY <2>2, <2>4, <2>5, SameActors DEF OneStopEach
<1>10. OneCheckEach'
  BY <1>5, ChecksKept DEF Started, LoginUp, MuFree
<1> QED BY <1>6, <1>7, <1>8, <1>9, <1>10 DEF LoginInv

LEMMA HandleReauthStopInv ==
    ASSUME LoginInv, NEW s \in Sessions, HandleReauthStop(s)
    PROVE  LoginInv'
<1>1. /\ request[s] = "none" /\ request' = [request EXCEPT ![s] = "stop"]
      /\ stop' = [stop EXCEPT ![s].pc = "teardown"]
      /\ UNCHANGED <<flag, flock, spawning, stack, watch, warm, cli, left>>
  BY DEF HandleReauthStop
<1> QED BY <1>1, PageStops

(* A logout enters Stop once, or not at all. *)
LEMMA HandleLogoutInv ==
    ASSUME LoginInv, NEW s \in Sessions, HandleLogout(s)
    PROVE  LoginInv'
<1>1. /\ request[s] = "none" /\ request' = [request EXCEPT ![s] = "logout"]
      /\ UNCHANGED <<flag, flock, spawning, stack, watch, warm, cli, left>>
  BY DEF HandleLogout
<1>2. CASE stop' = [stop EXCEPT ![s].pc = "teardown"]
  BY <1>1, <1>2, PageStops
<1>3. CASE UNCHANGED stop
  <2>1. stop[s].pc = "none"
    BY <1>1 DEF LoginInv, OneStopEach
  <2>2. /\ request' \in [Sessions -> {"none", "start", "stop", "logout"}]
        /\ \A t \in Sessions : stop'[t].pc # "none" => request'[t] \in {"stop", "logout"}
    BY <1>1, <1>3, <2>1, RequestServed
  <2> QED BY <1>1, <1>3, <2>2, RequestsMove
<1> QED BY <1>2, <1>3 DEF HandleLogout

(* A request is answered after its Stop has returned. *)
LEMMA RequestEndsInv ==
    ASSUME LoginInv, NEW s \in Sessions, RequestEnds(s)
    PROVE  LoginInv'
<1>1. /\ stop[s].pc = "none" /\ request' = [request EXCEPT ![s] = "none"]
      /\ UNCHANGED <<flag, flock, spawning, stack, watch, stop, warm, cli, left>>
  BY DEF RequestEnds
<1>2. /\ request' \in [Sessions -> {"none", "start", "stop", "logout"}]
      /\ \A t \in Sessions : stop'[t].pc # "none" => request'[t] \in {"stop", "logout"}
  BY <1>1, RequestServed
<1> QED BY <1>1, <1>2, RequestsMove

(* A spawn that fails was the only holder. *)
LEMMA SpawnFailsInv ==
    ASSUME LoginInv, SpawnFails
    PROVE  LoginInv'
<1>1. /\ ~MuFree /\ spawning' = "none" /\ flag' = FALSE /\ flock' = "none"
      /\ UNCHANGED <<stack, watch, request, stop, warm, cli, left>>
  BY DEF SpawnFails, ReleaseProfile
<1>2. /\ ~stack.up /\ (\A w \in Warmups : ~InBrowser(w)) /\ \A a \in Stoppers : ~Closes(a)
      /\ flock = "daemon"
  BY <1>1 DEF LoginInv, OneHolder, LoginUp
<1>3. LoginTypes'
  BY <1>1, SameActors DEF LoginInv, LoginTypes
<1>4. OneHolder'
  <2>1. ~LoginUp' /\ (\A w \in Warmups : ~InBrowser(w)') /\ \A a \in Stoppers : ~Closes(a)'
    BY <1>1, <1>2 DEF LoginUp, MuFree, InBrowser, Closes
  <2> QED BY <1>1, <2>1, HolderGone
<1>5. FlagFollows'
  BY <1>1, <1>2 DEF LoginInv, FlagFollows
<1>6. OneStopEach'
  BY <1>1, StopsKept DEF MuFree
<1>7. OneCheckEach'
  BY <1>1, ChecksKept DEF Started, LoginUp, MuFree, ToCheck
<1> QED BY <1>3, <1>4, <1>5, <1>6, <1>7 DEF LoginInv

(* The spawned browser holds the profile in place of its Start. *)
LEMMA SpawnedInv ==
    ASSUME LoginInv, Spawned
    PROVE  LoginInv'
<1>1. /\ ~MuFree /\ spawning' = "none"
      /\ stack'.up = TRUE /\ stack'.number = Started
      /\ watch' = [watch EXCEPT ![Started] = "ticking"]
      /\ UNCHANGED <<flag, flock, request, stop, warm, cli, left>>
  BY DEF Spawned, Started
<1>2. Started \in Watchers /\ Started' = Started /\ Started \in Nat
  BY <1>1 DEF LoginInv, OneCheckEach, Started, Watchers
<1>3. /\ watch' \in [Watchers -> {"off", "ticking", "cancelled"}] /\ watch'[Started] = "ticking"
      /\ \A g \in Watchers : g # Started => watch'[g] = watch[g]
  BY <1>1, <1>2 DEF LoginInv, LoginTypes
<1>4. LoginUp /\ LoginUp' /\ MuFree' /\ stack'.up
  BY <1>1 DEF LoginUp, MuFree
<1>5. LoginTypes'
  BY <1>1, <1>2, <1>3, SameActors DEF LoginInv, LoginTypes
<1>6. OneHolder'
  <2>1. (\A w \in Warmups : InBrowser(w)' <=> InBrowser(w)) /\ \A a \in Stoppers : Closes(a)' <=> Closes(a)
    BY <1>1 DEF InBrowser, Closes
  <2>2. OneHolder
    BY DEF LoginInv
  <2> QED BY <1>1, <1>4, <2>1, <2>2, SameActors DEF OneHolder
<1>7. FlagFollows'
  BY <1>1 DEF LoginInv, FlagFollows
<1>8. OneStopEach'
  <2>1. OneStopEach
    BY DEF LoginInv
  <2>2. stop'[Started].pc = "none"
    BY <1>1, <1>2, <2>1 DEF OneStopEach
  <2>3. \A g \in Watchers : g > Started => g # Started
    BY <1>2 DEF Watchers
  <2>4. \A s \in Sessions : stop'[s].pc # "none" => request'[s] \in {"stop", "logout"}
    BY <1>1, <2>1 DEF OneStopEach
  <2>5. \A g \in Watchers : watch'[g] # "off" => stop'[g].pc = "none"
    BY <1>1, <1>3, <2>1, <2>2 DEF OneStopEach
  <2>6. \A g \in Watchers : g > Started' => watch'[g] = "off" /\ stop'[g].pc = "none"
    BY <1>1, <1>2, <1>3, <2>1, <2>3 DEF OneStopEach
  <2> QED BY <1>4, <2>4, <2>5, <2>6, SameActors DEF OneStopEach
<1>9. OneCheckEach'
  <2>1. OneCheckEach
    BY DEF LoginInv
  <2>2. \A a \in Stoppers : (ToCheck(a)' <=> ToCheck(a)) /\ stop'[a] = stop[a]
    BY <1>1 DEF ToCheck
  <2> QED BY <1>1, <1>2, <1>4, <2>1, <2>2, SameActors DEF OneCheckEach
<1> QED BY <1>5, <1>6, <1>7, <1>8, <1>9 DEF LoginInv

(* A watcher enters Stop once, after its last tick. *)
LEMMA WatchIdleInv ==
    ASSUME LoginInv, NEW g \in Watchers, WatchIdle(g)
    PROVE  LoginInv'
<1>1. /\ watch[g] # "off" /\ MuFree
      /\ watch' = [watch EXCEPT ![g] = "off"] /\ stop' = [stop EXCEPT ![g].pc = "teardown"]
      /\ UNCHANGED <<flag, flock, spawning, stack, request, warm, cli, left>>
  BY DEF WatchIdle
<1>2. g \in Stoppers /\ g \notin Sessions /\ Watchers \subseteq Stoppers /\ Sessions \subseteq Stoppers
  BY LoginConstants DEF Stoppers, Watchers
<1>3. OneStopEach /\ stop[g].pc = "none" /\ ~(g > Started)
  BY <1>1 DEF LoginInv, OneStopEach
<1>4. /\ stop' \in [Stoppers -> StopRecord] /\ stop'[g].pc = "teardown"
      /\ \A b \in Stoppers : b # g => stop'[b] = stop[b]
  BY <1>1, <1>2, Tables, StopMovedOn
<1>5. /\ watch' \in [Watchers -> {"off", "ticking", "cancelled"}] /\ watch'[g] = "off"
      /\ \A h \in Watchers : h # g => watch'[h] = watch[h]
  BY <1>1 DEF LoginInv, LoginTypes
<1>6. \A a \in Stoppers : /\ Closes(a)' <=> Closes(a)
                          /\ ToCheck(a)' => ToCheck(a) /\ stop'[a].number = stop[a].number
  BY <1>3, <1>4 DEF Closes, ToCheck
<1>7. LoginTypes'
  BY <1>1, <1>4, <1>5, SameActors DEF LoginInv, LoginTypes
<1>8. OneHolder'
  BY <1>1, <1>6, HoldersKept DEF InBrowser
<1>9. FlagFollows'
  BY <1>1 DEF LoginInv, FlagFollows
<1>10. OneStopEach'
  <2>1. Started' = Started /\ MuFree'
    BY <1>1 DEF Started, MuFree
  <2>2. \A s \in Sessions : stop'[s] = stop[s] /\ request'[s] = request[s]
    BY <1>1, <1>2, <1>4
  <2>3. \A h \in Watchers : h # g => stop'[h] = stop[h] /\ watch'[h] = watch[h]
    BY <1>2, <1>4, <1>5
  <2> QED BY <1>3, <1>5, <2>1, <2>2, <2>3, SameActors DEF OneStopEach
<1>11. OneCheckEach'
  BY <1>1, <1>6, ChecksKept DEF Started, LoginUp, MuFree
<1> QED BY <1>7, <1>8, <1>9, <1>10, <1>11 DEF LoginInv

(* A watcher whose browser is closed just ends. *)
LEMMA WatchEndsInv ==
    ASSUME LoginInv, NEW g \in Watchers, WatchEnds(g)
    PROVE  LoginInv'
<1>1. /\ watch' = [watch EXCEPT ![g] = "off"]
      /\ UNCHANGED <<flag, flock, spawning, stack, request, stop, warm, cli, left>>
  BY DEF WatchEnds
<1>2. /\ watch' \in [Watchers -> {"off", "ticking", "cancelled"}]
      /\ \A h \in Watchers : watch'[h] = "off" \/ watch'[h] = watch[h]
  BY <1>1 DEF LoginInv, LoginTypes
<1>3. LoginTypes'
  BY <1>1, <1>2, SameActors DEF LoginInv, LoginTypes
<1>4. OneHolder'
  BY <1>1, HoldersKept DEF InBrowser, Closes
<1>5. FlagFollows'
  BY <1>1 DEF LoginInv, FlagFollows
<1>6. OneStopEach'
  BY <1>1, <1>2, SameActors DEF LoginInv, OneStopEach, Started, MuFree
<1>7. OneCheckEach'
  BY <1>1, ChecksKept DEF Started, LoginUp, MuFree, ToCheck
<1> QED BY <1>3, <1>4, <1>5, <1>6, <1>7 DEF LoginInv

(* The first of several Stops takes the browser and the others find none. *)
LEMMA TeardownInv ==
    ASSUME LoginInv, NEW a \in Stoppers, Teardown(a)
    PROVE  LoginInv'
<1> DEFINE gone == IF stack.up THEN [pc |-> "release", number |-> stack.number] ELSE NoStop
<1>1. /\ stop[a].pc = "teardown" /\ MuFree /\ stop' = [stop EXCEPT ![a] = gone]
      /\ ~stack'.up /\ stack'.number = 0
      /\ watch' = [g \in Watchers |-> IF g = stack.number /\ watch[g] = "ticking" THEN "cancelled" ELSE watch[g]]
      /\ UNCHANGED <<flag, flock, spawning, request, warm, cli, left>>
  BY DEF Teardown, NoStack
<1>2. gone \in StopRecord /\ (stack.up => gone.pc = "release" /\ gone.number = stack.number) /\ (~stack.up => gone.pc = "none")
  BY DEF LoginInv, LoginTypes, StopRecord, NoStop
<1> HIDE DEF gone
<1>3. /\ stop' \in [Stoppers -> StopRecord] /\ stop'[a] = gone
      /\ \A b \in Stoppers : b # a => stop'[b] = stop[b]
  BY <1>1, <1>2, Tables, StopReplaced
<1>4. /\ watch' \in [Watchers -> {"off", "ticking", "cancelled"}]
      /\ \A g \in Watchers : watch'[g] # "off" <=> watch[g] # "off"
  BY <1>1 DEF LoginInv, LoginTypes
<1>5. /\ (LoginUp <=> stack.up) /\ ~LoginUp' /\ MuFree' /\ Started' = Started /\ ~ToCheck(a) /\ ~Closes(a)
      /\ \A w \in Warmups : (InBrowser(w)' <=> InBrowser(w)) /\ warm'[w] = warm[w]
  BY <1>1 DEF LoginUp, MuFree, Started, ToCheck, Closes, InBrowser
<1>6. \A b \in Stoppers : b # a => (Closes(b)' <=> Closes(b)) /\ (ToCheck(b)' <=> ToCheck(b)) /\ stop'[b] = stop[b]
  BY <1>3 DEF Closes, ToCheck
<1>7. (Closes(a)' <=> stack.up) /\ (ToCheck(a)' <=> stack.up) /\ (stack.up => stop'[a].number = stack.number)
  BY <1>2, <1>3 DEF Closes, ToCheck
<1>8. LoginTypes'
  BY <1>1, <1>3, <1>4, SameActors DEF LoginInv, LoginTypes
<1>9. OneHolder'
  <2>1. OneHolder
    BY DEF LoginInv
  <2>2. CASE stack.up
    <3>1. (\A w \in Warmups : ~InBrowser(w)') /\ (\A b \in Stoppers : Closes(b)' <=> b = a) /\ flock' = "daemon"
      BY <1>1, <1>5, <1>6, <1>7, <2>1, <2>2 DEF OneHolder
    <3> QED BY <1>1, <1>5, <3>1, SameActors DEF OneHolder
  <2>3. CASE ~stack.up
    <3>1. \A b \in Stoppers : Closes(b)' <=> Closes(b)
      BY <1>5, <1>6, <1>7, <2>3
    <3> QED BY <1>1, <1>5, <2>1, <2>3, <3>1, SameActors DEF OneHolder
  <2> QED BY <2>2, <2>3
<1>10. FlagFollows'
  BY <1>1 DEF LoginInv, FlagFollows
<1>11. OneStopEach'
  <2>1. OneStopEach /\ Sessions \subseteq Stoppers /\ Watchers \subseteq Stoppers
    BY DEF LoginInv, Stoppers
  <2>2. \A s \in Sessions : stop'[s].pc # "none" => request'[s] \in {"stop", "logout"}
    BY <1>1, <1>3, <2>1 DEF OneStopEach
  <2>3. \A g \in Watchers : watch'[g] # "off" => stop'[g].pc = "none"
    BY <1>1, <1>3, <1>4, <2>1 DEF OneStopEach
  <2>4. \A g \in Watchers : g > Started' => watch'[g] = "off" /\ stop'[g].pc = "none"
    BY <1>1, <1>3, <1>4, <1>5, <2>1 DEF OneStopEach
  <2> QED BY <1>5, <2>2, <2>3, <2>4, SameActors DEF OneStopEach
<1>12. OneCheckEach'
  <2>1. OneCheckEach /\ Started \in Nat
    BY LoginConstants DEF LoginInv, LoginTypes, Started
  <2>2. \A b \in Stoppers : ToCheck(b)' => stop'[b].number \in Watchers /\ stop'[b].number <= Started'
    BY <1>5, <1>6, <1>7, <2>1 DEF OneCheckEach
  <2>3. \A b \in Stoppers : stack.up /\ ToCheck(b) => stop[b].number # stack.number
    <3> SUFFICES ASSUME NEW b \in Stoppers, stack.up, ToCheck(b) PROVE stop[b].number # stack.number
      OBVIOUS
    <3>1. stop[b].number < Started /\ stop[b].number \in Nat /\ stack.number = Started
      BY <1>5, <2>1 DEF OneCheckEach, Watchers
    <3> QED BY <2>1, <3>1
  <2>4. \A b, c \in Stoppers : ToCheck(b)' /\ ToCheck(c)' /\ b # c => stop'[b].number # stop'[c].number
    BY <1>6, <1>7, <2>1, <2>3 DEF OneCheckEach
  <2>5. Watchers \subseteq Warmups
    BY DEF Warmups
  <2>6. \A w \in Watchers : stack.up /\ warm[w].pc # "none" => w # stack.number
    <3> SUFFICES ASSUME NEW w \in Watchers, stack.up, warm[w].pc # "none" PROVE w # stack.number
      OBVIOUS
    <3>1. w < Started /\ w \in Nat /\ stack.number = Started
      BY <1>5, <2>1 DEF OneCheckEach, Watchers
    <3> QED BY <2>1, <3>1
  <2>7. \A w \in Watchers : warm'[w].pc # "none" => /\ w <= Started'
                                                    /\ \A b \in Stoppers : ToCheck(b)' => stop'[b].number # w
    BY <1>5, <1>6, <1>7, <2>1, <2>5, <2>6 DEF OneCheckEach
  <2> QED BY <1>1, <1>5, <2>2, <2>4, <2>7, SameActors DEF OneCheckEach
<1> QED BY <1>8, <1>9, <1>10, <1>11, <1>12 DEF LoginInv

(* The Stop that releases the profile was the only holder. *)
LEMMA StopReleasesInv ==
    ASSUME LoginInv, NEW a \in Stoppers, StopReleases(a)
    PROVE  LoginInv'
<1>1. /\ stop[a].pc = "release" /\ stop' = [stop EXCEPT ![a].pc = "handler"]
      /\ flag' = FALSE /\ flock' = "none"
      /\ UNCHANGED <<spawning, stack, watch, request, warm, cli, left>>
  BY DEF StopReleases, ReleaseProfile
<1>2. /\ stop' \in [Stoppers -> StopRecord] /\ stop'[a].pc = "handler" /\ stop'[a].number = stop[a].number
      /\ \A b \in Stoppers : b # a => stop'[b] = stop[b]
  BY <1>1, Tables, StopMovedOn
<1>3. /\ ~LoginUp /\ (\A w \in Warmups : ~InBrowser(w)) /\ (\A b \in Stoppers : b # a => ~Closes(b))
      /\ flock = "daemon"
  <2>1. Closes(a)
    BY <1>1 DEF Closes
  <2> QED BY <2>1 DEF LoginInv, OneHolder
<1>4. LoginTypes'
  BY <1>1, <1>2, SameActors DEF LoginInv, LoginTypes
<1>5. OneHolder'
  <2>1. ~LoginUp' /\ (\A w \in Warmups : ~InBrowser(w)') /\ \A b \in Stoppers : ~Closes(b)'
    BY <1>1, <1>2, <1>3 DEF LoginUp, MuFree, InBrowser, Closes
  <2> QED BY <1>1, <2>1, HolderGone
<1>6. FlagFollows'
  BY <1>1, <1>3 DEF LoginInv, FlagFollows
<1>7. OneStopEach'
  <2>1. \A b \in Stoppers : stop'[b].pc # "none" <=> stop[b].pc # "none"
    BY <1>1, <1>2
  <2> QED BY <1>1, <2>1, StopsStand
<1>8. OneCheckEach'
  <2>1. \A b \in Stoppers : ToCheck(b)' => ToCheck(b) /\ stop'[b].number = stop[b].number
    BY <1>1, <1>2 DEF ToCheck
  <2> QED BY <1>1, <2>1, ChecksKept DEF Started, LoginUp, MuFree
<1> QED BY <1>4, <1>5, <1>6, <1>7, <1>8 DEF LoginInv

(* The check after a browser begins when no other check of that browser is under way. *)
LEMMA VerifyAfterReauthInv ==
    ASSUME LoginInv, NEW a \in Stoppers, VerifyAfterReauth(a)
    PROVE  LoginInv'
<1> DEFINE n == stop[a].number
<1>1. /\ stop[a].pc = "handler" /\ stop' = [stop EXCEPT ![a] = NoStop]
      /\ warm' = [warm EXCEPT ![n].pc = "acquire"]
      /\ UNCHANGED <<flag, flock, spawning, stack, watch, request, cli, left>>
  BY DEF VerifyAfterReauth
<1>2. ToCheck(a) /\ ~Closes(a) /\ n \in Watchers /\ n <= Started /\ warm[n].pc = "none"
  <2>1. ToCheck(a) /\ ~Closes(a)
    BY <1>1 DEF ToCheck, Closes
  <2> QED BY <2>1, ChecksAreApart
<1> HIDE DEF n
<1>3. Watchers \subseteq Warmups /\ NoStop \in StopRecord /\ NoStop.pc = "none"
  BY DEF Warmups, NoStop, StopRecord
<1>4. /\ warm' \in [Warmups -> WarmupRecord] /\ warm'[n].pc = "acquire"
      /\ \A w \in Warmups : w # n => warm'[w] = warm[w]
  BY <1>1, <1>2, <1>3, Tables, MovedOn
<1>5. /\ stop' \in [Stoppers -> StopRecord] /\ stop'[a] = NoStop
      /\ \A b \in Stoppers : b # a => stop'[b] = stop[b]
  BY <1>1, <1>3, Tables, StopReplaced
<1>6. LoginTypes'
  BY <1>1, <1>4, <1>5, SameActors DEF LoginInv, LoginTypes
<1>7. OneHolder'
  <2>1. \A w \in Warmups : InBrowser(w)' <=> InBrowser(w)
    BY <1>2, <1>4 DEF InBrowser
  <2>2. \A b \in Stoppers : Closes(b)' <=> Closes(b)
    BY <1>2, <1>3, <1>5 DEF Closes
  <2> QED BY <1>1, <2>1, <2>2, HoldersKept
<1>8. FlagFollows'
  BY <1>1 DEF LoginInv, FlagFollows
<1>9. OneStopEach'
  <2>1. \A b \in Stoppers : stop'[b].pc # "none" => stop[b].pc # "none"
    BY <1>3, <1>5
  <2> QED BY <1>1, <2>1, StopsStand
<1>10. OneCheckEach'
  <2>1. OneCheckEach /\ Started' = Started /\ (LoginUp' <=> LoginUp) /\ (MuFree' <=> MuFree)
    BY <1>1 DEF LoginInv, Started, LoginUp, MuFree
  <2>2. \A b \in Stoppers : ToCheck(b)' => b # a /\ ToCheck(b) /\ stop'[b].number = stop[b].number
    BY <1>3, <1>5 DEF ToCheck
  <2>3. \A b \in Stoppers : ToCheck(b)' => /\ stop'[b].number \in Watchers /\ stop'[b].number <= Started'
                                           /\ LoginUp' => stop'[b].number < Started'
                                           /\ stop'[b].number # n
    BY <1>2, <2>1, <2>2 DEF OneCheckEach, n
  <2>4. \A b, c \in Stoppers : ToCheck(b)' /\ ToCheck(c)' /\ b # c => stop'[b].number # stop'[c].number
    BY <2>1, <2>2 DEF OneCheckEach
  <2>5. LoginUp => n < Started
    BY <1>2, <2>1 DEF OneCheckEach, n
  <2>6. \A w \in Watchers : w # n /\ warm'[w].pc # "none" => /\ w <= Started /\ (LoginUp => w < Started)
                                                             /\ \A b \in Stoppers : ToCheck(b) => stop[b].number # w
    BY <1>3, <1>4, <2>1 DEF OneCheckEach
  <2>7. \A w \in Watchers : warm'[w].pc # "none" => /\ w <= Started' /\ (LoginUp' => w < Started')
                                                    /\ \A b \in Stoppers : ToCheck(b)' => stop'[b].number # w
    BY <1>2, <2>1, <2>2, <2>3, <2>5, <2>6
  <2>8. (stack'.up => stack'.number = Started' /\ stack'.number \in Watchers) /\ (~MuFree' => Started' \in Watchers)
    BY <1>1, <2>1 DEF OneCheckEach
  <2> QED BY <2>3, <2>4, <2>7, <2>8, SameActors DEF OneCheckEach
<1> QED BY <1>6, <1>7, <1>8, <1>9, <1>10 DEF LoginInv

-----------------------------------------------------------------------------
(* A step that touches neither the profile nor anyone on the way to it. *)
LEMMA FrameInv ==
    ASSUME LoginInv, UNCHANGED <<flag, flock, spawning, stack, watch, request, stop, warm, cli, left>>
    PROVE  LoginInv'
<1>1. LoginTypes'
  BY SameActors DEF LoginInv, LoginTypes
<1>2. OneHolder'
  BY HoldersKept DEF InBrowser, Closes
<1>3. FlagFollows'
  BY DEF LoginInv, FlagFollows
<1>4. OneStopEach'
  BY StopsKept DEF MuFree
<1>5. OneCheckEach'
  BY ChecksKept DEF Started, LoginUp, MuFree, ToCheck
<1> QED BY <1>1, <1>2, <1>3, <1>4, <1>5 DEF LoginInv

(* Every step keeps the invariant. *)
LEMMA NextInv ==
    ASSUME LoginInv, [LoginNext]_vars
    PROVE  LoginInv'
<1>1. CASE UNCHANGED vars
  BY <1>1, FrameInv DEF vars
<1>2. ASSUME NEW w \in Warmups, Warmup(w) \/ Warming(w)
      PROVE  LoginInv'
  BY <1>2, WarmupInv, BeginWarmupInv, AttemptWarmupInv, RecordInv, EndWarmupInv DEF Warming
<1>3. CASE CliWarms \/ CliEnds
  BY <1>3, CliWarmsInv, CliEndsInv
<1>4. ASSUME NEW s \in Sessions,
             AskToStart(s) \/ Start(s) \/ HandleReauthStop(s) \/ HandleLogout(s) \/ RequestEnds(s)
      PROVE  LoginInv'
  BY <1>4, AskToStartInv, StartInv, HandleReauthStopInv, HandleLogoutInv, RequestEndsInv
<1>5. ASSUME NEW s \in Sessions,
             OpenSocket(s) \/ CloseSocket(s) \/ Touch(s) \/ SignIn(s) \/ SessionExpires(s)
      PROVE  LoginInv'
  <2>1. UNCHANGED <<flag, flock, spawning, stack, watch, request, stop, warm, cli, left>>
    BY <1>5 DEF OpenSocket, CloseSocket, Touch, SignIn, SessionExpires
  <2> QED BY <2>1, FrameInv
<1>6. CASE SpawnFails \/ Spawned
  BY <1>6, SpawnFailsInv, SpawnedInv
<1>7. CASE IdleTimeout
  BY <1>7, FrameInv DEF IdleTimeout
<1>8. ASSUME NEW g \in Watchers, WatchIdle(g) \/ WatchEnds(g)
      PROVE  LoginInv'
  BY <1>8, WatchIdleInv, WatchEndsInv
<1>9. ASSUME NEW a \in Stoppers, Stopping(a)
      PROVE  LoginInv'
  BY <1>9, TeardownInv, StopReleasesInv, VerifyAfterReauthInv DEF Stopping
<1>10. CASE NothingToDo
  BY <1>10, FrameInv DEF NothingToDo, vars
<1>11. CASE SessionEnds
  BY <1>11, SessionEndsInv
<1> QED BY <1>1, <1>2, <1>3, <1>4, <1>5, <1>6, <1>7, <1>8, <1>9, <1>10, <1>11 DEF LoginNext

(* A set of at most one element has one member or none. *)
LEMMA AtMostOne ==
    ASSUME NEW S, \A x, y \in S : x = y
    PROVE  Cardinality(S) = IF S = {} THEN 0 ELSE 1
<1>1. CASE S = {}
  BY <1>1, FS_EmptySet
<1>2. CASE S # {}
  <2>1. PICK x \in S : TRUE
    BY <1>2
  <2>2. S = {x}
    BY <2>1
  <2> QED BY <1>2, <2>2, FS_Singleton
<1> QED BY <1>1, <1>2

(* The invariant counts the holders. *)
LEMMA HoldersCounted == LoginInv => OneBrowserOnTheProfile
<1> SUFFICES ASSUME LoginInv PROVE OneBrowserOnTheProfile
  OBVIOUS
<1>1. Cardinality(WarmingUp) = IF WarmingUp = {} THEN 0 ELSE 1
  <2>1. \A v, w \in WarmingUp : v = w
    BY DEF LoginInv, OneHolder, InBrowser, WarmingUp
  <2> QED BY <2>1, AtMostOne
<1>2. Cardinality(Closing) = IF Closing = {} THEN 0 ELSE 1
  <2>1. \A a, b \in Closing : a = b
    BY DEF LoginInv, OneHolder, Closes, Closing
  <2> QED BY <2>1, AtMostOne
<1>3. /\ WarmingUp = {} \/ Closing = {}
      /\ LoginUp => WarmingUp = {} /\ Closing = {}
  BY DEF LoginInv, OneHolder, InBrowser, Closes, WarmingUp, Closing
<1>4. flag <=> LoginUp \/ WarmingUp # {} \/ Closing # {}
  BY DEF LoginInv, OneHolder, FlagFollows, InBrowser, Closes, WarmingUp, Closing
<1>5. LoginHolds = IF LoginUp THEN 1 ELSE 0
  BY DEF LoginHolds, LoginUp
<1>6. Cardinality(WarmingUp) + Cardinality(Closing) + LoginHolds = IF flag THEN 1 ELSE 0
  BY <1>1, <1>2, <1>3, <1>4, <1>5
<1> QED BY <1>6 DEF OneBrowserOnTheProfile, LoginInv, FlagFollows

(* One browser at a time drives the profile and nobody lets go of what another
   holds, however many pages open, watch, close and log out, and however many
   warmups come in between (auth.Manager.AcquireProfile, ReauthStack.Start and
   Stop). *)
THEOREM ProfileSafety == LoginSpec => []OneBrowserOnTheProfile
<1>1. LoginInit => LoginInv
  BY InitInv
<1>2. LoginInv /\ [LoginNext]_vars => LoginInv'
  BY NextInv
<1>3. LoginInv => OneBrowserOnTheProfile
  BY HoldersCounted
<1> QED BY <1>1, <1>2, <1>3, PTL DEF LoginSpec

-----------------------------------------------------------------------------
(* What the daemon believes of the session. *)

HealthRecord == [state : {"unknown", "ok", "auth_required", "warmup_failed"}, session : BOOLEAN]
HealthInv == health \in HealthRecord /\ HealthFitsTheSession

(* The four things a warmup can report each leave the state and the session
   agreeing, whatever was believed before. *)
LEMMA RecordHealth ==
    ASSUME HealthInv, NEW w \in Warmups, Record(w)
    PROVE  HealthInv'
<1>1. health \in HealthRecord /\ HealthFitsTheSession
  BY DEF HealthInv
<1>2. CASE health' = [state |-> "ok", session |-> TRUE]
  BY <1>2 DEF HealthInv, HealthRecord, HealthFitsTheSession
<1>3. CASE health' = [state |-> "auth_required", session |-> FALSE]
  BY <1>3 DEF HealthInv, HealthRecord, HealthFitsTheSession
<1>4. CASE health' = [health EXCEPT !.state = "warmup_failed"]
  BY <1>1, <1>4 DEF HealthInv, HealthRecord, HealthFitsTheSession
<1>5. CASE health' = health
  BY <1>1, <1>5 DEF HealthInv, HealthRecord, HealthFitsTheSession
<1> QED BY <1>2, <1>3, <1>4, <1>5 DEF Record

LEMMA NextHealth ==
    ASSUME HealthInv, [LoginNext]_vars
    PROVE  HealthInv'
<1>1. CASE \E w \in Warmups : Record(w)
  BY <1>1, RecordHealth
<1>2. CASE UNCHANGED health
  BY <1>2 DEF HealthInv, HealthRecord, HealthFitsTheSession
<1>3. UNCHANGED vars => UNCHANGED health
  BY DEF vars
<1>4. ASSUME NEW w \in Warmups, Warmup(w) \/ Warming(w)
      PROVE  UNCHANGED health \/ Record(w)
  BY <1>4 DEF Warmup, Warming, BeginWarmup, AttemptWarmup, EndWarmup
<1>5. CliWarms \/ CliEnds \/ SpawnFails \/ Spawned \/ IdleTimeout \/ SessionEnds \/ NothingToDo => UNCHANGED health
  BY DEF CliWarms, CliEnds, SpawnFails, Spawned, IdleTimeout, SessionEnds, NothingToDo, vars
<1>6. ASSUME NEW s \in Sessions,
             \/ AskToStart(s) \/ Start(s) \/ OpenSocket(s) \/ CloseSocket(s) \/ Touch(s) \/ SignIn(s)
             \/ HandleReauthStop(s) \/ HandleLogout(s) \/ RequestEnds(s) \/ SessionExpires(s)
      PROVE  UNCHANGED health
  BY <1>6 DEF AskToStart, Start, OpenSocket, CloseSocket, Touch, SignIn, HandleReauthStop, HandleLogout,
     RequestEnds, SessionExpires
<1>7. ASSUME NEW g \in Watchers, WatchIdle(g) \/ WatchEnds(g)
      PROVE  UNCHANGED health
  BY <1>7 DEF WatchIdle, WatchEnds
<1>8. ASSUME NEW a \in Stoppers, Stopping(a)
      PROVE  UNCHANGED health
  BY <1>8 DEF Stopping, Teardown, StopReleases, VerifyAfterReauth
<1> QED BY <1>1, <1>2, <1>3, <1>4, <1>5, <1>6, <1>7, <1>8 DEF LoginNext

(* Whatever order any number of warmups report in, between any number of
   sign-ins and of sessions that Google ends, the daemon never says ok without a
   session to use, nor asks for a sign-in while it keeps the session of an
   earlier success (auth.Manager.Warmup recording its outcome). *)
THEOREM HealthSafety == LoginSpec => []HealthFitsTheSession
<1>1. LoginInit => HealthInv
  BY DEF LoginInit, HealthInv, HealthRecord, HealthFitsTheSession
<1>2. HealthInv /\ [LoginNext]_vars => HealthInv'
  BY NextHealth
<1>3. HealthInv => HealthFitsTheSession
  BY DEF HealthInv
<1> QED BY <1>1, <1>2, <1>3, PTL DEF LoginSpec
=============================================================================
