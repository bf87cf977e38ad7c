------------------------------- MODULE SyncRun -------------------------------
(***************************************************************************)
(* One process making backup runs, one after another (internal/syncer).    *)
(* A run is three kinds of goroutine over one store: the walker that lists *)
(* albums and writes off what has left them, the feeder that hands out     *)
(* pending items, and the workers that fetch them.  Google's albums change *)
(* underneath, somebody is at the pages, and the process may be told to    *)
(* stop or die at any moment.  A step is one store statement or one answer *)
(* from Google; reads whose result is used later are kept in the goroutine *)
(* that read them.                                                         *)
(*                                                                         *)
(* A page of a listing holds one item here: what happens between two items *)
(* of a page is then what happens between two pages.                       *)
(***************************************************************************)
EXTENDS ItemStore, Protocol

CONSTANTS
    Library,          \* the albums row that stands for the whole account
    Workers,          \* worker goroutines
    MaxItemsPerRun,   \* Options.MaxItemsPerRun
    MaxAttempts,      \* Options.MaxAttempts
    BreakerThreshold, \* Options.BreakerThreshold
    Faults,           \* what can go wrong: subset of FaultKinds
    MaxRuns,          \* bound: runs in a behaviour
    MaxUpstream,      \* bound: changes Google's albums undergo
    MaxVisits         \* bound: changes made from the pages

FaultKinds == RpcAnswers \union ContentAnswers \union {"empty", "store", "noroom", "vanish", "stop", "crash"}

ASSUME RunConstants ==
    /\ Library \in Albums
    /\ Workers # {} /\ IsFiniteSet(Keys)
    /\ MaxItemsPerRun \in Nat \ {0}
    /\ MaxAttempts \in Nat \ {0}
    /\ BreakerThreshold \in Nat \ {0}
    /\ Faults \subseteq FaultKinds
    /\ MaxRuns \in Nat /\ MaxUpstream \in Nat /\ MaxVisits \in Nat

VARIABLES
    google,     \* [Albums -> SUBSET Keys]: what each album holds upstream
    named,      \* the albums Google's album listings name
    phase,      \* "idle", "reclaim", "running", "draining" or "finished"
    stopping,   \* the run's own context is cancelled: the process was told to stop
    walk,       \* the walker goroutine
    feed,       \* the feeder goroutine
    work,       \* [Workers -> what the worker is doing]
    breaker,    \* the circuit breaker and the report's failure count
    outcome,    \* outcome of the last finished run
    budget,     \* what is left of the bounds above
    hist        \* history the properties read

runVars == <<google, named, phase, stopping, walk, feed, work, breaker, outcome, budget, hist>>
vars == <<storeVars, runVars>>

(* What a request of the walk, or an attempt at an item, may fail with. *)
ListingErrors == {DecodeListing(answer) : answer \in RpcAnswers \intersect Faults} \ {"none"}
AttemptErrors ==
    LET rpc == (RpcAnswers \intersect Faults) \union {"payload", "declined"}
    IN  {DownloadOriginal(first, second, content) :
            first \in rpc, second \in rpc, content \in (ContentAnswers \intersect Faults) \union {"body"}}
        \ {"none"}

IdleWalk == [pc |-> "off", todo |-> {}, listed |-> {}, full |-> {}, album |-> Library, item |-> "none",
             members |-> {},
             matters |-> FALSE, ahead |-> {}, seen |-> {}, arrived |-> {}, walked |-> {},
             followed |-> {}, skipped |-> FALSE, unlisted |-> FALSE, err |-> "none"]
IdleFeed == [pc |-> "off", batch |-> {}, offered |-> {}, fresh |-> 0, listingOver |-> FALSE, noRoom |-> FALSE]
IdleWorker == [pc |-> "idle", key |-> "none", attempt |-> 0, cause |-> "none"]
IdleBreaker == [consecutive |-> 0, cause |-> "none", failed |-> FALSE]

(* Contexts: the download's is cancelled by a stop or by the breaker, the
   listing's by a stop or once the download half has returned. *)
DownloadCancelled == stopping \/ breaker.cause # "none"
ListCancelled == stopping \/ phase = "draining"
WorkersIdle == \A w \in Workers : work[w].pc = "idle"

RunInit ==
    /\ StoreInit /\ mode[Library] # "picked"
    /\ google \in [Albums -> SUBSET Keys]
    /\ named = Albums \ {Library}
    /\ phase = "idle"
    /\ stopping = FALSE
    /\ walk = IdleWalk /\ feed = IdleFeed /\ breaker = IdleBreaker
    /\ work = [w \in Workers |-> IdleWorker]
    /\ outcome = "none"
    /\ budget = [runs |-> MaxRuns, upstream |-> MaxUpstream, visits |-> MaxVisits]
    /\ hist = [absent |-> {}, touched |-> {}, known |-> [a \in Albums |-> {}], drained |-> FALSE]

-----------------------------------------------------------------------------
(* The run: Run and listAndDownload. *)

StartRun ==
    /\ phase \in {"idle", "finished"} /\ budget.runs > 0
    /\ phase' = "reclaim" /\ stopping' = FALSE /\ outcome' = "none"
    /\ budget' = [budget EXCEPT !.runs = @ - 1]
    /\ walk' = IdleWalk /\ feed' = IdleFeed /\ breaker' = IdleBreaker
    /\ hist' = [hist EXCEPT !.touched = {}, !.drained = FALSE]
    /\ UNCHANGED <<storeVars, google, named, work>>

(* reclaimVanishedFiles: a done item whose file the disk no longer has goes
   back on the work list. *)
ReclaimVanishedFile(k) ==
    /\ phase = "reclaim" /\ "vanish" \in Faults
    /\ k \in DownloadedInSyncSet
    /\ SetItemState(k, "discovered")
    /\ UNCHANGED runVars

(* A query with a LIMIT answers as many pending items as it may; which ones
   the order decides. *)
Batches == {b \in SUBSET Pending : \/ b = Pending /\ Cardinality(b) <= MaxItemsPerRun
                                   \/ Cardinality(b) = MaxItemsPerRun}

Begin ==
    /\ phase = "reclaim"
    /\ \E batch \in Batches :
        feed' = [IdleFeed EXCEPT !.pc = "offer", !.batch = batch]
    /\ phase' = "running"
    /\ walk' = [IdleWalk EXCEPT !.pc = "refresh"]
    /\ UNCHANGED <<storeVars, google, named, stopping, work, breaker, outcome, budget, hist>>

(* The download half returns once the feeder is done and the workers have
   stopped; the listing is cancelled with it. *)
DownloadReturns ==
    /\ phase = "running" /\ feed.pc = "closed" /\ WorkersIdle
    /\ phase' = "draining"
    /\ UNCHANGED <<storeVars, google, named, stopping, walk, feed, work, breaker, outcome, budget, hist>>

DownloadErr ==
    IF breaker.cause # "none" THEN breaker.cause
    ELSE IF stopping THEN "canceled"
    ELSE IF feed.noRoom THEN "noroom" ELSE "none"

(* Cancellation is the least interesting answer either half can give. *)
WorseOf(downloadErr, listErr) ==
    IF downloadErr \notin {"none", "canceled"} THEN downloadErr
    ELSE IF listErr \notin {"none", "canceled"} THEN listErr
    ELSE IF downloadErr # "none" THEN downloadErr ELSE listErr

OutcomeOf(err) ==
    CASE err = "auth" -> "auth_required"
      [] err = "drift" -> "drift"
      [] err = "canceled" -> "interrupted"
      [] err \notin {"auth", "drift", "canceled", "none"} -> "error"
      [] err = "none" /\ (breaker.failed \/ walk.skipped \/ walk.unlisted) -> "partial"
      [] OTHER -> "ok"

(* Faulty variant of Finish: what was stepped over does not make a run partial. *)
FinishIgnoringAlbums ==
    /\ phase = "draining" /\ walk.pc = "over"
    /\ phase' = "finished"
    /\ outcome' = IF WorseOf(DownloadErr, walk.err) = "none" THEN "ok"
                  ELSE OutcomeOf(WorseOf(DownloadErr, walk.err))
    /\ UNCHANGED <<storeVars, google, named, stopping, walk, feed, work, breaker, budget, hist>>

Finish ==
    /\ phase = "draining" /\ walk.pc = "over"
    /\ phase' = "finished"
    /\ outcome' = OutcomeOf(WorseOf(DownloadErr, walk.err))
    /\ UNCHANGED <<storeVars, google, named, stopping, walk, feed, work, breaker, budget, hist>>

-----------------------------------------------------------------------------
(* The walker: list, walkAlbums, listAlbum and listLibrary. *)

Walking(pc) == walk.pc = pc /\ phase \in {"running", "draining"}
WalkEnds(err) == walk' = [walk EXCEPT !.pc = "over", !.err = err]

(* refreshAlbums, then FollowedAlbums; both listings are read as one.  An
   empty answer is believed here and judged by the verdict. *)
RefreshAlbums ==
    /\ Walking("refresh") /\ ~ListCancelled
    /\ \E answer \in {named} \union (IF "empty" \in Faults THEN {{}} ELSE {}) :
        walk' = [walk EXCEPT !.pc = "choose", !.listed = answer,
                             !.full = {a \in answer : google[a] # {}},
                             !.todo = FollowedAlbums \ {Library}, !.followed = FollowedAlbums \ {Library}]
    /\ hist' = [hist EXCEPT !.absent = {l \in Albums \X Keys : l[2] \notin google[l[1]]}]
    /\ UNCHANGED <<storeVars, google, named, phase, stopping, feed, work, breaker, outcome, budget>>

(* walkAlbums steps over an album the refresh did not name. *)
SkipUnlisted(a) ==
    /\ Walking("choose") /\ a \in walk.todo \ walk.listed
    /\ walk' = [walk EXCEPT !.todo = @ \ {a}, !.unlisted = TRUE]
    /\ UNCHANGED <<storeVars, google, named, phase, stopping, feed, work, breaker, outcome, budget, hist>>

(* verdict: nothing decoded, or an empty album listing that unlisted what is
   followed, is a failure of the whole walk. *)
Verdict ==
    CASE walk.skipped /\ walk.walked = {} -> "drift"
      [] walk.listed = {} /\ walk.unlisted /\ ~(walk.skipped /\ walk.walked = {}) -> "error"
      [] OTHER -> "none"

(* listAlbum and listLibrary open with the membership as it stands.  The
   library comes last, and whether it is followed is read when it is
   reached rather than with the others. *)
BeginAlbum(a) ==
    /\ Walking("choose")
    /\ \/ a \in walk.todo \intersect walk.listed
       \/ /\ a = Library /\ walk.todo = {} /\ Library \notin walk.walked
          /\ Verdict = "none" /\ mode[Library] # "none"
    /\ walk' = [walk EXCEPT !.pc = "page", !.todo = @ \ {a}, !.album = a, !.members = AlbumMembers(a),
                            !.matters = (a # Library /\ mode[a] = "picked" /\ a \in synced),
                            !.ahead = google[a], !.seen = {}, !.arrived = {}]
    /\ UNCHANGED <<storeVars, google, named, phase, stopping, feed, work, breaker, outcome, budget, hist>>

ListingEnds ==
    /\ Walking("choose") /\ walk.todo = {}
    /\ Verdict = "none" => mode[Library] = "none" \/ Library \in walk.walked
    /\ WalkEnds(Verdict)
    /\ UNCHANGED <<storeVars, google, named, phase, stopping, feed, work, breaker, outcome, budget, hist>>

(* A page names an item; it is recorded, then linked to the album. *)
PageItem(k) ==
    /\ Walking("page") /\ ~ListCancelled
    /\ k \in walk.ahead /\ k \in google[walk.album]
    /\ UpsertItem(k)
    /\ walk' = [walk EXCEPT !.pc = "link", !.item = k, !.ahead = @ \ {k}, !.seen = @ \union {k},
                            !.arrived = IF walk.matters /\ k \notin walk.members THEN @ \union {k} ELSE @]
    /\ UNCHANGED <<google, named, phase, stopping, feed, work, breaker, outcome, budget, hist>>

LinkItem ==
    /\ Walking("link")
    /\ LinkItemToAlbum(walk.album, walk.item)
    /\ walk' = [walk EXCEPT !.pc = "page", !.item = "none"]
    /\ UNCHANGED <<google, named, phase, stopping, feed, work, breaker, outcome, budget, hist>>

(* The last page.  A walk that listed nothing must agree with the album
   listing; the library's listing nothing is never believed. *)
LastPage ==
    /\ Walking("page") /\ ~ListCancelled
    /\ \/ walk.ahead \intersect google[walk.album] = {}
       \/ "empty" \in Faults /\ walk.seen = {}
    /\ \/ /\ walk.seen = {} /\ walk.album \in walk.full
          /\ WalkEnds("drift")
       \/ /\ walk.seen # {} \/ walk.album \notin walk.full
          /\ walk' = [walk EXCEPT !.pc = IF walk.seen = {} /\ walk.album = Library THEN "mark" ELSE "flag"]
    /\ UNCHANGED <<storeVars, google, named, phase, stopping, feed, work, breaker, outcome, budget, hist>>

(* Faulty variant of WalkFails: an album cut short is reconciled all the same. *)
WalkFailsAfterReconciling(err) ==
    /\ \/ Walking("refresh") \/ Walking("page")
    /\ \/ err = "canceled" /\ ListCancelled
       \/ err \in ListingErrors /\ ~ListCancelled
    /\ IF err = "drift" /\ walk.pc = "page" /\ walk.album # Library
       THEN walk' = [walk EXCEPT !.pc = "flag", !.skipped = TRUE]
       ELSE WalkEnds(err)
    /\ UNCHANGED <<storeVars, google, named, phase, stopping, feed, work, breaker, outcome, budget, hist>>

(* A page that will not decode leaves an album as it was and the walk goes
   on; any other failure, or a cancelled context, ends the listing. *)
WalkFails(err) ==
    /\ \/ Walking("refresh") \/ Walking("page")
    /\ \/ err = "canceled" /\ ListCancelled
       \/ err \in ListingErrors /\ ~ListCancelled
    /\ IF err = "drift" /\ walk.pc = "page" /\ walk.album # Library
       THEN walk' = [walk EXCEPT !.pc = "choose", !.skipped = TRUE]
       ELSE WalkEnds(err)
    /\ UNCHANGED <<storeVars, google, named, phase, stopping, feed, work, breaker, outcome, budget, hist>>

FlagArrivals ==
    /\ Walking("flag")
    /\ FlagForReview(walk.arrived)
    /\ walk' = [walk EXCEPT !.pc = "reconcile"]
    /\ UNCHANGED <<google, named, phase, stopping, feed, work, breaker, outcome, budget, hist>>

(* Faulty variant of Departures: what was not seen, member or not. *)
DeparturesOfEverything == Keys \ walk.seen

Departures == walk.members \ walk.seen

ReconcileAlbum ==
    /\ Walking("reconcile")
    /\ Reconcile(walk.album, Departures)
    /\ walk' = [walk EXCEPT !.pc = "mark"]
    /\ UNCHANGED <<google, named, phase, stopping, feed, work, breaker, outcome, budget, hist>>

MarkSynced ==
    /\ Walking("mark")
    /\ MarkAlbumSynced(walk.album)
    /\ walk' = [walk EXCEPT !.pc = "choose", !.walked = @ \union {walk.album}]
    /\ hist' = [hist EXCEPT !.known[walk.album] = AlbumMembers(walk.album)]
    /\ UNCHANGED <<google, named, phase, stopping, feed, work, breaker, outcome, budget>>

Walker ==
    \/ RefreshAlbums \/ ListingEnds \/ LinkItem \/ LastPage \/ FlagArrivals \/ ReconcileAlbum \/ MarkSynced
    \/ \E a \in Albums : SkipUnlisted(a) \/ BeginAlbum(a)
    \/ \E k \in Keys : PageItem(k)
    \/ \E err \in ListingErrors \union {"canceled"} : WalkFails(err)

-----------------------------------------------------------------------------
(* The feeder: feed, offer and waitBeforeAskingAgain. *)

ToOffer == feed.batch \ feed.offered
AtTheLimit == Cardinality(feed.offered) >= MaxItemsPerRun

(* Faulty variant of Offer: nothing remembers what has been offered. *)
OfferForgetting(w, k) ==
    /\ feed.pc = "offer" /\ k \in ToOffer /\ ~AtTheLimit
    /\ work[w].pc = "idle"
    /\ feed' = [feed EXCEPT !.batch = @ \ {k}, !.fresh = 1]
    /\ work' = [work EXCEPT ![w] = [IdleWorker EXCEPT !.pc = "take", !.key = k]]
    /\ UNCHANGED <<storeVars, google, named, phase, stopping, walk, breaker, outcome, budget, hist>>

(* The channel is unbuffered: an item is offered when a worker takes it. *)
Offer(w, k) ==
    /\ feed.pc = "offer" /\ k \in ToOffer /\ ~AtTheLimit
    /\ work[w].pc = "idle"
    /\ feed' = [feed EXCEPT !.offered = @ \union {k}, !.fresh = 1]
    /\ work' = [work EXCEPT ![w] = [IdleWorker EXCEPT !.pc = "take", !.key = k]]
    /\ UNCHANGED <<storeVars, google, named, phase, stopping, walk, breaker, outcome, budget, hist>>

NoRoom ==
    /\ feed.pc = "offer" /\ ToOffer # {} /\ ~AtTheLimit /\ "noroom" \in Faults
    /\ feed' = [feed EXCEPT !.pc = "closed", !.noRoom = TRUE]
    /\ UNCHANGED <<storeVars, google, named, phase, stopping, walk, work, breaker, outcome, budget, hist>>

(* Faulty variant of BatchOver: asks whether the listing is over after the query. *)
BatchOverAskingNow ==
    /\ feed.pc = "offer"
    /\ ToOffer = {} \/ AtTheLimit \/ DownloadCancelled
    /\ LET over == AtTheLimit \/ DownloadCancelled
           drained == ~over /\ feed.fresh = 0 /\ walk.pc = "over"
       IN  /\ feed' = [feed EXCEPT !.fresh = 0,
                        !.pc = IF over \/ drained THEN "closed"
                               ELSE IF feed.fresh = 0 THEN "wait" ELSE "sample"]
           /\ hist' = [hist EXCEPT !.drained = drained]
    /\ UNCHANGED <<storeVars, google, named, phase, stopping, walk, work, breaker, outcome, budget>>

(* A batch is over when all of it was offered, at the limit, or on cancel. *)
BatchOver ==
    /\ feed.pc = "offer"
    /\ ToOffer = {} \/ AtTheLimit \/ DownloadCancelled
    /\ LET over == AtTheLimit \/ DownloadCancelled
           drained == ~over /\ feed.fresh = 0 /\ feed.listingOver
       IN  /\ feed' = [feed EXCEPT !.fresh = 0,
                        !.pc = IF over \/ drained THEN "closed"
                               ELSE IF feed.fresh = 0 THEN "wait" ELSE "sample"]
           /\ hist' = [hist EXCEPT !.drained = drained]
    /\ UNCHANGED <<storeVars, google, named, phase, stopping, walk, work, breaker, outcome, budget>>

(* The timer, the end of the listing, or a cancelled context. *)
WaitBeforeAskingAgain ==
    /\ feed.pc = "wait"
    /\ \/ feed' = [feed EXCEPT !.pc = "sample"]
       \/ DownloadCancelled /\ feed' = [feed EXCEPT !.pc = "closed"]
    /\ UNCHANGED <<storeVars, google, named, phase, stopping, walk, work, breaker, outcome, budget, hist>>

(* Faulty variant of SampleListing: nobody looks whether the listing is over. *)
SampleListingNever ==
    /\ feed.pc = "sample"
    /\ feed' = [feed EXCEPT !.pc = "query"]
    /\ UNCHANGED <<storeVars, google, named, phase, stopping, walk, work, breaker, outcome, budget, hist>>

(* Whether the listing is over is sampled before the query, not after. *)
SampleListing ==
    /\ feed.pc = "sample"
    /\ feed' = [feed EXCEPT !.pc = "query", !.listingOver = (walk.pc = "over")]
    /\ UNCHANGED <<storeVars, google, named, phase, stopping, walk, work, breaker, outcome, budget, hist>>

AskAgain ==
    /\ feed.pc = "query"
    /\ \/ /\ \E batch \in Batches : feed' = [feed EXCEPT !.pc = "offer", !.batch = batch]
          /\ hist' = [hist EXCEPT !.touched = {}]
       \/ /\ "store" \in Faults
          /\ feed' = [feed EXCEPT !.pc = "closed"]
          /\ UNCHANGED hist
    /\ UNCHANGED <<storeVars, google, named, phase, stopping, walk, work, breaker, outcome, budget>>

Feeder ==
    \/ NoRoom \/ BatchOver \/ WaitBeforeAskingAgain \/ SampleListing \/ AskAgain
    \/ \E w \in Workers, k \in Keys : Offer(w, k)

-----------------------------------------------------------------------------
(* The workers: downloadOne, recordSuccess, recordFailure, and the breaker. *)

BreakerCounts(cause) ==
    LET counted == [breaker EXCEPT !.consecutive = @ + 1, !.failed = TRUE]
    IN  IF counted.consecutive >= BreakerThreshold /\ breaker.cause = "none"
        THEN [counted EXCEPT !.cause = cause, !.consecutive = BreakerThreshold]
        ELSE [counted EXCEPT !.consecutive = IF @ > BreakerThreshold THEN BreakerThreshold ELSE @]

(* AlbumForItem, then the mark that makes an interrupted item recognisable.
   An item nothing followed covers any more is skipped. *)
TakeItem(w) ==
    LET k == work[w].key
    IN  /\ work[w].pc = "take"
        /\ \/ /\ CoveringAlbums(k) = {}
              /\ work' = [work EXCEPT ![w] = IdleWorker]
              /\ UNCHANGED storeVars
           \/ /\ CoveringAlbums(k) # {}
              /\ SetItemState(k, "downloading")
              /\ work' = [work EXCEPT ![w].pc = "fetch"]
        /\ UNCHANGED <<google, named, phase, stopping, walk, feed, breaker, outcome, budget, hist>>

FetchSucceeds(w) ==
    /\ work[w].pc = "fetch"
    /\ MarkDownloaded(work[w].key)
    /\ work' = [work EXCEPT ![w] = IdleWorker]
    /\ breaker' = [breaker EXCEPT !.consecutive = 0]
    /\ UNCHANGED <<google, named, phase, stopping, walk, feed, outcome, budget, hist>>

(* A statement of the worker's fails: before the fetch, at the mark, or, the
   mark made, at the place.  It is a failure of the run, charged to no item. *)
BookkeepingFails(w) ==
    /\ work[w].pc \in {"take", "fetch"} /\ "store" \in Faults
    /\ \/ UNCHANGED storeVars
       \/ work[w].pc = "fetch" /\ MarkDownloaded(work[w].key)
    /\ work' = [work EXCEPT ![w] = IdleWorker]
    /\ breaker' = BreakerCounts("error")
    /\ UNCHANGED <<google, named, phase, stopping, walk, feed, outcome, budget, hist>>

(* A transient failure is retried until the attempts run out; the context
   being cancelled ends a fetch or a pause and is never retried. *)
FetchFails(w, cause) ==
    /\ work[w].pc = "fetch"
    /\ \/ cause \in AttemptErrors
       \/ cause = "canceled" /\ DownloadCancelled
    /\ IF Retryable(cause) /\ work[w].attempt + 1 < MaxAttempts
       THEN work' = [work EXCEPT ![w].attempt = @ + 1]
       ELSE work' = [work EXCEPT ![w].pc = "failed", ![w].cause = cause]
    /\ UNCHANGED <<storeVars, google, named, phase, stopping, walk, feed, breaker, outcome, budget, hist>>

(* Faulty variant of IsCharged: a cancelled fetch counts against its item. *)
ChargedAnyway(w) == TRUE

(* A run being torn down is not the item's failure and is not charged. *)
IsCharged(w) == ~DownloadCancelled

(* What Google answers the same every time tells the breaker nothing when the
   item failed with it before; whether it did, word for word, is left open. *)
BreakerAfter(w) ==
    {BreakerCounts(work[w].cause)}
    \union (IF work[w].cause \in {"drift", "elsewhere"} /\ items[work[w].key].fails > 0
            THEN {[breaker EXCEPT !.failed = TRUE]} ELSE {})

(* A failure the store would not take is logged and no more. *)
RecordFailure(w) ==
    /\ work[w].pc = "failed"
    /\ \/ IF IsCharged(w) THEN MarkFailed(work[w].key) ELSE UNCHANGED storeVars
       \/ "store" \in Faults /\ UNCHANGED storeVars
    /\ breaker' \in BreakerAfter(w)
    /\ work' = [work EXCEPT ![w] = IdleWorker]
    /\ UNCHANGED <<google, named, phase, stopping, walk, feed, outcome, budget, hist>>

Worker(w) ==
    \/ TakeItem(w) \/ FetchSucceeds(w) \/ BookkeepingFails(w) \/ RecordFailure(w)
    \/ \E cause \in AttemptErrors \union {"canceled"} : FetchFails(w, cause)

-----------------------------------------------------------------------------
(* The world around a run. *)

Stop ==
    /\ phase \in {"reclaim", "running", "draining"} /\ ~stopping /\ "stop" \in Faults
    /\ stopping' = TRUE
    /\ UNCHANGED <<storeVars, google, named, phase, walk, feed, work, breaker, outcome, budget, hist>>

(* The process dies: its goroutines are gone, its rows stay. *)
Crash ==
    /\ phase \in {"reclaim", "running", "draining"} /\ "crash" \in Faults
    /\ phase' = "idle" /\ stopping' = FALSE
    /\ walk' = IdleWalk /\ feed' = IdleFeed /\ breaker' = IdleBreaker
    /\ work' = [w \in Workers |-> IdleWorker]
    /\ UNCHANGED <<storeVars, google, named, outcome, budget, hist>>

(* An item is put into or taken out of an album, or Google stops or resumes
   naming an album. *)
GoogleChanges ==
    /\ budget.upstream > 0
    /\ budget' = [budget EXCEPT !.upstream = @ - 1]
    /\ \/ \E a \in Albums, k \in Keys :
            /\ google' = [google EXCEPT ![a] = IF k \in @ THEN @ \ {k} ELSE @ \union {k}]
            /\ hist' = [hist EXCEPT !.absent = IF k \in google[a] THEN @ \union {<<a, k>>} ELSE @]
            /\ UNCHANGED named
       \/ \E a \in Albums \ {Library} :
            /\ named' = IF a \in named THEN named \ {a} ELSE named \union {a}
            /\ UNCHANGED <<google, hist>>
    /\ UNCHANGED <<storeVars, phase, stopping, walk, feed, work, breaker, outcome>>

(* The library has no picks of its own. *)
ChooseMode(a, m) == (a = Library => m # "picked") /\ SetAlbumSyncMode(a, m)

(* The album was asked whether k is in it in a statement before this one. *)
Pick(k, on) == SetSelection({k}, on)

ResolveReview(k) == WaitingForReview(k) /\ ClearNeedsReview({k})

(* Somebody follows an album, picks an item, or settles a question. *)
PageVisit ==
    /\ budget.visits > 0
    /\ budget' = [budget EXCEPT !.visits = @ - 1]
    /\ \/ \E a \in Albums, m \in SyncModes : ChooseMode(a, m)
       \/ \E k \in Keys : ResolveReview(k) \/ \E on \in BOOLEAN : Pick(k, on)
    /\ hist' = [hist EXCEPT !.touched = @ \union (Pending' \ Pending)]
    /\ UNCHANGED <<google, named, phase, stopping, walk, feed, work, breaker, outcome>>

(* Every run made and ended: the process waits for the next day. *)
AllRunsMade ==
    /\ phase \in {"idle", "finished"} /\ budget.runs = 0
    /\ UNCHANGED vars

RunNext ==
    \/ StartRun \/ Begin \/ DownloadReturns \/ Finish
    \/ \E k \in Keys : ReclaimVanishedFile(k)
    \/ Walker \/ Feeder \/ \E w \in Workers : Worker(w)
    \/ Stop \/ Crash \/ GoogleChanges \/ PageVisit \/ AllRunsMade

RunSpec == RunInit /\ [][RunNext]_vars

(* Google answers or the request fails, timers fire, and goroutines that can
   run are run: each of the three kinds is weakly fair.  Nothing is assumed
   of Google's contents, of the pages or of the process surviving. *)
Fairness ==
    /\ WF_vars(Begin) /\ WF_vars(DownloadReturns) /\ WF_vars(Finish)
    /\ WF_vars(Walker) /\ WF_vars(Feeder)
    /\ \A w \in Workers : WF_vars(Worker(w))

FairRunSpec == RunSpec /\ Fairness

-----------------------------------------------------------------------------
(* Properties. *)

(* No item is ever in two workers' hands: items in flight come back from
   Pending until they finish, and only the feeder's memory of what it offered
   keeps them from being handed out again. *)
OneWorkerPerItem ==
    \A v, w \in Workers : v # w /\ work[v].pc # "idle" /\ work[w].pc # "idle" => work[v].key # work[w].key

(* When the feeder closes because nothing fresh turned up after the listing
   ended, every item still owed was offered in this run; only what somebody
   added from the pages after its last query may be left. *)
NothingLeftBehind ==
    feed.pc = "closed" /\ hist.drained => Pending \subseteq feed.offered \union hist.touched

(* A run reported ok walked every album it set out to walk to its end, and
   no item of it failed. *)
OkMeansWalked ==
    phase = "finished" /\ outcome = "ok" => walk.followed \subseteq walk.walked /\ ~breaker.failed

(* fail_count is permanent, so only an item's own failure is charged: never
   one that is the run's context being cancelled under it. *)
OnlyOwnFailuresAreCharged ==
    [][\A k \in Keys : items'[k].fails > items[k].fails =>
          \E w \in Workers : work[w].key = k /\ work[w].pc = "failed" /\ work[w].cause # "canceled"]_vars

(* An item is written off only by a walk of an album Google did not hold it
   in at some moment since the run's album listing: a failed, cancelled or
   empty listing writes nothing off. *)
WriteOffWasObserved ==
    [][\A k \in Keys : ~WrittenOff(k) /\ WrittenOff(k)' => <<walk.album, k>> \in hist.absent]_vars

(* A run that has begun ends, however the walker, the feeder and the workers
   wait for one another. *)
RunEnds == phase \in {"running", "draining"} ~> phase \in {"finished", "idle"}

(* A completed walk of a picked album flags what has arrived since the last
   completed walk of it. *)
ArrivalsAreFlagged ==
    [][walk.pc = "mark" /\ walk'.pc = "choose" /\ walk.matters =>
          \A k \in walk.seen \ hist.known[walk.album] : items[k].review]_vars
=============================================================================
