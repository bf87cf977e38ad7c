---------------------------- MODULE SyncRunProofs ----------------------------
(***************************************************************************)
(* A process making backup runs, for any library, any number of workers    *)
(* and any limits: every step is a statement of ItemStore or leaves the    *)
(* store alone; no item is in two hands, none owed is left behind, and     *)
(* nothing is written off or charged that should not be.                   *)
(***************************************************************************)
EXTENDS SyncRun, ItemStoreProofs, FiniteSetTheorems

Errors == {"auth", "drift", "elsewhere", "transient", "error"}
Causes == Errors \union {"none", "canceled"}
InAnAlbum == {"page", "link", "flag", "reconcile", "mark"}

WalkRecord ==
    [pc : {"off", "refresh", "choose", "over"} \union InAnAlbum,
     todo : SUBSET Albums, listed : SUBSET Albums, full : SUBSET Albums, album : Albums,
     item : Keys \union {"none"}, members : SUBSET Keys, matters : BOOLEAN, ahead : SUBSET Keys,
     seen : SUBSET Keys, arrived : SUBSET Keys, walked : SUBSET Albums, followed : SUBSET Albums,
     skipped : BOOLEAN, unlisted : BOOLEAN, err : Causes]
FeedRecord ==
    [pc : {"off", "offer", "wait", "sample", "query", "closed"}, batch : SUBSET Keys, offered : SUBSET Keys,
     fresh : {0, 1}, listingOver : BOOLEAN, noRoom : BOOLEAN]
WorkerRecord == [pc : {"idle", "take", "fetch", "failed"}, key : Keys \union {"none"}, attempt : Nat, cause : Causes]
BreakerRecord == [consecutive : Nat, cause : Causes, failed : BOOLEAN]
History == [absent : SUBSET (Albums \X Keys), touched : SUBSET Keys, known : [Albums -> SUBSET Keys], drained : BOOLEAN]

RunTypes ==
    /\ google \in [Albums -> SUBSET Keys] /\ named \subseteq Albums \ {Library}
    /\ phase \in {"idle", "reclaim", "running", "draining", "finished"} /\ stopping \in BOOLEAN
    /\ walk \in WalkRecord /\ feed \in FeedRecord /\ work \in [Workers -> WorkerRecord]
    /\ breaker \in BreakerRecord /\ hist \in History

-----------------------------------------------------------------------------
(* The queue: an item in a worker's hands is one the feeder remembers. *)
QueueInv ==
    /\ phase # "running" => WorkersIdle /\ feed.pc \in {"off", "closed"}
    /\ \A w \in Workers : work[w].pc # "idle" => work[w].key \in feed.offered
    /\ OneWorkerPerItem

(* A cancelled fetch is one whose context is still cancelled. *)
CancelledStaysCancelled ==
    \A w \in Workers : work[w].pc = "failed" /\ work[w].cause = "canceled" => DownloadCancelled

(* Nobody but its worker changes how often an item in hand, or still to be
   offered, has failed. *)
InHand(k) == \E w \in Workers : work[w].pc # "idle" /\ work[w].key = k
MayStillFail ==
    \A k \in Keys : k \in ToOffer \/ InHand(k) => HasRow(k) /\ items[k].fails < MaxItemFailures

(* Once the listing's end has been sampled, the next query leaves nothing out
   but for the limit, and only pages add to what is owed. *)
Covered(some) == Pending \subseteq some \union feed.offered \union hist.touched
DrainInv ==
    /\ feed.listingOver => walk.pc = "over"
    /\ feed.pc = "offer" /\ feed.listingOver => Cardinality(feed.batch) = MaxItemsPerRun \/ Covered(feed.batch)
    /\ feed.pc # "closed" /\ phase \in {"reclaim", "running"} => ~hist.drained
    /\ phase = "reclaim" => feed.pc = "off"
    /\ feed.pc = "closed" /\ hist.drained => walk.pc = "over" /\ Covered({})

(* Until something is stepped over, what is followed is walked, in hand or
   still to come. *)
Untroubled ==
    walk.pc \notin {"off", "refresh"} /\ ~walk.skipped /\ ~walk.unlisted /\ (walk.pc = "over" => walk.err = "none")
Ahead == CASE walk.pc = "choose" -> walk.todo
           [] walk.pc \in InAnAlbum -> walk.todo \union {walk.album}
           [] OTHER -> {}
FollowedInv == Untroubled => walk.followed \subseteq walk.walked \union Ahead

(* What the walk has not seen of the album in hand was not there at some
   moment since the listing of albums; what it has seen has a row. *)
Absent(a, k) == <<a, k>> \in hist.absent
ObservedInv ==
    walk.pc \notin {"off", "refresh", "over"} =>
        /\ \A a \in Albums : \A k \in Keys \ google[a] : Absent(a, k)
        /\ \A a \in walk.listed \ walk.full : \A k \in Keys : Absent(a, k)
        /\ walk.pc \in InAnAlbum =>
              /\ walk.album # Library => walk.album \in walk.listed
              /\ \A k \in Keys \ (walk.seen \union walk.ahead) : Absent(walk.album, k)
        /\ walk.pc \in {"flag", "reconcile"} =>
              \A k \in Keys \ walk.seen : Absent(walk.album, k)

AlbumInHand ==
    walk.pc \in InAnAlbum =>
        /\ walk.pc # "mark" => walk.members \subseteq AlbumMembers(walk.album)
        /\ \A k \in walk.arrived : HasRow(k)
        /\ walk.pc = "link" => walk.item \in Keys /\ Live(walk.item)

RunInv ==
    /\ StoreInv /\ RunTypes /\ QueueInv /\ CancelledStaysCancelled /\ MayStillFail
    /\ DrainInv /\ FollowedInv /\ OkMeansWalked /\ ObservedInv /\ AlbumInHand

-----------------------------------------------------------------------------
(* Types. *)

(* No answer of Google's is taken for a cancelled context. *)
LEMMA AnswersAreErrors ==
    /\ \A answer : DecodeListing(answer) \in Errors \union {"none"}
    /\ \A first, second, content : DownloadOriginal(first, second, content) \in Errors \union {"none"}
<1>1. \A answer : HTTPStatus(answer) \in Errors \union {"none"}
  BY DEF HTTPStatus, Errors
<1>2. \A answer : Post(answer) \in Errors \union {"none"} /\ DecodeFrames(answer) \in Errors \union {"none"}
                  /\ PayloadFor(answer) \in Errors \union {"none"}
  BY <1>1 DEF Post, DecodeFrames, PayloadFor, Errors
<1>3. \A answer : Call(answer) \in Errors \union {"none"}
  BY <1>2 DEF Call
<1>4. \A answer : DecodeListing(answer) \in Errors \union {"none"}
  BY <1>3 DEF DecodeListing, Errors
<1>5. \A first, second : DownloadURL(first, second) \in Errors \union {"none"}
  BY <1>3, <1>4 DEF DownloadURL, Errors
<1>6. \A content : Fetch(content) \in Errors \union {"none"}
  BY <1>1 DEF Fetch, Errors
<1> QED BY <1>4, <1>5, <1>6 DEF DownloadOriginal

LEMMA ErrorsOfARun == ListingErrors \subseteq Errors /\ AttemptErrors \subseteq Errors
BY AnswersAreErrors DEF ListingErrors, AttemptErrors

LEMMA SameRecords ==
    /\ WalkRecord' = WalkRecord /\ FeedRecord' = FeedRecord /\ WorkerRecord' = WorkerRecord
    /\ BreakerRecord' = BreakerRecord /\ History' = History
BY DEF WalkRecord, FeedRecord, WorkerRecord, BreakerRecord, History, InAnAlbum, Causes, Errors

LEMMA IdleRecords ==
    /\ IdleWalk \in WalkRecord /\ IdleWalk.pc = "off"
    /\ IdleFeed \in FeedRecord /\ IdleFeed.pc = "off" /\ ~IdleFeed.listingOver
    /\ IdleFeed.offered = {} /\ IdleFeed.batch = {}
    /\ IdleWorker \in WorkerRecord /\ IdleWorker.pc = "idle"
    /\ IdleBreaker \in BreakerRecord /\ IdleBreaker.cause = "none"
BY RunConstants DEF IdleWalk, WalkRecord, IdleFeed, FeedRecord, IdleWorker, WorkerRecord, IdleBreaker, BreakerRecord,
   InAnAlbum, Causes, Errors

(* What each step of the walker makes of its record. *)
LEMMA RefreshFields ==
    ASSUME RunTypes, RefreshAlbums
    PROVE  /\ walk' \in WalkRecord /\ walk'.pc = "choose" /\ walk'.todo = walk'.followed
           /\ \A a \in walk'.listed \ walk'.full : google[a] = {}
           /\ walk'.skipped = walk.skipped /\ walk'.unlisted = walk.unlisted
<1>1. PICK answer \in {named, {}} :
        walk' = [walk EXCEPT !.pc = "choose", !.listed = answer, !.full = {a \in answer : google[a] # {}},
                             !.todo = FollowedAlbums \ {Library}, !.followed = FollowedAlbums \ {Library}]
  BY DEF RefreshAlbums
<1>2. answer \in SUBSET Albums /\ {a \in answer : google[a] # {}} \in SUBSET Albums
      /\ FollowedAlbums \ {Library} \in SUBSET Albums
  BY DEF RunTypes, FollowedAlbums
<1> DEFINE full == {a \in answer : google[a] # {}}
           followed == FollowedAlbums \ {Library}
<1>3. walk' = [walk EXCEPT !.pc = "choose", !.listed = answer, !.full = full, !.todo = followed, !.followed = followed]
  BY <1>1
<1>4. \A a \in answer \ full : google[a] = {}
  OBVIOUS
<1>5. full \in SUBSET Albums /\ followed \in SUBSET Albums
  BY <1>2
<1> HIDE DEF full, followed
<1> QED BY <1>2, <1>3, <1>4, <1>5 DEF RunTypes, WalkRecord

(* The walker's steps leave the other goroutines and Google alone. *)
LEMMA WalkerFrame ==
    ASSUME Walker
    PROVE  UNCHANGED <<google, named, phase, stopping, feed, work, breaker, outcome>>
<1>1. ASSUME NEW a \in Albums, SkipUnlisted(a) \/ BeginAlbum(a)
      PROVE  UNCHANGED <<google, named, phase, stopping, feed, work, breaker, outcome>>
  BY <1>1 DEF SkipUnlisted, BeginAlbum
<1>2. ASSUME NEW k \in Keys, PageItem(k)
      PROVE  UNCHANGED <<google, named, phase, stopping, feed, work, breaker, outcome>>
  BY <1>2 DEF PageItem
<1>3. ASSUME NEW err, WalkFails(err)
      PROVE  UNCHANGED <<google, named, phase, stopping, feed, work, breaker, outcome>>
  BY <1>3 DEF WalkFails
<1>4. ASSUME RefreshAlbums \/ ListingEnds \/ LinkItem \/ LastPage
      PROVE  UNCHANGED <<google, named, phase, stopping, feed, work, breaker, outcome>>
  BY <1>4 DEF RefreshAlbums, ListingEnds, LinkItem, LastPage
<1>5. ASSUME FlagArrivals \/ ReconcileAlbum \/ MarkSynced
      PROVE  UNCHANGED <<google, named, phase, stopping, feed, work, breaker, outcome>>
  BY <1>5 DEF FlagArrivals, ReconcileAlbum, MarkSynced
<1> QED BY <1>1, <1>2, <1>3, <1>4, <1>5, Zenon DEF Walker

LEMMA WalkerAtWork ==
    ASSUME Walker
    PROVE  phase \in {"running", "draining"} /\ walk.pc \notin {"off", "over"}
<1> DEFINE AtWork == phase \in {"running", "draining"} /\ walk.pc \notin {"off", "over"}
<1>1. \A pc \in {"refresh", "choose"} \union InAnAlbum : Walking(pc) => AtWork
  BY DEF Walking, InAnAlbum
<1> HIDE DEF AtWork
<1>2. ASSUME NEW a \in Albums, SkipUnlisted(a) \/ BeginAlbum(a) PROVE AtWork
  BY <1>1, <1>2 DEF SkipUnlisted, BeginAlbum
<1>3. ASSUME NEW k \in Keys, PageItem(k) PROVE AtWork
  BY <1>1, <1>3 DEF PageItem, InAnAlbum
<1>4. ASSUME NEW err, WalkFails(err) PROVE AtWork
  BY <1>1, <1>4 DEF WalkFails, InAnAlbum
<1>5. ASSUME RefreshAlbums \/ ListingEnds \/ LinkItem \/ LastPage PROVE AtWork
  BY <1>1, <1>5 DEF RefreshAlbums, ListingEnds, LinkItem, LastPage, InAnAlbum
<1>6. ASSUME FlagArrivals \/ ReconcileAlbum \/ MarkSynced PROVE AtWork
  BY <1>1, <1>6 DEF FlagArrivals, ReconcileAlbum, MarkSynced, InAnAlbum
<1>7. AtWork
  BY <1>2, <1>3, <1>4, <1>5, <1>6, Zenon DEF Walker
<1> QED BY <1>7 DEF AtWork

(* The feeder's and the workers' steps, in the same way. *)
LEMMA FeederFrame ==
    ASSUME Feeder
    PROVE  /\ feed.pc \notin {"off", "closed"}
           /\ UNCHANGED <<storeVars, google, named, phase, stopping, walk, breaker, outcome, budget>>
<1> DEFINE Frame == /\ feed.pc \notin {"off", "closed"}
                    /\ UNCHANGED <<storeVars, google, named, phase, stopping, walk, breaker, outcome, budget>>
<1>1. ASSUME NEW w \in Workers, NEW k \in Keys, Offer(w, k) PROVE Frame
  BY <1>1 DEF Offer
<1>2. ASSUME NoRoom \/ BatchOver PROVE Frame
  BY <1>2 DEF NoRoom, BatchOver
<1>3. ASSUME WaitBeforeAskingAgain \/ SampleListing \/ AskAgain PROVE Frame
  BY <1>3 DEF WaitBeforeAskingAgain, SampleListing, AskAgain
<1> HIDE DEF Frame
<1>4. Frame
  BY <1>1, <1>2, <1>3, Zenon DEF Feeder
<1> QED BY <1>4 DEF Frame

LEMMA WorkerFrame ==
    ASSUME NEW w, Worker(w)
    PROVE  /\ work[w].pc # "idle"
           /\ UNCHANGED <<google, named, phase, stopping, walk, feed, outcome, budget, hist>>
           /\ \/ UNCHANGED storeVars \/ SetItemState(work[w].key, "downloading")
              \/ MarkDownloaded(work[w].key) \/ MarkFailed(work[w].key)
<1>1. CASE TakeItem(w)
  BY <1>1 DEF TakeItem
<1>2. CASE FetchSucceeds(w)
  BY <1>2 DEF FetchSucceeds
<1>3. CASE RecordFailure(w)
  BY <1>3 DEF RecordFailure
<1>4. ASSUME NEW cause, FetchFails(w, cause)
      PROVE  /\ work[w].pc # "idle"
             /\ UNCHANGED <<storeVars, google, named, phase, stopping, walk, feed, outcome, budget, hist>>
  BY <1>4 DEF FetchFails
<1>5. CASE BookkeepingFails(w)
  BY <1>5 DEF BookkeepingFails
<1> QED BY <1>1, <1>2, <1>3, <1>4, <1>5 DEF Worker

LEMMA TypesMet ==
    ASSUME google' \in [Albums -> SUBSET Keys], named' \subseteq Albums \ {Library},
           phase' \in {"idle", "reclaim", "running", "draining", "finished"}, stopping' \in BOOLEAN,
           walk' \in WalkRecord, feed' \in FeedRecord, work' \in [Workers -> WorkerRecord],
           breaker' \in BreakerRecord, hist' \in History
    PROVE  RunTypes'
BY SameRecords, Zenon DEF RunTypes

(* The types, a kind of goroutine at a time. *)
LEMMA WalkerTypes ==
    ASSUME RunTypes, Walker
    PROVE  RunTypes'
<1>1. UNCHANGED <<google, named, phase, stopping, feed, work, breaker>>
  BY WalkerFrame
<1>3. hist' \in History
  <2>2. ASSUME RefreshAlbums PROVE hist' \in History
    <3> DEFINE absent == {l \in Albums \X Keys : l[2] \notin google[l[1]]}
    <3>1. hist' = [hist EXCEPT !.absent = absent] /\ absent \in SUBSET (Albums \X Keys)
      BY <2>2 DEF RefreshAlbums
    <3> HIDE DEF absent
    <3> QED BY <3>1 DEF RunTypes, History
  <2>3. ASSUME MarkSynced PROVE hist' \in History
    <3> DEFINE members == AlbumMembers(walk.album)
    <3>1. hist' = [hist EXCEPT !.known[walk.album] = members] /\ members \in SUBSET Keys
      BY <2>3 DEF MarkSynced, AlbumMembers
    <3>2. walk.album \in Albums
      BY DEF RunTypes, WalkRecord
    <3> HIDE DEF members
    <3>3. [hist.known EXCEPT ![walk.album] = members] \in [Albums -> SUBSET Keys]
      BY <3>1, <3>2 DEF RunTypes, History
    <3>4. hist' = [hist EXCEPT !.known = [hist.known EXCEPT ![walk.album] = members]]
      BY <3>1 DEF RunTypes, History
    <3> QED BY <3>3, <3>4 DEF RunTypes, History
  <2>4. ASSUME UNCHANGED hist PROVE hist' \in History
    BY <2>4 DEF RunTypes, History
  <2>5. ASSUME ListingEnds \/ LinkItem \/ LastPage \/ FlagArrivals \/ ReconcileAlbum PROVE UNCHANGED hist
    BY <2>5 DEF ListingEnds, LinkItem, LastPage, FlagArrivals, ReconcileAlbum
  <2>6. ASSUME NEW a \in Albums, SkipUnlisted(a) \/ BeginAlbum(a) PROVE UNCHANGED hist
    BY <2>6 DEF SkipUnlisted, BeginAlbum
  <2>7. ASSUME NEW k \in Keys, PageItem(k) PROVE UNCHANGED hist
    BY <2>7 DEF PageItem
  <2>8. ASSUME NEW err, WalkFails(err) PROVE UNCHANGED hist
    BY <2>8 DEF WalkFails
  <2> QED BY <2>2, <2>3, <2>4, <2>5, <2>6, <2>7, <2>8, Zenon DEF Walker
<1>2. walk' \in WalkRecord
  <2>1. CASE RefreshAlbums
    BY <2>1, RefreshFields
  <2>2. CASE ListingEnds
    <3>1. Verdict \in Causes
      BY DEF Verdict, Causes, Errors
    <3> QED BY <2>2, <3>1 DEF ListingEnds, WalkEnds, RunTypes, WalkRecord
  <2>3. CASE LinkItem \/ LastPage \/ FlagArrivals \/ ReconcileAlbum
    <3>1. CASE LinkItem
      BY <3>1 DEF LinkItem, RunTypes, WalkRecord, InAnAlbum
    <3>2. CASE LastPage
      <4>1. CASE WalkEnds("drift")
        BY <4>1 DEF WalkEnds, RunTypes, WalkRecord, Causes, Errors
      <4>2. CASE walk' = [walk EXCEPT !.pc = IF walk.seen = {} /\ walk.album = Library THEN "mark" ELSE "flag"]
        BY <4>2 DEF RunTypes, WalkRecord, InAnAlbum
      <4> QED BY <3>2, <4>1, <4>2 DEF LastPage
    <3>3. CASE FlagArrivals \/ ReconcileAlbum
      BY <3>3 DEF FlagArrivals, ReconcileAlbum, RunTypes, WalkRecord, InAnAlbum
    <3> QED BY <2>3, <3>1, <3>2, <3>3
  <2>4. CASE MarkSynced
    BY <2>4 DEF MarkSynced, RunTypes, WalkRecord
  <2>5. ASSUME NEW a \in Albums, SkipUnlisted(a) PROVE walk' \in WalkRecord
    BY <2>5 DEF SkipUnlisted, RunTypes, WalkRecord
  <2>6. ASSUME NEW a \in Albums, BeginAlbum(a) PROVE walk' \in WalkRecord
    <3> DEFINE members == AlbumMembers(a)
               matters == a # Library /\ mode[a] = "picked" /\ a \in synced
    <3>1. members \in SUBSET Keys /\ google[a] \in SUBSET Keys /\ matters \in BOOLEAN
      BY DEF AlbumMembers, RunTypes
    <3>2. walk' = [walk EXCEPT !.pc = "page", !.todo = @ \ {a}, !.album = a, !.members = members,
                               !.matters = matters, !.ahead = google[a], !.seen = {}, !.arrived = {}]
      BY <2>6 DEF BeginAlbum
    <3>3. walk \in WalkRecord /\ "page" \in InAnAlbum
      BY DEF RunTypes, InAnAlbum
    <3> HIDE DEF members, matters
    <3> QED BY <3>1, <3>2, <3>3 DEF WalkRecord
  <2>7. ASSUME NEW k \in Keys, PageItem(k) PROVE walk' \in WalkRecord
    <3>1. walk \in WalkRecord /\ "link" \in InAnAlbum
      BY DEF RunTypes, InAnAlbum
    <3> DEFINE arrived == IF walk.matters /\ k \notin walk.members THEN walk.arrived \union {k} ELSE walk.arrived
    <3>2. walk' = [walk EXCEPT !.pc = "link", !.item = k, !.ahead = walk.ahead \ {k},
                               !.seen = walk.seen \union {k}, !.arrived = arrived]
      BY <2>7 DEF PageItem
    <3>3. arrived \in SUBSET Keys
      BY <3>1 DEF WalkRecord
    <3> HIDE DEF arrived
    <3> QED BY <3>1, <3>2, <3>3 DEF WalkRecord
  <2>8. ASSUME NEW err \in ListingErrors \union {"canceled"}, WalkFails(err) PROVE walk' \in WalkRecord
    <3>1. err \in Causes
      BY ErrorsOfARun DEF Causes
    <3>2. CASE walk' = [walk EXCEPT !.pc = "choose", !.skipped = TRUE]
      BY <3>2 DEF RunTypes, WalkRecord
    <3>3. CASE WalkEnds(err)
      BY <3>1, <3>3 DEF WalkEnds, RunTypes, WalkRecord
    <3> QED BY <2>8, <3>2, <3>3 DEF WalkFails
  <2> QED BY <2>1, <2>2, <2>3, <2>4, <2>5, <2>6, <2>7, <2>8, Zenon DEF Walker
<1>4. google \in [Albums -> SUBSET Keys] /\ named \subseteq Albums \ {Library} /\ stopping \in BOOLEAN
      /\ phase \in {"idle", "reclaim", "running", "draining", "finished"}
      /\ feed \in FeedRecord /\ work \in [Workers -> WorkerRecord] /\ breaker \in BreakerRecord
  BY DEF RunTypes
<1> QED BY <1>1, <1>2, <1>3, <1>4, TypesMet

LEMMA FeederTypes ==
    ASSUME RunTypes, Feeder
    PROVE  RunTypes'
<1>1. UNCHANGED <<google, named, phase, stopping, walk, breaker>>
  BY FeederFrame
<1>2. ASSUME NEW w \in Workers, NEW k \in Keys, Offer(w, k)
      PROVE  feed' \in FeedRecord /\ work' \in [Workers -> WorkerRecord] /\ UNCHANGED hist
  <2>1. [IdleWorker EXCEPT !.pc = "take", !.key = k] \in WorkerRecord
    BY DEF IdleWorker, WorkerRecord, Causes
  <2> QED BY <1>2, <2>1 DEF Offer, RunTypes, FeedRecord
<1>3. ASSUME NoRoom \/ WaitBeforeAskingAgain \/ SampleListing
      PROVE  feed' \in FeedRecord /\ UNCHANGED <<work, hist>>
  <2>1. (walk.pc = "over") \in BOOLEAN
    OBVIOUS
  <2> QED BY <1>3, <2>1 DEF NoRoom, WaitBeforeAskingAgain, SampleListing, RunTypes, FeedRecord
<1>4. ASSUME BatchOver
      PROVE  feed' \in FeedRecord /\ UNCHANGED work /\ \E b \in BOOLEAN : hist' = [hist EXCEPT !.drained = b]
  <2> DEFINE over == AtTheLimit \/ DownloadCancelled
             drained == ~over /\ feed.fresh = 0 /\ feed.listingOver
             pc == IF over \/ drained THEN "closed" ELSE IF feed.fresh = 0 THEN "wait" ELSE "sample"
  <2>1. feed' = [feed EXCEPT !.fresh = 0, !.pc = pc] /\ hist' = [hist EXCEPT !.drained = drained] /\ UNCHANGED work
    BY <1>4 DEF BatchOver
  <2>2. pc \in {"closed", "wait", "sample"} /\ drained \in BOOLEAN
    BY DEF RunTypes, FeedRecord
  <2> HIDE DEF pc, drained
  <2> QED BY <2>1, <2>2 DEF RunTypes, FeedRecord
<1>5. ASSUME AskAgain
      PROVE  feed' \in FeedRecord /\ UNCHANGED work /\ hist' \in {hist, [hist EXCEPT !.touched = {}]}
  <2>1. ASSUME NEW batch \in Batches, feed' = [feed EXCEPT !.pc = "offer", !.batch = batch]
        PROVE  feed' \in FeedRecord
    <3>1. batch \in SUBSET Keys
      BY DEF Batches, Pending
    <3> QED BY <2>1, <3>1 DEF RunTypes, FeedRecord
  <2>2. ASSUME feed' = [feed EXCEPT !.pc = "closed"] PROVE feed' \in FeedRecord
    BY <2>2 DEF RunTypes, FeedRecord
  <2> QED BY <1>5, <2>1, <2>2 DEF AskAgain
<1> QED BY <1>1, <1>2, <1>3, <1>4, <1>5, SameRecords DEF Feeder, RunTypes, History

(* One more failure leaves the breaker a breaker. *)
LEMMA BreakerCounted ==
    ASSUME breaker \in BreakerRecord, NEW cause \in Causes
    PROVE  BreakerCounts(cause) \in BreakerRecord
<1> DEFINE counted == [breaker EXCEPT !.consecutive = @ + 1, !.failed = TRUE]
<1>1. counted \in BreakerRecord /\ BreakerThreshold \in Nat
  <2>1. breaker.consecutive + 1 \in Nat
    BY DEF BreakerRecord
  <2>2. counted = [breaker EXCEPT !.consecutive = breaker.consecutive + 1, !.failed = TRUE]
    BY DEF BreakerRecord
  <2> QED BY <2>1, <2>2, RunConstants DEF BreakerRecord
<1>2. \/ BreakerCounts(cause) = [counted EXCEPT !.cause = cause, !.consecutive = BreakerThreshold]
      \/ BreakerCounts(cause) = [counted EXCEPT !.consecutive = IF @ > BreakerThreshold THEN BreakerThreshold ELSE @]
  BY DEF BreakerCounts
<1> HIDE DEF counted
<1> QED BY <1>1, <1>2 DEF BreakerRecord

LEMMA WorkerTypes ==
    ASSUME RunTypes, NEW w \in Workers, Worker(w)
    PROVE  RunTypes'
<1>1. UNCHANGED <<google, named, phase, stopping, walk, feed, hist>>
  BY WorkerFrame
<1>2. work' \in [Workers -> WorkerRecord]
  <2>1. CASE TakeItem(w) \/ FetchSucceeds(w) \/ BookkeepingFails(w) \/ RecordFailure(w)
    <3>1. work' = [work EXCEPT ![w] = IdleWorker] \/ work' = [work EXCEPT ![w].pc = "fetch"]
      BY <2>1 DEF TakeItem, FetchSucceeds, BookkeepingFails, RecordFailure
    <3> QED BY <3>1, IdleRecords DEF RunTypes, WorkerRecord
  <2>2. ASSUME NEW cause \in AttemptErrors \union {"canceled"}, FetchFails(w, cause)
        PROVE  work' \in [Workers -> WorkerRecord]
    <3>1. cause \in Causes
      BY ErrorsOfARun DEF Causes
    <3> QED BY <2>2, <3>1 DEF FetchFails, RunTypes, WorkerRecord
  <2> QED BY <2>1, <2>2 DEF Worker
<1>3. breaker' \in BreakerRecord
  <2>1. CASE FetchSucceeds(w) \/ UNCHANGED breaker
    BY <2>1 DEF FetchSucceeds, RunTypes, BreakerRecord
  <2>2. CASE RecordFailure(w)
    <3>1. breaker' \in BreakerAfter(w)
      BY <2>2 DEF RecordFailure
    <3>2. work[w].cause \in Causes
      BY DEF RunTypes, WorkerRecord
    <3>3. BreakerCounts(work[w].cause) \in BreakerRecord /\ breaker \in BreakerRecord
      BY <3>2, BreakerCounted DEF RunTypes
    <3>4. breaker' = BreakerCounts(work[w].cause) \/ breaker' = [breaker EXCEPT !.failed = TRUE]
      BY <3>1 DEF BreakerAfter
    <3> QED BY <3>3, <3>4 DEF BreakerRecord
  <2>3. CASE BookkeepingFails(w)
    <3>1. breaker' = BreakerCounts("error") /\ breaker \in BreakerRecord /\ "error" \in Causes
      BY <2>3 DEF BookkeepingFails, RunTypes, Causes, Errors
    <3> QED BY <3>1, BreakerCounted
  <2> QED BY <2>1, <2>2, <2>3 DEF Worker, TakeItem, FetchFails
<1> QED BY <1>1, <1>2, <1>3, SameRecords DEF RunTypes

RunSteps == StartRun \/ Begin \/ DownloadReturns \/ Finish \/ Stop \/ Crash

LEMMA RunStepsFrame ==
    ASSUME RunSteps
    PROVE  UNCHANGED <<storeVars, google, named>>
BY DEF RunSteps, StartRun, Begin, DownloadReturns, Finish, Stop, Crash

LEMMA RunStepsTypes ==
    ASSUME RunTypes, RunSteps
    PROVE  RunTypes'
<1>1. UNCHANGED <<google, named>> /\ stopping' \in BOOLEAN
      /\ phase' \in {"idle", "reclaim", "running", "draining", "finished"}
  BY DEF RunSteps, StartRun, Begin, DownloadReturns, Finish, Stop, Crash, RunTypes
<1>2. walk' \in WalkRecord
  <2>1. [IdleWalk EXCEPT !.pc = "refresh"] \in WalkRecord
    BY IdleRecords DEF WalkRecord
  <2>2. walk' \in {walk, IdleWalk, [IdleWalk EXCEPT !.pc = "refresh"]}
    BY DEF RunSteps, StartRun, Begin, DownloadReturns, Finish, Stop, Crash
  <2> QED BY <2>1, <2>2, IdleRecords DEF RunTypes
<1>3. feed' \in FeedRecord
  <2>1. ASSUME NEW batch \in Batches, feed' = [IdleFeed EXCEPT !.pc = "offer", !.batch = batch]
        PROVE  feed' \in FeedRecord
    <3>1. batch \in SUBSET Keys
      BY DEF Batches, Pending
    <3> QED BY <2>1, <3>1, IdleRecords DEF FeedRecord
  <2>2. CASE Begin
    BY <2>1, <2>2 DEF Begin
  <2> QED BY <2>2, IdleRecords DEF RunSteps, StartRun, DownloadReturns, Finish, Stop, Crash, RunTypes
<1>4. work' \in [Workers -> WorkerRecord] /\ breaker' \in BreakerRecord
  BY IdleRecords DEF RunSteps, StartRun, Begin, DownloadReturns, Finish, Stop, Crash, RunTypes
<1>5. hist' \in History
  BY DEF RunSteps, StartRun, Begin, DownloadReturns, Finish, Stop, Crash, RunTypes, History
<1> QED BY <1>1, <1>2, <1>3, <1>4, <1>5, SameRecords DEF RunTypes

LEMMA WorldTypes ==
    ASSUME RunTypes, GoogleChanges \/ PageVisit
    PROVE  RunTypes'
<1>1. UNCHANGED <<phase, stopping, walk, feed, work, breaker>>
  BY DEF GoogleChanges, PageVisit
<1>2. CASE PageVisit
  <2>1. UNCHANGED <<google, named>> /\ Pending' \ Pending \in SUBSET Keys
    BY <1>2 DEF PageVisit, Pending
  <2>2. hist' \in History
    BY <1>2, <2>1 DEF PageVisit, RunTypes, History
  <2> QED BY <1>1, <2>1, <2>2, SameRecords DEF RunTypes
<1>3. CASE GoogleChanges
  <2>1. ASSUME NEW a \in Albums, NEW k \in Keys, UNCHANGED named,
               google' = [google EXCEPT ![a] = IF k \in @ THEN @ \ {k} ELSE @ \union {k}],
               hist' = [hist EXCEPT !.absent = IF k \in google[a] THEN @ \union {<<a, k>>} ELSE @]
        PROVE  google' \in [Albums -> SUBSET Keys] /\ named' \subseteq Albums \ {Library} /\ hist' \in History
    BY <2>1 DEF RunTypes, History
  <2>2. ASSUME NEW a \in Albums \ {Library}, named' = IF a \in named THEN named \ {a} ELSE named \union {a},
               UNCHANGED <<google, hist>>
        PROVE  google' \in [Albums -> SUBSET Keys] /\ named' \subseteq Albums \ {Library} /\ hist' \in History
    BY <2>2 DEF RunTypes
  <2>3. google' \in [Albums -> SUBSET Keys] /\ named' \subseteq Albums \ {Library} /\ hist' \in History
    BY <1>3, <2>1, <2>2 DEF GoogleChanges
  <2> QED BY <1>1, <2>3, SameRecords DEF RunTypes
<1> QED BY <1>2, <1>3

-----------------------------------------------------------------------------
(* Every step is a statement of the store, or none. *)

LEMMA AtWork ==
    ASSUME RunTypes, QueueInv, NEW w \in Workers, work[w].pc # "idle"
    PROVE  work[w].key \in Keys /\ work[w].key \in feed.offered /\ phase = "running" /\ InHand(work[w].key)
<1>1. work[w].key \in feed.offered /\ phase = "running"
  BY DEF QueueInv, WorkersIdle
<1>2. feed \in FeedRecord
  BY DEF RunTypes
<1>3. feed.offered \subseteq Keys
  BY <1>2, SMTT(30) DEF FeedRecord
<1> QED BY <1>1, <1>3 DEF InHand

LEMMA WalkerOfTheStore ==
    ASSUME RunTypes, AlbumInHand, Walker
    PROVE  StoreNext \/ UNCHANGED storeVars
<1>1. walk.album \in Albums
  BY DEF RunTypes, WalkRecord
<1>2. ASSUME NEW k \in Keys, PageItem(k) PROVE StoreNext
  BY <1>2 DEF PageItem, StoreNext
<1>3. ASSUME LinkItem PROVE StoreNext
  <2>1. walk.item \in Keys /\ Live(walk.item) /\ LinkItemToAlbum(walk.album, walk.item)
    BY <1>3 DEF LinkItem, Walking, AlbumInHand, InAnAlbum
  <2> QED BY <1>1, <2>1 DEF StoreNext
<1>4. ASSUME FlagArrivals PROVE StoreNext
  <2>1. walk.arrived \in SUBSET {k \in Keys : HasRow(k)} /\ FlagForReview(walk.arrived)
    BY <1>4 DEF FlagArrivals, Walking, AlbumInHand, InAnAlbum, RunTypes, WalkRecord
  <2> QED BY <2>1 DEF StoreNext
<1>5. ASSUME ReconcileAlbum PROVE StoreNext
  <2>1. Departures \in SUBSET AlbumMembers(walk.album) /\ Reconcile(walk.album, Departures)
    BY <1>5 DEF ReconcileAlbum, Walking, AlbumInHand, InAnAlbum, Departures
  <2> QED BY <1>1, <2>1 DEF StoreNext
<1>6. ASSUME MarkSynced PROVE StoreNext
  BY <1>1, <1>6 DEF MarkSynced, StoreNext
<1> QED BY <1>2, <1>3, <1>4, <1>5, <1>6
        DEF Walker, RefreshAlbums, ListingEnds, LastPage, SkipUnlisted, BeginAlbum, WalkFails

LEMMA WorkerOfTheStore ==
    ASSUME RunTypes, QueueInv, MayStillFail, NEW w \in Workers, Worker(w)
    PROVE  StoreNext \/ UNCHANGED storeVars
<1> DEFINE k == work[w].key
<1>1. CASE UNCHANGED storeVars
  BY <1>1
<1>2. CASE work[w].pc # "idle" /\ (SetItemState(k, "downloading") \/ MarkDownloaded(k) \/ MarkFailed(k))
  <2>1. k \in Keys /\ items[k].fails < MaxItemFailures
    BY <1>2, AtWork DEF MayStillFail
  <2> HIDE DEF k
  <2> QED BY <1>2, <2>1 DEF StoreNext
<1> QED BY <1>1, <1>2, WorkerFrame

LEMMA PagesOfTheStore ==
    ASSUME PageVisit
    PROVE  StoreNext
<1>1. ASSUME NEW a \in Albums, NEW m \in SyncModes, ChooseMode(a, m) PROVE StoreNext
  BY <1>1 DEF ChooseMode, StoreNext
<1>2. ASSUME NEW k \in Keys, ResolveReview(k) PROVE StoreNext
  <2>1. {k} \in SUBSET {j \in Keys : HasRow(j)} /\ ClearNeedsReview({k})
    BY <1>2 DEF ResolveReview, WaitingForReview, HasRow
  <2> QED BY <2>1 DEF StoreNext
<1>3. ASSUME NEW k \in Keys, NEW on \in BOOLEAN, Pick(k, on) PROVE StoreNext
  <2>1. {k} \in SUBSET {j \in Keys : HasRow(j)} /\ SetSelection({k}, on)
    BY <1>3 DEF Pick, SetSelection
  <2>2. \E some \in SUBSET {j \in Keys : HasRow(j)} : SetSelection(some, on)
    BY <2>1
  <2> QED BY <2>2, Zenon DEF StoreNext
<1> QED BY <1>1, <1>2, <1>3 DEF PageVisit

LEMMA StepOfTheStore ==
    ASSUME RunInv, [RunNext]_vars
    PROVE  [StoreNext]_storeVars
<1>1. ASSUME NEW k \in Keys, ReclaimVanishedFile(k) PROVE StoreNext
  <2>1. SetItemState(k, "discovered")
    BY <1>1 DEF ReclaimVanishedFile
  <2>2. \E s \in {"discovered", "downloading"} : SetItemState(k, s)
    BY <2>1, Zenon
  <2> QED BY <2>2, Zenon DEF StoreNext
<1>2. CASE Feeder \/ RunSteps
  BY <1>2, FeederFrame, RunStepsFrame
<1>3. CASE GoogleChanges \/ AllRunsMade \/ UNCHANGED vars
  BY <1>3 DEF GoogleChanges, AllRunsMade, vars
<1> QED BY <1>1, <1>2, <1>3, WalkerOfTheStore, WorkerOfTheStore, PagesOfTheStore DEF RunInv, RunNext, RunSteps

-----------------------------------------------------------------------------
(* What the steps leave of the rows. *)

(* Rows stay, and stay as often failed; none is written off. *)
RowsStand ==
    \A k \in Keys : /\ HasRow(k) => HasRow(k)' /\ items'[k].fails = items[k].fails
                    /\ ~WrittenOff(k) => ~WrittenOff(k)'
                    /\ items'[k].fails \in {0, items[k].fails}

LEMMA UpsertLeaves ==
    ASSUME StoreInv, NEW k \in Keys, UpsertItem(k)
    PROVE  RowsStand /\ UNCHANGED links /\ Live(k)'
<1>1. items \in [Keys -> Row] /\ items' = [items EXCEPT ![k] = UpsertedRow(items[k])] /\ UNCHANGED links
  BY DEF UpsertItem, StoreInv, StoreTypeOK
<1>2. UpsertedRow(items[k]).state \notin {"absent", "missing_upstream"}
  BY <1>1, UpsertedRowFacts
<1>3. /\ items[k].state # "absent" => UpsertedRow(items[k]).fails = items[k].fails
      /\ items[k].state = "absent" => UpsertedRow(items[k]).fails = 0
  BY <1>1 DEF UpsertedRow, Row, NoRow
<1> DEFINE r == UpsertedRow(items[k])
<1>4. \A j \in Keys : items'[j] = IF j = k THEN r ELSE items[j]
  BY <1>1
<1> HIDE DEF r
<1> QED BY <1>1, <1>2, <1>3, <1>4 DEF RowsStand, HasRow, WrittenOff, Live, r

LEMMA SetStateLeaves ==
    ASSUME StoreInv, NEW k \in Keys, NEW s \in {"discovered", "downloading"}, SetItemState(k, s)
    PROVE  RowsStand /\ UNCHANGED links /\ \A j \in Keys \ {k} : items'[j] = items[j]
<1>1. items \in [Keys -> Row] /\ items' = [items EXCEPT ![k].state = UnlessWrittenOff(items[k], s)] /\ UNCHANGED links
  BY DEF SetItemState, StoreInv, StoreTypeOK
<1> DEFINE state == UnlessWrittenOff(items[k], s)
<1>2. state # "absent" /\ (items[k].state # "missing_upstream" => state # "missing_upstream")
  BY DEF UnlessWrittenOff
<1> HIDE DEF state
<1>3. items'[k].fails = items[k].fails /\ items'[k].state = state /\ \A j \in Keys \ {k} : items'[j] = items[j]
  BY <1>1 DEF Row, state
<1> QED BY <1>1, <1>2, <1>3 DEF RowsStand, HasRow, WrittenOff

(* A fetch's end leaves its row, and every other row as it is. *)
LEMMA FetchEndLeaves ==
    ASSUME StoreInv, NEW k \in Keys, MarkDownloaded(k) \/ MarkFailed(k)
    PROVE  /\ HasRow(k)' /\ (~WrittenOff(k) => ~WrittenOff(k)') /\ UNCHANGED links
           /\ \A j \in Keys \ {k} : items'[j] = items[j]
<1>1. items \in [Keys -> Row] /\ UNCHANGED links /\ HasRow(k)
  BY DEF MarkDownloaded, MarkFailed, StoreInv, StoreTypeOK
<1>2. PICK s \in {"done", "failed"} :
        items'[k].state = UnlessWrittenOff(items[k], s) /\ \A j \in Keys \ {k} : items'[j] = items[j]
  <2>1. CASE MarkDownloaded(k)
    <3> DEFINE r == [items[k] EXCEPT !.state = UnlessWrittenOff(items[k], "done"), !.held = TRUE, !.fails = 0]
    <3>1. items' = [items EXCEPT ![k] = r]
      BY <2>1 DEF MarkDownloaded
    <3>2. r.state = UnlessWrittenOff(items[k], "done")
      BY <1>1 DEF Row
    <3> HIDE DEF r
    <3> QED BY <1>1, <3>1, <3>2
  <2>2. CASE MarkFailed(k)
    <3> DEFINE r == [items[k] EXCEPT !.state = UnlessWrittenOff(items[k], "failed"), !.fails = items[k].fails + 1]
    <3>1. items' = [items EXCEPT ![k] = r]
      BY <2>2 DEF MarkFailed
    <3>2. r.state = UnlessWrittenOff(items[k], "failed")
      BY <1>1 DEF Row
    <3> HIDE DEF r
    <3> QED BY <1>1, <3>1, <3>2
  <2> QED BY <2>1, <2>2
<1> QED BY <1>1, <1>2 DEF UnlessWrittenOff, HasRow, WrittenOff

LEMMA FlagLeaves ==
    ASSUME StoreInv, NEW some \in SUBSET Keys, FlagForReview(some) \/ ClearNeedsReview(some)
    PROVE  RowsStand /\ UNCHANGED links /\ \A k \in Keys : items'[k].state = items[k].state
<1>1. items \in [Keys -> Row] /\ UNCHANGED links
  BY DEF FlagForReview, ClearNeedsReview, StoreInv, StoreTypeOK
<1>2. \A k \in Keys : \E b \in BOOLEAN : items'[k] = items[k] \/ items'[k] = [items[k] EXCEPT !.review = b]
  BY DEF FlagForReview, ClearNeedsReview
<1>3. ASSUME NEW k \in Keys PROVE items'[k].fails = items[k].fails /\ items'[k].state = items[k].state
  <2>1. items[k] \in Row
    BY <1>1
  <2>2. PICK b \in BOOLEAN : items'[k] = items[k] \/ items'[k] = [items[k] EXCEPT !.review = b]
    BY <1>2
  <2> QED BY <2>1, <2>2 DEF Row
<1> QED BY <1>1, <1>3 DEF RowsStand, HasRow, WrittenOff

(* A reconciliation writes off none but departed items. *)
LEMMA ReconcileLeaves ==
    ASSUME StoreInv, NEW a \in Albums, NEW departed \in SUBSET Keys, Reconcile(a, departed)
    PROVE  /\ \A k \in Keys : (HasRow(k) => HasRow(k)') /\ items'[k].fails = items[k].fails
           /\ \A k \in Keys \ departed : items'[k] = items[k]
<1>1. items \in [Keys -> Row]
  BY DEF StoreInv, StoreTypeOK
<1>2. PICK left \in Orders(departed) : ReconcileInOrder(a, departed, left)
  BY DEF Reconcile
<1> DEFINE gone == GoneFromGoogle(a, departed)
<1>3. \A k \in Keys : \E b \in BOOLEAN :
        items'[k] = IF k \in gone THEN WriteOffRow(items[k], b) ELSE items[k]
  <2> SUFFICES ASSUME NEW k \in Keys
               PROVE  \E b \in BOOLEAN : items'[k] = IF k \in gone THEN WriteOffRow(items[k], b) ELSE items[k]
    OBVIOUS
  <2> DEFINE asks == k \in AskedAbout(gone, left)
  <2>1. items'[k] = IF k \in gone THEN WriteOffRow(items[k], asks) ELSE items[k]
    BY <1>2 DEF ReconcileInOrder, WriteOffRow
  <2>2. asks \in BOOLEAN
    OBVIOUS
  <2> HIDE DEF asks
  <2> QED BY <2>1, <2>2
<1>4. gone \subseteq departed
  BY DEF GoneFromGoogle
<1> HIDE DEF gone
<1>5. \A k \in Keys, b \in BOOLEAN : /\ WriteOffRow(items[k], b).fails = items[k].fails
                                     /\ WriteOffRow(items[k], b).state = "missing_upstream"
  BY <1>1 DEF WriteOffRow, Row
<1>6. \A k \in Keys : (HasRow(k) => HasRow(k)') /\ items'[k].fails = items[k].fails
  BY <1>3, <1>5 DEF HasRow
<1>7. \A k \in Keys \ departed : items'[k] = items[k]
  BY <1>3, <1>4
<1> QED BY <1>6, <1>7

-----------------------------------------------------------------------------
(* The parts of the invariant that are about the queue. *)

QueueParts == QueueInv /\ CancelledStaysCancelled /\ MayStillFail

LEMMA QueueKept ==
    ASSUME QueueParts, UNCHANGED <<phase, stopping, feed, work, breaker>>,
           \A k \in Keys : HasRow(k) => HasRow(k)' /\ items'[k].fails = items[k].fails
    PROVE  QueueParts'
<1>1. QueueInv' /\ CancelledStaysCancelled'
  BY DEF QueueParts, QueueInv, OneWorkerPerItem, WorkersIdle, CancelledStaysCancelled, DownloadCancelled
<1>2. MayStillFail'
  BY DEF QueueParts, MayStillFail, InHand, ToOffer
<1> QED BY <1>1, <1>2 DEF QueueParts

LEMMA RowsStay ==
    ASSUME RowsStand \/ UNCHANGED storeVars
    PROVE  \A k \in Keys : HasRow(k) => HasRow(k)' /\ items'[k].fails = items[k].fails
<1>1. CASE RowsStand
  BY <1>1 DEF RowsStand
<1>2. CASE UNCHANGED storeVars
  <2>1. UNCHANGED items
    BY <1>2 DEF storeVars
  <2> QED BY <2>1 DEF HasRow
<1> QED BY <1>1, <1>2

(* Nothing else the walker does is a reconciliation. *)
LEMMA WalkerStands ==
    ASSUME StoreInv, RunTypes, Walker, ~ReconcileAlbum
    PROVE  RowsStand
<1>1. walk.arrived \in SUBSET Keys
  BY DEF RunTypes, WalkRecord
<1>2. ASSUME UNCHANGED items PROVE RowsStand
  BY <1>2 DEF RowsStand, HasRow, WrittenOff
<1>3. ASSUME RefreshAlbums \/ ListingEnds \/ LastPage \/ LinkItem \/ MarkSynced PROVE UNCHANGED items
  BY <1>3 DEF RefreshAlbums, ListingEnds, LastPage, LinkItem, LinkItemToAlbum, MarkSynced, MarkAlbumSynced, storeVars
<1>4. ASSUME NEW a \in Albums, SkipUnlisted(a) \/ BeginAlbum(a) PROVE UNCHANGED items
  BY <1>4 DEF SkipUnlisted, BeginAlbum, storeVars
<1>5. ASSUME NEW err, WalkFails(err) PROVE UNCHANGED items
  BY <1>5 DEF WalkFails, storeVars
<1>6. ASSUME NEW k \in Keys, PageItem(k) PROVE RowsStand
  BY <1>6, UpsertLeaves DEF PageItem
<1>7. ASSUME FlagArrivals PROVE RowsStand
  BY <1>1, <1>7, FlagLeaves DEF FlagArrivals
<1> QED BY <1>2, <1>3, <1>4, <1>5, <1>6, <1>7, Zenon DEF Walker

LEMMA WalkerLeavesRows ==
    ASSUME StoreInv, RunTypes, Walker
    PROVE  \A k \in Keys : HasRow(k) => HasRow(k)' /\ items'[k].fails = items[k].fails
<1>1. CASE ReconcileAlbum
  <2>1. Departures \in SUBSET Keys /\ walk.album \in Albums
    BY DEF RunTypes, WalkRecord, Departures
  <2> QED BY <1>1, <2>1, ReconcileLeaves DEF ReconcileAlbum
<1>2. CASE ~ReconcileAlbum
  BY <1>2, WalkerStands, RowsStay
<1> QED BY <1>1, <1>2

LEMMA WalkerKeepsTheQueue ==
    ASSUME StoreInv, RunTypes, QueueParts, Walker
    PROVE  QueueParts'
<1>1. UNCHANGED <<phase, stopping, feed, work, breaker>>
  BY WalkerFrame
<1>2. \A k \in Keys : HasRow(k) => HasRow(k)' /\ items'[k].fails = items[k].fails
  BY WalkerLeavesRows
<1> QED BY <1>1, <1>2, QueueKept, Zenon

(* A batch is of items that have a row and may fail once more. *)
LEMMA BatchMayFail ==
    ASSUME NEW batch \in Batches
    PROVE  \A k \in batch : k \in Keys /\ HasRow(k) /\ items[k].fails < MaxItemFailures
BY DEF Batches, Pending, HasRow

LEMMA OfferKeepsTheQueue ==
    ASSUME RunTypes, QueueParts, NEW w \in Workers, NEW k \in Keys, Offer(w, k)
    PROVE  QueueParts'
<1> DEFINE taken == [IdleWorker EXCEPT !.pc = "take", !.key = k]
<1>1. /\ feed.pc = "offer" /\ k \in feed.batch /\ k \notin feed.offered
      /\ feed' = [feed EXCEPT !.offered = feed.offered \union {k}, !.fresh = 1]
      /\ work' = [work EXCEPT ![w] = taken]
      /\ UNCHANGED <<storeVars, phase, stopping, breaker>>
  BY DEF Offer, ToOffer
<1>2. taken.pc = "take" /\ taken.key = k
  BY DEF IdleWorker
<1>3. phase = "running"
  BY <1>1 DEF QueueParts, QueueInv
<1> HIDE DEF taken
<1>4. work'[w] = taken /\ \A v \in Workers \ {w} : work'[v] = work[v]
  BY <1>1 DEF RunTypes
<1>5. feed'.pc = "offer" /\ feed'.offered = feed.offered \union {k} /\ feed'.batch = feed.batch
  BY <1>1 DEF RunTypes, FeedRecord
<1>6. QueueInv'
  <2>1. \A v \in Workers : work'[v].pc # "idle" => work'[v].key \in feed'.offered
    BY <1>2, <1>4, <1>5 DEF QueueParts, QueueInv
  <2>2. \A v \in Workers \ {w} : work'[v].pc # "idle" => work'[v].key # k
    BY <1>1, <1>4 DEF QueueParts, QueueInv
  <2>3. OneWorkerPerItem'
    BY <1>2, <1>4, <2>2 DEF QueueParts, QueueInv, OneWorkerPerItem
  <2> QED BY <1>1, <1>3, <2>1, <2>3 DEF QueueInv
<1>7. CancelledStaysCancelled'
  BY <1>1, <1>2, <1>4 DEF QueueParts, CancelledStaysCancelled, DownloadCancelled
<1>8. MayStillFail'
  <2>1. \A j \in Keys : (j \in ToOffer)' \/ InHand(j)' => j \in ToOffer \/ InHand(j)
    BY <1>1, <1>2, <1>4, <1>5 DEF ToOffer, InHand
  <2> QED BY <1>1, <2>1 DEF QueueParts, MayStillFail, storeVars, HasRow
<1> QED BY <1>6, <1>7, <1>8 DEF QueueParts

LEMMA FeederKeepsTheQueue ==
    ASSUME RunTypes, QueueParts, Feeder
    PROVE  QueueParts'
<1>1. CASE NoRoom \/ BatchOver \/ WaitBeforeAskingAgain \/ SampleListing \/ AskAgain
  <2>1. UNCHANGED <<items, phase, stopping, work, breaker>>
    BY <1>1 DEF NoRoom, BatchOver, WaitBeforeAskingAgain, SampleListing, AskAgain, storeVars
  <2>2. phase = "running"
    BY <1>1 DEF NoRoom, BatchOver, WaitBeforeAskingAgain, SampleListing, AskAgain, QueueParts, QueueInv
  <2>3. feed'.offered = feed.offered /\ (feed'.batch = feed.batch \/ feed'.batch \in Batches)
    BY <1>1 DEF NoRoom, BatchOver, WaitBeforeAskingAgain, SampleListing, AskAgain, RunTypes, FeedRecord
  <2>4. QueueInv'
    BY <2>1, <2>2, <2>3 DEF QueueParts, QueueInv, OneWorkerPerItem
  <2>5. CancelledStaysCancelled'
    BY <2>1 DEF QueueParts, CancelledStaysCancelled, DownloadCancelled
  <2>6. MayStillFail'
    BY <2>1, <2>3, BatchMayFail DEF QueueParts, MayStillFail, ToOffer, InHand, HasRow
  <2> QED BY <2>4, <2>5, <2>6 DEF QueueParts
<1> QED BY <1>1, OfferKeepsTheQueue DEF Feeder

LEMMA BreakerStaysTripped ==
    ASSUME breaker \in BreakerRecord, breaker.cause # "none"
    PROVE  /\ \A cause : BreakerCounts(cause).cause # "none"
           /\ \A w : \A after \in BreakerAfter(w) : after.cause # "none"
<1> DEFINE counted == [breaker EXCEPT !.consecutive = @ + 1, !.failed = TRUE]
<1>1. ASSUME NEW cause
      PROVE  BreakerCounts(cause) = [counted EXCEPT !.consecutive = IF @ > BreakerThreshold THEN BreakerThreshold ELSE @]
  <2>1. ~(counted.consecutive >= BreakerThreshold /\ breaker.cause = "none")
    OBVIOUS
  <2> QED BY <2>1 DEF BreakerCounts
<1>2. counted.cause = breaker.cause /\ "cause" \in DOMAIN counted
  BY DEF BreakerRecord
<1> HIDE DEF counted
<1>3. \A cause : BreakerCounts(cause).cause # "none"
  BY <1>1, <1>2
<1>4. [breaker EXCEPT !.failed = TRUE].cause # "none"
  BY DEF BreakerRecord
<1> QED BY <1>3, <1>4 DEF BreakerAfter

(* A worker's step, from what it makes of its own record and its own row. *)
LEMMA WorkerMoves ==
    ASSUME RunTypes, QueueParts, NEW w \in Workers, work[w].pc # "idle",
           UNCHANGED <<phase, stopping, feed>>, DownloadCancelled => DownloadCancelled',
           \A v \in Workers \ {w} : work'[v] = work[v],
           work'[w].pc # "idle" => work'[w].key = work[w].key,
           work'[w].pc = "failed" /\ work'[w].cause = "canceled" => DownloadCancelled',
           \A k \in Keys \ {work[w].key} : items'[k] = items[k],
           work'[w].pc # "idle" => /\ HasRow(work[w].key) => HasRow(work[w].key)'
                                   /\ items'[work[w].key].fails = items[work[w].key].fails
    PROVE  QueueParts'
<1>1. work[w].key \in Keys /\ work[w].key \in feed.offered /\ phase = "running" /\ InHand(work[w].key)
  BY AtWork DEF QueueParts
<1>2. QueueInv'
  BY <1>1 DEF QueueParts, QueueInv, OneWorkerPerItem
<1>3. CancelledStaysCancelled'
  BY DEF QueueParts, CancelledStaysCancelled
<1>4. MayStillFail'
  <2> SUFFICES ASSUME NEW k \in Keys, (k \in ToOffer)' \/ InHand(k)'
               PROVE  HasRow(k)' /\ items'[k].fails < MaxItemFailures
    BY DEF MayStillFail
  <2>1. k \in ToOffer \/ InHand(k)
    BY DEF ToOffer, InHand
  <2>2. HasRow(k) /\ items[k].fails < MaxItemFailures
    BY <2>1 DEF QueueParts, MayStillFail
  <2>3. CASE k = work[w].key
    <3>1. k \notin ToOffer'
      BY <1>1, <2>3 DEF ToOffer
    <3>2. work'[w].pc # "idle"
      BY <2>3, <3>1 DEF InHand, QueueParts, QueueInv, OneWorkerPerItem
    <3> QED BY <2>2, <2>3, <3>2
  <2>4. CASE k # work[w].key
    BY <2>2, <2>4 DEF HasRow
  <2> QED BY <2>3, <2>4
<1> QED BY <1>2, <1>3, <1>4 DEF QueueParts

LEMMA WorkerKeepsTheQueue ==
    ASSUME StoreInv, RunTypes, QueueParts, NEW w \in Workers, Worker(w)
    PROVE  QueueParts'
<1> DEFINE k == work[w].key
<1>1. work[w].pc # "idle" /\ UNCHANGED <<phase, stopping, feed>> /\ work[w] \in WorkerRecord
  BY WorkerFrame DEF RunTypes
<1>2. k \in Keys
  BY <1>1, AtWork DEF QueueParts
<1>3. CASE TakeItem(w)
  <2>1. UNCHANGED breaker
    BY <1>3 DEF TakeItem
  <2>2. /\ work'[w] = IdleWorker \/ work'[w] = [work[w] EXCEPT !.pc = "fetch"]
        /\ \A v \in Workers \ {w} : work'[v] = work[v]
    BY <1>3 DEF TakeItem, RunTypes
  <2>3. work'[w].pc \in {"idle", "fetch"} /\ (work'[w].pc # "idle" => work'[w].key = k)
    BY <1>1, <2>2, IdleRecords DEF WorkerRecord
  <2>4. RowsStand /\ \A j \in Keys \ {k} : items'[j] = items[j]
    <3>1. CASE SetItemState(k, "downloading")
      BY <1>2, <3>1, SetStateLeaves
    <3>2. CASE UNCHANGED storeVars
      BY <3>2 DEF storeVars, RowsStand, HasRow, WrittenOff
    <3> QED BY <1>3, <3>1, <3>2 DEF TakeItem
  <2> QED BY <1>1, <1>2, <2>1, <2>2, <2>3, <2>4, WorkerMoves, AtWork
          DEF DownloadCancelled, RowsStand, QueueParts, MayStillFail
<1>4. ASSUME NEW cause \in AttemptErrors \union {"canceled"}, FetchFails(w, cause)
      PROVE  QueueParts'
  <2>1. UNCHANGED <<items, breaker>> /\ (cause = "canceled" => DownloadCancelled)
    BY <1>4, ErrorsOfARun DEF FetchFails, storeVars, Errors
  <2>2. /\ \/ work'[w] = [work[w] EXCEPT !.attempt = work[w].attempt + 1] /\ work[w].pc = "fetch"
           \/ work'[w] = [work[w] EXCEPT !.pc = "failed", !.cause = cause]
        /\ \A v \in Workers \ {w} : work'[v] = work[v]
    BY <1>4 DEF FetchFails, RunTypes
  <2>3. work'[w].key = k /\ (work'[w].pc = "failed" => work'[w].cause = cause)
    BY <1>1, <2>2 DEF WorkerRecord
  <2> QED BY <1>1, <2>1, <2>2, <2>3, WorkerMoves DEF DownloadCancelled, HasRow
<1>5. CASE FetchSucceeds(w) \/ BookkeepingFails(w) \/ RecordFailure(w)
  <2>1. work'[w] = IdleWorker /\ \A v \in Workers \ {w} : work'[v] = work[v]
    BY <1>5 DEF FetchSucceeds, BookkeepingFails, RecordFailure, RunTypes
  <2>2. \A j \in Keys \ {k} : items'[j] = items[j]
    BY <1>2, <1>5, FetchEndLeaves DEF FetchSucceeds, BookkeepingFails, RecordFailure, storeVars
  <2>3. breaker.cause # "none" => breaker'.cause # "none"
    <3>1. breaker \in BreakerRecord
      BY DEF RunTypes
    <3>2. CASE FetchSucceeds(w)
      BY <3>1, <3>2 DEF FetchSucceeds, BreakerRecord
    <3>3. CASE RecordFailure(w)
      BY <3>1, <3>3, BreakerStaysTripped DEF RecordFailure
    <3>4. CASE BookkeepingFails(w)
      BY <3>1, <3>4, BreakerStaysTripped DEF BookkeepingFails
    <3> QED BY <1>5, <3>2, <3>3, <3>4
  <2> QED BY <1>1, <2>1, <2>2, <2>3, IdleRecords, WorkerMoves DEF DownloadCancelled
<1> QED BY <1>3, <1>4, <1>5 DEF Worker

LEMMA RunStepsKeepTheQueue ==
    ASSUME RunTypes, QueueParts, RunSteps
    PROVE  QueueParts'
<1>1. UNCHANGED items
  BY DEF RunSteps, StartRun, Begin, DownloadReturns, Finish, Stop, Crash, storeVars
<1>2. CASE StartRun \/ Begin \/ Crash
  <2>1. \A w \in Workers : work'[w].pc = "idle"
    <3>1. CASE StartRun \/ Begin
      BY <1>2, <3>1 DEF StartRun, Begin, QueueParts, QueueInv, WorkersIdle
    <3>2. CASE Crash
      BY <3>2, IdleRecords DEF Crash
    <3> QED BY <1>2, <3>1, <3>2
  <2>2. \/ phase' # "running" /\ feed'.pc = "off" /\ feed'.batch = {}
        \/ phase' = "running" /\ feed'.batch \in Batches
    BY <1>2, IdleRecords DEF StartRun, Begin, Crash, FeedRecord
  <2>3. QueueInv'
    BY <2>1, <2>2 DEF QueueInv, OneWorkerPerItem, WorkersIdle
  <2>4. CancelledStaysCancelled'
    BY <2>1 DEF CancelledStaysCancelled
  <2>5. MayStillFail'
    BY <1>1, <2>1, <2>2, BatchMayFail DEF MayStillFail, ToOffer, InHand, HasRow
  <2> QED BY <2>3, <2>4, <2>5 DEF QueueParts
<1>3. CASE DownloadReturns \/ Finish \/ Stop
  <2>1. UNCHANGED <<feed, work, breaker>> /\ (stopping => stopping')
    BY <1>3 DEF DownloadReturns, Finish, Stop
  <2>2. phase' # "running" => WorkersIdle /\ feed.pc \in {"off", "closed"}
    BY <1>3 DEF DownloadReturns, Finish, Stop, QueueParts, QueueInv
  <2>3. QueueInv'
    BY <2>1, <2>2 DEF QueueParts, QueueInv, OneWorkerPerItem, WorkersIdle
  <2>4. CancelledStaysCancelled'
    BY <2>1 DEF QueueParts, CancelledStaysCancelled, DownloadCancelled
  <2>5. MayStillFail'
    BY <1>1, <2>1 DEF QueueParts, MayStillFail, ToOffer, InHand, HasRow
  <2> QED BY <2>3, <2>4, <2>5 DEF QueueParts
<1> QED BY <1>2, <1>3 DEF RunSteps

LEMMA PagesLeaveRows ==
    ASSUME StoreInv, PageVisit
    PROVE  RowsStand /\ UNCHANGED links
<1>1. ASSUME NEW a \in Albums, NEW m \in SyncModes, ChooseMode(a, m) PROVE RowsStand /\ UNCHANGED links
  BY <1>1 DEF ChooseMode, SetAlbumSyncMode, RowsStand, HasRow, WrittenOff
<1>2. ASSUME NEW k \in Keys, ResolveReview(k) PROVE RowsStand /\ UNCHANGED links
  BY <1>2, FlagLeaves DEF ResolveReview
<1>3. ASSUME NEW k \in Keys, NEW on \in BOOLEAN, Pick(k, on) PROVE RowsStand /\ UNCHANGED links
  BY <1>3 DEF Pick, SetSelection, RowsStand, HasRow, WrittenOff
<1> QED BY <1>1, <1>2, <1>3 DEF PageVisit

LEMMA NextKeepsTheQueue ==
    ASSUME StoreInv, RunTypes, QueueParts, [RunNext]_vars
    PROVE  QueueParts'
<1>1. CASE PageVisit
  BY <1>1, PagesLeaveRows, RowsStay, QueueKept DEF PageVisit
<1>2. ASSUME NEW k \in Keys, ReclaimVanishedFile(k) PROVE QueueParts'
  BY <1>2, SetStateLeaves, RowsStay, QueueKept DEF ReclaimVanishedFile, runVars
<1>3. CASE GoogleChanges \/ AllRunsMade \/ UNCHANGED vars
  BY <1>3, RowsStay, QueueKept DEF GoogleChanges, AllRunsMade, vars, runVars
<1> QED BY <1>1, <1>2, <1>3, WalkerKeepsTheQueue, FeederKeepsTheQueue, WorkerKeepsTheQueue, RunStepsKeepTheQueue
        DEF RunNext, RunSteps

LEMMA NextTypes ==
    ASSUME RunTypes, [RunNext]_vars
    PROVE  RunTypes'
<1>1. CASE UNCHANGED runVars
  BY <1>1, SameRecords DEF runVars, RunTypes
<1>2. ASSUME (\E k \in Keys : ReclaimVanishedFile(k)) \/ AllRunsMade \/ UNCHANGED vars
      PROVE  UNCHANGED runVars
  BY <1>2 DEF ReclaimVanishedFile, AllRunsMade, vars
<1> QED BY <1>1, <1>2, WalkerTypes, FeederTypes, WorkerTypes, RunStepsTypes, WorldTypes DEF RunNext, RunSteps

-----------------------------------------------------------------------------
(* The drain. *)

(* What is pending depends on no other row, unless links, modes or picks
   change. *)
LEMMA PendingMoves ==
    ASSUME UNCHANGED <<links, mode, selected>>, NEW k, \A j \in Keys \ {k} : items'[j] = items[j]
    PROVE  Pending' \subseteq Pending \union {k}
<1>1. \A j \in Keys : InTheSyncSet(j)' <=> InTheSyncSet(j)
  BY DEF InTheSyncSet, CoveringAlbums
<1> QED BY <1>1 DEF Pending

LEMMA DrainKept ==
    ASSUME DrainInv, UNCHANGED <<phase, feed>>, hist'.drained = hist.drained,
           walk.pc = "over" => /\ walk'.pc = "over"
                               /\ Pending' \subseteq Pending \union feed.offered \union hist'.touched
                               /\ hist.touched \subseteq hist'.touched
    PROVE  DrainInv'
<1>1. ASSUME NEW some, walk.pc = "over", Covered(some) PROVE Pending' \subseteq some \union feed'.offered \union hist'.touched
  BY <1>1 DEF Covered
<1>2. feed.pc = "offer" /\ feed.listingOver =>
        Cardinality(feed.batch) = MaxItemsPerRun \/ Pending' \subseteq feed.batch \union feed'.offered \union hist'.touched
  BY <1>1 DEF DrainInv
<1>3. feed.pc = "closed" /\ hist.drained =>
        walk.pc = "over" /\ Pending' \subseteq {} \union feed'.offered \union hist'.touched
  BY <1>1 DEF DrainInv
<1> QED BY <1>2, <1>3 DEF DrainInv, Covered

LEMMA WalkerKeepsTheDrain ==
    ASSUME RunTypes, DrainInv, Walker
    PROVE  DrainInv'
<1>1. walk.pc # "over"
  <2>1. walk.pc \notin {"off", "over"}
    BY WalkerAtWork, SMTT(30)
  <2> QED BY <2>1
<1>2. hist'.drained = hist.drained
  <2>1. CASE RefreshAlbums
    <3> DEFINE absent == {l \in Albums \X Keys : l[2] \notin google[l[1]]}
    <3>1. hist' = [hist EXCEPT !.absent = absent]
      BY <2>1 DEF RefreshAlbums
    <3> HIDE DEF absent
    <3> QED BY <3>1 DEF RunTypes, History
  <2>2. CASE MarkSynced
    <3>1. hist' = [hist EXCEPT !.known[walk.album] = AlbumMembers(walk.album)]
      BY <2>2 DEF MarkSynced
    <3> QED BY <3>1 DEF RunTypes, History
  <2>3. CASE UNCHANGED hist
    BY <2>3
  <2> QED BY <2>1, <2>2, <2>3 DEF Walker, ListingEnds, LinkItem, LastPage, FlagArrivals, ReconcileAlbum,
                                  SkipUnlisted, BeginAlbum, PageItem, WalkFails
<1>3. UNCHANGED <<phase, feed>>
  BY WalkerFrame
<1> QED BY <1>1, <1>2, <1>3, DrainKept, Zenon

LEMMA WorkerKeepsTheDrain ==
    ASSUME StoreInv, RunTypes, QueueInv, DrainInv, NEW w \in Workers, Worker(w)
    PROVE  DrainInv'
<1> DEFINE k == work[w].key
<1>1. work[w].pc # "idle" /\ UNCHANGED <<phase, walk, feed, hist>>
  BY WorkerFrame
<1>2. k \in Keys /\ k \in feed.offered
  BY <1>1, AtWork, Zenon
<1>3. UNCHANGED <<links, mode, selected>>
  <2>1. ASSUME UNCHANGED storeVars PROVE UNCHANGED <<links, mode, selected>>
    BY <2>1 DEF storeVars
  <2>2. ASSUME SetItemState(k, "downloading") PROVE UNCHANGED <<links, mode, selected>>
    BY <2>2 DEF SetItemState
  <2>3. ASSUME MarkDownloaded(k) \/ MarkFailed(k) PROVE UNCHANGED <<links, mode, selected>>
    BY <2>3 DEF MarkDownloaded, MarkFailed
  <2> QED BY <2>1, <2>2, <2>3, WorkerFrame
<1>4. \A j \in Keys \ {k} : items'[j] = items[j]
  <2>1. CASE UNCHANGED storeVars
    BY <2>1 DEF storeVars
  <2>2. CASE SetItemState(k, "downloading")
    BY <1>2, <2>2, SetStateLeaves
  <2>3. CASE MarkDownloaded(k) \/ MarkFailed(k)
    BY <1>2, <2>3, FetchEndLeaves
  <2> QED BY <2>1, <2>2, <2>3, WorkerFrame
<1>5. Pending' \subseteq Pending \union {k}
  BY <1>3, <1>4, PendingMoves
<1> QED BY <1>1, <1>2, <1>5, DrainKept

(* The feeder closes a drained queue only below the limit, so it saw all of
   what was pending when it asked last. *)
LEMMA DrainedBatch ==
    ASSUME RunTypes, DrainInv, feed.pc = "offer", feed.listingOver, ToOffer = {}, ~AtTheLimit
    PROVE  walk.pc = "over" /\ Covered({})
<1>1. feed.batch \subseteq feed.offered /\ feed.offered \subseteq Keys
  BY DEF ToOffer, RunTypes, FeedRecord
<1>2. IsFiniteSet(feed.offered)
  BY <1>1, FS_Subset, RunConstants
<1>3. Cardinality(feed.batch) <= Cardinality(feed.offered)
  BY <1>1, <1>2, FS_Subset
<1>4. IsFiniteSet(feed.batch) /\ Cardinality(feed.batch) \in Nat /\ Cardinality(feed.offered) \in Nat
  BY <1>1, <1>2, FS_Subset, FS_CardinalityType
<1>5. Cardinality(feed.batch) # MaxItemsPerRun
  BY <1>3, <1>4, RunConstants DEF AtTheLimit
<1> QED BY <1>1, <1>5 DEF DrainInv, Covered

LEMMA FeederKeepsTheDrain ==
    ASSUME RunTypes, QueueInv, DrainInv, Feeder
    PROVE  DrainInv'
<1>1. phase = "running" /\ UNCHANGED <<phase, walk, storeVars>>
  BY FeederFrame DEF QueueInv
<1>2. feed.pc # "closed" /\ ~hist.drained
  BY <1>1, FeederFrame DEF DrainInv
<1>3. Pending' = Pending
  BY <1>1 DEF Pending, InTheSyncSet, CoveringAlbums, storeVars
<1>4. ASSUME NEW w \in Workers, NEW k \in Keys, Offer(w, k) PROVE DrainInv'
  <2>1. feed.pc = "offer" /\ feed' = [feed EXCEPT !.offered = feed.offered \union {k}, !.fresh = 1] /\ UNCHANGED hist
    BY <1>4 DEF Offer
  <2>2. feed'.pc = feed.pc /\ feed'.listingOver = feed.listingOver /\ feed'.batch = feed.batch
        /\ feed'.offered = feed.offered \union {k}
    BY <2>1 DEF RunTypes, FeedRecord
  <2> QED BY <1>1, <1>2, <1>3, <2>1, <2>2 DEF DrainInv, Covered
<1>5. CASE NoRoom \/ WaitBeforeAskingAgain
  <2>1. feed'.pc # "offer" /\ feed'.listingOver = feed.listingOver /\ UNCHANGED hist
    BY <1>5 DEF NoRoom, WaitBeforeAskingAgain, RunTypes, FeedRecord
  <2> QED BY <1>1, <1>2, <2>1 DEF DrainInv
<1>6. CASE SampleListing
  <2>1. feed'.pc = "query" /\ feed'.listingOver = (walk.pc = "over") /\ UNCHANGED hist
    BY <1>6 DEF SampleListing, RunTypes, FeedRecord
  <2> QED BY <1>1, <1>2, <2>1 DEF DrainInv
<1>7. CASE AskAgain
  <2>1. CASE feed' = [feed EXCEPT !.pc = "closed"] /\ UNCHANGED hist
    <3>1. feed'.pc = "closed" /\ feed'.listingOver = feed.listingOver
      BY <2>1 DEF RunTypes, FeedRecord
    <3> QED BY <1>1, <1>2, <2>1, <3>1 DEF DrainInv
  <2>2. ASSUME NEW batch \in Batches, feed' = [feed EXCEPT !.pc = "offer", !.batch = batch],
               hist' = [hist EXCEPT !.touched = {}]
        PROVE  DrainInv'
    <3>1. feed'.pc = "offer" /\ feed'.listingOver = feed.listingOver /\ feed'.batch = batch
          /\ hist'.drained = hist.drained
      BY <2>2 DEF RunTypes, FeedRecord, History
    <3>2. batch = Pending \/ Cardinality(batch) = MaxItemsPerRun
      BY DEF Batches
    <3> QED BY <1>1, <1>2, <1>3, <3>1, <3>2 DEF DrainInv, Covered
  <2> QED BY <1>7, <2>1, <2>2 DEF AskAgain
<1>8. CASE BatchOver
  <2> DEFINE over == AtTheLimit \/ DownloadCancelled
             drained == ~over /\ feed.fresh = 0 /\ feed.listingOver
             pc == IF over \/ drained THEN "closed" ELSE IF feed.fresh = 0 THEN "wait" ELSE "sample"
  <2>1. feed' = [feed EXCEPT !.fresh = 0, !.pc = pc] /\ hist' = [hist EXCEPT !.drained = drained]
        /\ feed.pc = "offer" /\ (ToOffer = {} \/ over)
    BY <1>8 DEF BatchOver
  <2>2. pc # "offer" /\ (drained => pc = "closed" /\ feed.listingOver /\ ~over)
    OBVIOUS
  <2>3. drained => ToOffer = {} /\ ~AtTheLimit /\ feed.listingOver
    BY <2>1
  <2> HIDE DEF pc, drained
  <2>4. feed'.pc = pc /\ feed'.listingOver = feed.listingOver /\ feed'.offered = feed.offered
        /\ hist'.drained = drained /\ hist'.touched = hist.touched
    BY <2>1 DEF RunTypes, FeedRecord, History
  <2>5. drained => walk.pc = "over" /\ Covered({})
    BY <2>1, <2>3, DrainedBatch
  <2> QED BY <1>1, <1>3, <2>2, <2>4, <2>5 DEF DrainInv, Covered
<1> QED BY <1>4, <1>5, <1>6, <1>7, <1>8, Zenon DEF Feeder

LEMMA RunStepsKeepTheDrain ==
    ASSUME RunTypes, DrainInv, RunSteps
    PROVE  DrainInv'
<1>1. CASE StartRun
  <2>1. feed' = IdleFeed /\ ~hist'.drained
    BY <1>1 DEF StartRun, RunTypes, History
  <2> QED BY <2>1, IdleRecords DEF DrainInv
<1>2. CASE Begin
  <2>1. ~hist.drained /\ UNCHANGED hist /\ phase' = "running"
    BY <1>2 DEF Begin, DrainInv
  <2>2. ~feed'.listingOver /\ feed'.pc = "offer"
    BY <1>2, IdleRecords DEF Begin, FeedRecord
  <2> QED BY <2>1, <2>2 DEF DrainInv
<1>3. CASE DownloadReturns \/ Finish
  <2>1. UNCHANGED <<storeVars, feed, walk, hist>> /\ phase' \notin {"reclaim", "running"}
    BY <1>3 DEF DownloadReturns, Finish
  <2>2. Pending' = Pending
    BY <2>1 DEF Pending, InTheSyncSet, CoveringAlbums, storeVars
  <2> QED BY <2>1, <2>2 DEF DrainInv, Covered
<1>4. CASE Stop
  <2>1. UNCHANGED <<storeVars, phase, feed, walk, hist>>
    BY <1>4 DEF Stop
  <2>2. Pending' = Pending
    BY <2>1 DEF Pending, InTheSyncSet, CoveringAlbums, storeVars
  <2> QED BY <2>1, <2>2, DrainKept
<1>5. CASE Crash
  <2>1. feed' = IdleFeed /\ phase' = "idle"
    BY <1>5 DEF Crash
  <2> QED BY <2>1, IdleRecords DEF DrainInv
<1> QED BY <1>1, <1>2, <1>3, <1>4, <1>5 DEF RunSteps

LEMMA NextKeepsTheDrain ==
    ASSUME StoreInv, RunTypes, QueueInv, DrainInv, [RunNext]_vars
    PROVE  DrainInv'
<1>1. ASSUME NEW k \in Keys, ReclaimVanishedFile(k) PROVE DrainInv'
  BY <1>1 DEF ReclaimVanishedFile, runVars, DrainInv
<1>2. CASE PageVisit
  <2>1. hist' = [hist EXCEPT !.touched = @ \union (Pending' \ Pending)] /\ UNCHANGED <<phase, walk, feed>>
    BY <1>2 DEF PageVisit
  <2>2. hist'.drained = hist.drained /\ hist'.touched = hist.touched \union (Pending' \ Pending)
    BY <2>1 DEF RunTypes, History
  <2> QED BY <2>1, <2>2, DrainKept
<1>3. CASE GoogleChanges \/ AllRunsMade \/ UNCHANGED vars
  <2>1. UNCHANGED <<storeVars, phase, walk, feed>>
    BY <1>3 DEF GoogleChanges, AllRunsMade, vars, runVars
  <2>2. Pending' = Pending
    BY <2>1 DEF Pending, InTheSyncSet, CoveringAlbums, storeVars
  <2>3. UNCHANGED hist \/ \E absent \in {hist'.absent} : hist' = [hist EXCEPT !.absent = absent]
    BY <1>3 DEF GoogleChanges, AllRunsMade, vars, runVars, RunTypes, History
  <2>4. hist'.drained = hist.drained /\ hist'.touched = hist.touched
    BY <2>3 DEF RunTypes, History
  <2> QED BY <2>1, <2>2, <2>4, DrainKept
<1> QED BY <1>1, <1>2, <1>3, WalkerKeepsTheDrain, FeederKeepsTheDrain, WorkerKeepsTheDrain, RunStepsKeepTheDrain
        DEF RunNext, RunSteps

-----------------------------------------------------------------------------
(* What is followed is walked. *)

(* A step about the album in hand. *)
LEMMA SameAlbum ==
    ASSUME FollowedInv, walk.pc \in InAnAlbum, walk'.pc \in InAnAlbum,
           walk'.todo = walk.todo, walk'.album = walk.album, walk'.walked = walk.walked,
           walk'.followed = walk.followed, walk'.skipped = walk.skipped, walk'.unlisted = walk.unlisted
    PROVE  FollowedInv'
BY DEF FollowedInv, Untroubled, Ahead, InAnAlbum

(* A step that puts the run in trouble owes nothing. *)
LEMMA Troubled ==
    ASSUME walk'.skipped \/ walk'.unlisted \/ (walk'.pc = "over" /\ walk'.err # "none")
    PROVE  FollowedInv'
BY DEF FollowedInv, Untroubled

LEMMA WalkerKeepsFollowed ==
    ASSUME RunTypes, FollowedInv, Walker
    PROVE  FollowedInv'
<1>1. CASE RefreshAlbums
  BY <1>1, RefreshFields DEF FollowedInv, Ahead
<1>2. CASE ListingEnds
  <2>1. walk.pc = "choose" /\ walk.todo = {} /\ walk' = [walk EXCEPT !.pc = "over", !.err = Verdict]
    BY <1>2 DEF ListingEnds, Walking, WalkEnds
  <2>2. walk'.pc = "over" /\ walk'.followed = walk.followed /\ walk'.walked = walk.walked
        /\ walk'.skipped = walk.skipped /\ walk'.unlisted = walk.unlisted
    BY <2>1 DEF RunTypes, WalkRecord
  <2>3. Ahead' = {} /\ Ahead = {}
    BY <2>1, <2>2 DEF Ahead, InAnAlbum
  <2> QED BY <2>1, <2>2, <2>3 DEF FollowedInv, Untroubled
<1>3. CASE LinkItem \/ FlagArrivals \/ ReconcileAlbum
  <2> DEFINE pc == walk'.pc
             item == walk'.item
  <2>1. walk' = [walk EXCEPT !.pc = pc, !.item = item] /\ pc \in InAnAlbum
    <3>1. CASE LinkItem
      BY <3>1 DEF LinkItem, InAnAlbum, RunTypes, WalkRecord
    <3>2. CASE FlagArrivals \/ ReconcileAlbum
      BY <3>2 DEF FlagArrivals, ReconcileAlbum, InAnAlbum, RunTypes, WalkRecord
    <3> QED BY <1>3, <3>1, <3>2
  <2> HIDE DEF pc, item
  <2>2. walk.pc \in InAnAlbum
    BY <1>3 DEF LinkItem, FlagArrivals, ReconcileAlbum, Walking, InAnAlbum
  <2>3. walk'.todo = walk.todo /\ walk'.album = walk.album /\ walk'.walked = walk.walked
        /\ walk'.followed = walk.followed /\ walk'.skipped = walk.skipped /\ walk'.unlisted = walk.unlisted
    BY <2>1 DEF RunTypes, WalkRecord
  <2>4. walk'.pc \in InAnAlbum
    BY <2>1 DEF pc
  <2> QED BY <2>2, <2>3, <2>4, SameAlbum
<1>4. CASE LastPage
  <2>1. CASE WalkEnds("drift")
    <3>1. walk'.pc = "over" /\ walk'.err = "drift"
      BY <2>1 DEF WalkEnds, RunTypes, WalkRecord
    <3> QED BY <3>1, Troubled
  <2>2. CASE walk' = [walk EXCEPT !.pc = IF walk.seen = {} /\ walk.album = Library THEN "mark" ELSE "flag"]
    <3>1. walk'.pc \in InAnAlbum /\ walk.pc \in InAnAlbum
      BY <1>4, <2>2 DEF LastPage, Walking, RunTypes, WalkRecord, InAnAlbum
    <3>2. walk'.todo = walk.todo /\ walk'.album = walk.album /\ walk'.walked = walk.walked
          /\ walk'.followed = walk.followed /\ walk'.skipped = walk.skipped /\ walk'.unlisted = walk.unlisted
      BY <2>2 DEF RunTypes, WalkRecord
    <3> QED BY <3>1, <3>2, SameAlbum
  <2> QED BY <1>4, <2>1, <2>2 DEF LastPage
<1>5. CASE MarkSynced
  <2>1. walk.pc = "mark" /\ walk' = [walk EXCEPT !.pc = "choose", !.walked = @ \union {walk.album}]
    BY <1>5 DEF MarkSynced, Walking
  <2>2. walk'.pc = "choose" /\ walk'.walked = walk.walked \union {walk.album} /\ walk'.todo = walk.todo
        /\ walk'.followed = walk.followed /\ walk'.skipped = walk.skipped /\ walk'.unlisted = walk.unlisted
    BY <2>1 DEF RunTypes, WalkRecord
  <2>3. Ahead = walk.todo \union {walk.album} /\ Ahead' = walk.todo
    BY <2>1, <2>2 DEF Ahead, InAnAlbum
  <2> QED BY <2>1, <2>2, <2>3 DEF FollowedInv, Untroubled
<1>6. ASSUME NEW a \in Albums, SkipUnlisted(a) PROVE FollowedInv'
  <2>1. walk'.unlisted
    BY <1>6 DEF SkipUnlisted, RunTypes, WalkRecord
  <2> QED BY <2>1, Troubled
<1>7. ASSUME NEW a \in Albums, BeginAlbum(a) PROVE FollowedInv'
  <2> DEFINE members == AlbumMembers(a)
             matters == a # Library /\ mode[a] = "picked" /\ a \in synced
  <2>1. walk' = [walk EXCEPT !.pc = "page", !.todo = @ \ {a}, !.album = a, !.members = members,
                             !.matters = matters, !.ahead = google[a], !.seen = {}, !.arrived = {}]
        /\ walk.pc = "choose"
    BY <1>7 DEF BeginAlbum, Walking
  <2> HIDE DEF members, matters
  <2>2. walk'.pc = "page" /\ walk'.todo = walk.todo \ {a} /\ walk'.album = a /\ walk'.walked = walk.walked
        /\ walk'.followed = walk.followed /\ walk'.skipped = walk.skipped /\ walk'.unlisted = walk.unlisted
    BY <2>1 DEF RunTypes, WalkRecord
  <2>3. Ahead = walk.todo /\ Ahead' = (walk.todo \ {a}) \union {a}
    BY <2>1, <2>2 DEF Ahead, InAnAlbum
  <2> QED BY <2>1, <2>2, <2>3 DEF FollowedInv, Untroubled
<1>8. ASSUME NEW k \in Keys, PageItem(k) PROVE FollowedInv'
  <2> DEFINE arrived == IF walk.matters /\ k \notin walk.members THEN walk.arrived \union {k} ELSE walk.arrived
  <2>1. walk' = [walk EXCEPT !.pc = "link", !.item = k, !.ahead = walk.ahead \ {k}, !.seen = walk.seen \union {k},
                             !.arrived = arrived]
        /\ walk.pc = "page"
    BY <1>8 DEF PageItem, Walking
  <2> HIDE DEF arrived
  <2>2. walk'.pc = "link" /\ walk'.todo = walk.todo /\ walk'.album = walk.album /\ walk'.walked = walk.walked
        /\ walk'.followed = walk.followed /\ walk'.skipped = walk.skipped /\ walk'.unlisted = walk.unlisted
    BY <2>1 DEF RunTypes, WalkRecord
  <2>3. walk.pc \in InAnAlbum /\ walk'.pc \in InAnAlbum
    BY <2>1, <2>2 DEF InAnAlbum
  <2> QED BY <2>2, <2>3, SameAlbum
<1>9. ASSUME NEW err \in ListingErrors \union {"canceled"}, WalkFails(err) PROVE FollowedInv'
  <2>1. err # "none"
    BY ErrorsOfARun DEF Errors
  <2>2. walk'.skipped \/ (walk'.pc = "over" /\ walk'.err = err)
    BY <1>9 DEF WalkFails, WalkEnds, RunTypes, WalkRecord
  <2> QED BY <2>1, <2>2, Troubled
<1> QED BY <1>1, <1>2, <1>3, <1>4, <1>5, <1>6, <1>7, <1>8, <1>9, Zenon DEF Walker

(* An ok is given to a run in no trouble only. *)
LEMMA OkOutcome ==
    ASSUME NEW downloadErr, NEW listErr, OutcomeOf(WorseOf(downloadErr, listErr)) = "ok"
    PROVE  listErr = "none" /\ ~breaker.failed /\ ~walk.skipped /\ ~walk.unlisted
<1>1. WorseOf(downloadErr, listErr) = "none"
  BY DEF OutcomeOf
<1> QED BY <1>1 DEF OutcomeOf, WorseOf

LEMMA NextKeepsFollowed ==
    ASSUME RunTypes, QueueInv, FollowedInv, OkMeansWalked, [RunNext]_vars
    PROVE  FollowedInv' /\ OkMeansWalked'
<1>1. CASE Walker
  <2>1. phase' # "finished"
    BY <1>1, WalkerAtWork, WalkerFrame
  <2> QED BY <1>1, <2>1, WalkerKeepsFollowed DEF OkMeansWalked
<1>2. CASE StartRun \/ Crash \/ Begin
  <2>1. walk'.pc \in {"off", "refresh"} /\ phase' # "finished"
    BY <1>2, IdleRecords DEF StartRun, Crash, Begin, WalkRecord
  <2> QED BY <2>1 DEF FollowedInv, Untroubled, OkMeansWalked
<1>3. CASE Finish
  <2>1. UNCHANGED <<walk, breaker>> /\ walk.pc = "over" /\ outcome' = OutcomeOf(WorseOf(DownloadErr, walk.err))
    BY <1>3 DEF Finish
  <2>2. outcome' = "ok" => walk.followed \subseteq walk.walked /\ ~breaker.failed
    BY <2>1, OkOutcome DEF FollowedInv, Untroubled, Ahead, InAnAlbum
  <2> QED BY <2>1, <2>2 DEF FollowedInv, Untroubled, Ahead, OkMeansWalked
<1>4. ASSUME UNCHANGED walk, phase' # "finished" \/ UNCHANGED <<phase, outcome, breaker>>
      PROVE  FollowedInv' /\ OkMeansWalked'
  BY <1>4 DEF FollowedInv, Untroubled, Ahead, OkMeansWalked
<1>5. CASE DownloadReturns \/ Stop \/ GoogleChanges \/ PageVisit \/ AllRunsMade \/ UNCHANGED vars
  BY <1>4, <1>5 DEF DownloadReturns, Stop, GoogleChanges, PageVisit, AllRunsMade, vars, runVars
<1>8. CASE Feeder
  BY <1>4, <1>8, FeederFrame
<1>6. ASSUME NEW k \in Keys, ReclaimVanishedFile(k) PROVE FollowedInv' /\ OkMeansWalked'
  BY <1>4, <1>6 DEF ReclaimVanishedFile, runVars
<1>7. ASSUME NEW w \in Workers, Worker(w) PROVE FollowedInv' /\ OkMeansWalked'
  <2>1. work[w].pc # "idle" /\ UNCHANGED <<phase, walk>>
    BY <1>7, WorkerFrame
  <2> QED BY <1>4, <2>1, AtWork
<1> QED BY <1>1, <1>2, <1>3, <1>5, <1>6, <1>7, <1>8 DEF RunNext

-----------------------------------------------------------------------------
(* What is written off was seen to be gone. *)

(* A step that learns nothing new of the album in hand. *)
LEMMA ObservedKept ==
    ASSUME ObservedInv, walk.pc \notin {"off", "refresh", "over"}, UNCHANGED google, hist'.absent = hist.absent,
           walk'.listed = walk.listed, walk'.full = walk.full,
           walk'.pc \in InAnAlbum => /\ walk.pc \in InAnAlbum /\ walk'.album = walk.album
                                     /\ walk.seen \union walk.ahead \subseteq walk'.seen \union walk'.ahead,
           walk'.pc \in {"flag", "reconcile"} => walk.pc \in {"flag", "reconcile"} /\ walk'.seen = walk.seen
    PROVE  ObservedInv'
<1>1. \A a \in Albums : \A k \in Keys \ google'[a] : Absent(a, k)'
  BY DEF ObservedInv, Absent
<1>2. \A a \in walk'.listed \ walk'.full : \A k \in Keys : Absent(a, k)'
  BY DEF ObservedInv, Absent
<1>3. walk'.pc \in InAnAlbum => /\ walk'.album # Library => walk'.album \in walk'.listed
                                /\ \A k \in Keys \ (walk'.seen \union walk'.ahead) : Absent(walk.album, k)'
  BY DEF ObservedInv, Absent
<1>4. walk'.pc \in {"flag", "reconcile"} => \A k \in Keys \ walk'.seen : Absent(walk.album, k)'
  BY DEF ObservedInv, Absent, InAnAlbum
<1> QED BY <1>1, <1>2, <1>3, <1>4 DEF ObservedInv, InAnAlbum

LEMMA OutOfSight ==
    ASSUME walk'.pc \in {"off", "refresh", "over"}
    PROVE  ObservedInv' /\ AlbumInHand'
BY DEF ObservedInv, AlbumInHand, InAnAlbum

(* The last page ends a walk that has seen all there is. *)
LEMMA LastPageObserves ==
    ASSUME RunTypes, ObservedInv, LastPage
    PROVE  ObservedInv'
<1>1. CASE WalkEnds("drift")
  <2>1. walk'.pc = "over"
    BY <1>1 DEF WalkEnds, RunTypes, WalkRecord
  <2> QED BY <2>1, OutOfSight
<1>2. CASE /\ walk.seen # {} \/ walk.album \notin walk.full
           /\ walk' = [walk EXCEPT !.pc = IF walk.seen = {} /\ walk.album = Library THEN "mark" ELSE "flag"]
  <2>1. /\ walk.pc = "page" /\ walk.pc \in InAnAlbum /\ UNCHANGED <<google, hist>>
        /\ walk.ahead \intersect google[walk.album] = {} \/ walk.seen = {}
    BY DEF LastPage, Walking, InAnAlbum
  <2>2. /\ walk'.pc = IF walk.seen = {} /\ walk.album = Library THEN "mark" ELSE "flag"
        /\ walk'.listed = walk.listed /\ walk'.full = walk.full /\ walk'.album = walk.album
        /\ walk'.seen = walk.seen /\ walk'.ahead = walk.ahead
    BY <1>2 DEF RunTypes, WalkRecord
  <2>3. walk.album \in Albums
    BY DEF RunTypes, WalkRecord
  <2>4. walk'.pc = "flag" => \A k \in Keys \ walk.seen : Absent(walk.album, k)
    <3>1. CASE walk.ahead \intersect google[walk.album] = {}
      BY <2>1, <2>3, <3>1 DEF ObservedInv
    <3>2. CASE walk.seen = {} /\ walk.album # Library
      BY <1>2, <2>1, <3>2 DEF ObservedInv
    <3> QED BY <2>1, <2>2, <3>1, <3>2
  <2>5. walk'.pc \in {"mark", "flag"} /\ "mark" \in InAnAlbum /\ "flag" \in InAnAlbum
    BY <2>2 DEF InAnAlbum
  <2>6. CASE walk'.pc = "mark"
    BY <2>1, <2>2, <2>6, ObservedKept
  <2>7. CASE walk'.pc = "flag"
    <3>1. ObservedInv => /\ \A a \in Albums : \A k \in Keys \ google[a] : Absent(a, k)
                         /\ \A a \in walk.listed \ walk.full : \A k \in Keys : Absent(a, k)
                         /\ walk.album # Library => walk.album \in walk.listed
                         /\ \A k \in Keys \ (walk.seen \union walk.ahead) : Absent(walk.album, k)
      BY <2>1 DEF ObservedInv
    <3> QED BY <2>1, <2>2, <2>4, <2>7, <3>1 DEF ObservedInv, Absent
  <2> QED BY <2>5, <2>6, <2>7
<1> QED BY <1>1, <1>2 DEF LastPage

LEMMA BeginAlbumObserves ==
    ASSUME RunTypes, ObservedInv, NEW a \in Albums, BeginAlbum(a)
    PROVE  ObservedInv' /\ AlbumInHand'
<1> DEFINE members == AlbumMembers(a)
           matters == a # Library /\ mode[a] = "picked" /\ a \in synced
<1>1. walk' = [walk EXCEPT !.pc = "page", !.todo = @ \ {a}, !.album = a, !.members = members,
                           !.matters = matters, !.ahead = google[a], !.seen = {}, !.arrived = {}]
      /\ walk.pc = "choose" /\ (a # Library => a \in walk.listed) /\ UNCHANGED <<google, hist, links>>
  BY DEF BeginAlbum, Walking, storeVars
<1> HIDE DEF members, matters
<1>2. walk'.pc = "page" /\ walk'.album = a /\ walk'.listed = walk.listed /\ walk'.full = walk.full
      /\ walk'.seen = {} /\ walk'.ahead = google[a] /\ walk'.members = members /\ walk'.arrived = {}
  BY <1>1 DEF RunTypes, WalkRecord
<1>3. /\ \A b \in Albums : \A k \in Keys \ google[b] : Absent(b, k)
      /\ \A b \in walk.listed \ walk.full : \A k \in Keys : Absent(b, k)
  BY <1>1 DEF ObservedInv
<1>4. ObservedInv'
  BY <1>1, <1>2, <1>3 DEF ObservedInv, Absent
<1>5. AlbumInHand'
  BY <1>1, <1>2 DEF AlbumInHand, AlbumMembers, members
<1> QED BY <1>4, <1>5

LEMMA RefreshObserves ==
    ASSUME RunTypes, RefreshAlbums
    PROVE  ObservedInv'
<1> DEFINE absent == {l \in Albums \X Keys : l[2] \notin google[l[1]]}
<1>1. hist' = [hist EXCEPT !.absent = absent] /\ UNCHANGED google
  BY DEF RefreshAlbums
<1>2. \A a \in Albums : \A k \in Keys \ google[a] : <<a, k>> \in absent
  OBVIOUS
<1> HIDE DEF absent
<1>3. hist'.absent = absent
  BY <1>1 DEF RunTypes, History
<1>4. walk'.pc = "choose" /\ walk' \in WalkRecord /\ \A a \in walk'.listed \ walk'.full : google[a] = {}
  BY RefreshFields
<1>5. walk'.listed \subseteq Albums
  BY <1>4 DEF WalkRecord
<1> QED BY <1>1, <1>2, <1>3, <1>4, <1>5 DEF ObservedInv, Absent, InAnAlbum

LEMMA WalkerObserves ==
    ASSUME RunTypes, ObservedInv, Walker
    PROVE  ObservedInv'
<1>1. UNCHANGED google
  BY WalkerFrame
<1>2. CASE ListingEnds
  <2>1. walk'.pc = "over"
    BY <1>2 DEF ListingEnds, WalkEnds, RunTypes, WalkRecord
  <2> QED BY <2>1, OutOfSight
<1>3. CASE LinkItem \/ FlagArrivals \/ ReconcileAlbum
  <2>1. /\ UNCHANGED hist
        /\ \/ walk.pc = "link" /\ walk' = [walk EXCEPT !.pc = "page", !.item = "none"]
           \/ walk.pc = "flag" /\ walk' = [walk EXCEPT !.pc = "reconcile"]
           \/ walk.pc = "reconcile" /\ walk' = [walk EXCEPT !.pc = "mark"]
    BY <1>3 DEF LinkItem, FlagArrivals, ReconcileAlbum, Walking
  <2>2. walk \in WalkRecord
    BY DEF RunTypes
  <2>3. walk'.listed = walk.listed /\ walk'.full = walk.full /\ walk'.album = walk.album
        /\ walk'.seen = walk.seen /\ walk'.ahead = walk.ahead
    <3>1. CASE walk' = [walk EXCEPT !.pc = "page", !.item = "none"]
      BY <2>2, <3>1 DEF WalkRecord
    <3>2. CASE walk' = [walk EXCEPT !.pc = "reconcile"] \/ walk' = [walk EXCEPT !.pc = "mark"]
      BY <2>2, <3>2 DEF WalkRecord
    <3> QED BY <2>1, <3>1, <3>2
  <2>4. <<walk.pc, walk'.pc>> \in {<<"link", "page">>, <<"flag", "reconcile">>, <<"reconcile", "mark">>}
    BY <2>1, <2>2 DEF WalkRecord
  <2> QED BY <1>1, <2>1, <2>3, <2>4, ObservedKept DEF InAnAlbum
<1>4. CASE MarkSynced
  <2>1. walk.pc = "mark" /\ walk' = [walk EXCEPT !.pc = "choose", !.walked = @ \union {walk.album}]
        /\ hist' = [hist EXCEPT !.known[walk.album] = AlbumMembers(walk.album)]
    BY <1>4 DEF MarkSynced, Walking
  <2>2. walk'.pc = "choose" /\ walk'.listed = walk.listed /\ walk'.full = walk.full
    BY <2>1 DEF RunTypes, WalkRecord
  <2>3. hist'.absent = hist.absent
    BY <2>1 DEF RunTypes, History
  <2> QED BY <1>1, <2>1, <2>2, <2>3, ObservedKept DEF InAnAlbum
<1>5. ASSUME NEW a \in Albums, SkipUnlisted(a) PROVE ObservedInv'
  <2>1. walk.pc = "choose" /\ walk' = [walk EXCEPT !.todo = @ \ {a}, !.unlisted = TRUE] /\ UNCHANGED hist
    BY <1>5 DEF SkipUnlisted, Walking
  <2>2. walk'.pc = "choose" /\ walk'.listed = walk.listed /\ walk'.full = walk.full
    BY <2>1 DEF RunTypes, WalkRecord
  <2> QED BY <1>1, <2>1, <2>2, ObservedKept DEF InAnAlbum
<1>6. ASSUME NEW k \in Keys, PageItem(k) PROVE ObservedInv'
  <2> DEFINE arrived == IF walk.matters /\ k \notin walk.members THEN walk.arrived \union {k} ELSE walk.arrived
  <2>1. walk' = [walk EXCEPT !.pc = "link", !.item = k, !.ahead = walk.ahead \ {k}, !.seen = walk.seen \union {k},
                             !.arrived = arrived]
        /\ walk.pc = "page" /\ UNCHANGED hist
    BY <1>6 DEF PageItem, Walking
  <2> HIDE DEF arrived
  <2>2. /\ walk'.pc = "link" /\ walk'.listed = walk.listed /\ walk'.full = walk.full /\ walk'.album = walk.album
        /\ walk'.seen = walk.seen \union {k} /\ walk'.ahead = walk.ahead \ {k}
    BY <2>1 DEF RunTypes, WalkRecord
  <2> QED BY <1>1, <2>1, <2>2, ObservedKept DEF InAnAlbum
<1>7. ASSUME NEW err, WalkFails(err) PROVE ObservedInv'
  <2>1. CASE WalkEnds(err)
    <3>1. walk'.pc = "over"
      BY <2>1 DEF WalkEnds, RunTypes, WalkRecord
    <3> QED BY <3>1, OutOfSight
  <2>2. CASE walk.pc = "page" /\ walk' = [walk EXCEPT !.pc = "choose", !.skipped = TRUE]
    <3>1. walk'.pc = "choose" /\ walk'.listed = walk.listed /\ walk'.full = walk.full
      BY <2>2 DEF RunTypes, WalkRecord
    <3>2. UNCHANGED hist
      BY <1>7 DEF WalkFails
    <3> QED BY <1>1, <2>2, <3>1, <3>2, ObservedKept DEF InAnAlbum
  <2> QED BY <1>7, <2>1, <2>2 DEF WalkFails
<1> QED BY <1>2, <1>3, <1>4, <1>5, <1>6, <1>7, RefreshObserves, LastPageObserves, BeginAlbumObserves, Zenon DEF Walker

(* Google changes under the walk, and what goes is remembered. *)
LEMMA GoogleObserves ==
    ASSUME RunTypes, ObservedInv, GoogleChanges
    PROVE  ObservedInv'
<1>1. UNCHANGED walk
  BY DEF GoogleChanges
<1>2. /\ hist.absent \subseteq hist'.absent
      /\ \A a \in Albums : \A k \in Keys \ google'[a] : k \in google[a] => <<a, k>> \in hist'.absent
  <2>1. ASSUME NEW a \in Albums, NEW k \in Keys,
               google' = [google EXCEPT ![a] = IF k \in @ THEN @ \ {k} ELSE @ \union {k}],
               hist' = [hist EXCEPT !.absent = IF k \in google[a] THEN @ \union {<<a, k>>} ELSE @]
        PROVE  /\ hist.absent \subseteq hist'.absent
               /\ \A b \in Albums : \A j \in Keys \ google'[b] : j \in google[b] => <<b, j>> \in hist'.absent
    <3>1. hist'.absent = IF k \in google[a] THEN hist.absent \union {<<a, k>>} ELSE hist.absent
      BY <2>1 DEF RunTypes, History
    <3>2. google'[a] = (IF k \in google[a] THEN google[a] \ {k} ELSE google[a] \union {k})
          /\ \A b \in Albums \ {a} : google'[b] = google[b]
      BY <2>1 DEF RunTypes
    <3> QED BY <3>1, <3>2
  <2>2. CASE UNCHANGED <<google, hist>>
    BY <2>2
  <2> QED BY <2>1, <2>2 DEF GoogleChanges
<1>3. CASE walk.pc \notin {"off", "refresh", "over"}
  <2>1. \A a \in Albums : \A k \in Keys \ google'[a] : Absent(a, k)'
    BY <1>2, <1>3 DEF ObservedInv, Absent
  <2>2. \A a, k : Absent(a, k) => Absent(a, k)'
    BY <1>2 DEF Absent
  <2> QED BY <1>1, <1>3, <2>1, <2>2 DEF ObservedInv
<1>4. CASE walk.pc \in {"off", "refresh", "over"}
  BY <1>1, <1>4, OutOfSight
<1> QED BY <1>3, <1>4

-----------------------------------------------------------------------------
(* The album in hand. *)

RowsKept ==
    /\ links \subseteq links'
    /\ \A k \in Keys : (HasRow(k) => HasRow(k)') /\ (~WrittenOff(k) => ~WrittenOff(k)')

LEMMA StoodRowsAreKept ==
    ASSUME (RowsStand /\ UNCHANGED links) \/ UNCHANGED storeVars
    PROVE  RowsKept
BY DEF RowsStand, RowsKept, storeVars, HasRow, WrittenOff

LEMMA WorkerKeepsRows ==
    ASSUME StoreInv, RunTypes, QueueInv, NEW w \in Workers, Worker(w)
    PROVE  RowsKept
<1> DEFINE k == work[w].key
<1>1. k \in Keys
  <2>1. work[w].pc # "idle"
    BY WorkerFrame
  <2> QED BY <2>1, AtWork
<1>2. CASE UNCHANGED storeVars
  BY <1>2, StoodRowsAreKept
<1>3. CASE SetItemState(k, "downloading")
  BY <1>1, <1>3, SetStateLeaves, StoodRowsAreKept
<1>4. CASE MarkDownloaded(k) \/ MarkFailed(k)
  BY <1>1, <1>4, FetchEndLeaves DEF RowsKept, HasRow, WrittenOff
<1> QED BY <1>2, <1>3, <1>4, WorkerFrame

(* Only a walk's reconciliation writes off or unlinks. *)
LEMMA OthersKeepRows ==
    ASSUME StoreInv, RunTypes, QueueInv, [RunNext]_vars, ~Walker
    PROVE  RowsKept
<1>1. ASSUME NEW k \in Keys, ReclaimVanishedFile(k) PROVE RowsKept
  BY <1>1, SetStateLeaves, StoodRowsAreKept DEF ReclaimVanishedFile
<1>2. CASE PageVisit
  BY <1>2, PagesLeaveRows, StoodRowsAreKept
<1>3. CASE Feeder \/ RunSteps \/ GoogleChanges \/ AllRunsMade \/ UNCHANGED vars
  <2>1. ASSUME Feeder \/ RunSteps PROVE UNCHANGED storeVars
    BY <2>1, FeederFrame, RunStepsFrame
  <2>2. ASSUME GoogleChanges \/ AllRunsMade \/ UNCHANGED vars PROVE UNCHANGED storeVars
    BY <2>2 DEF GoogleChanges, AllRunsMade, vars
  <2>3. UNCHANGED storeVars
    BY <1>3, <2>1, <2>2
  <2> QED BY <2>3, StoodRowsAreKept, Zenon
<1> QED BY <1>1, <1>2, <1>3, WorkerKeepsRows DEF RunNext, RunSteps

LEMMA AlbumKept ==
    ASSUME RunTypes, AlbumInHand, RowsKept, UNCHANGED walk
    PROVE  AlbumInHand'
<1>1. CASE walk.pc \in InAnAlbum
  <2>1. walk.pc # "mark" => walk.members \subseteq AlbumMembers(walk.album)'
    BY <1>1 DEF AlbumInHand, RowsKept, AlbumMembers
  <2>2. \A k \in walk.arrived : HasRow(k)'
    <3>1. walk.arrived \subseteq Keys
      BY DEF RunTypes, WalkRecord
    <3> QED BY <1>1, <3>1 DEF AlbumInHand, RowsKept
  <2>3. walk.pc = "link" => walk.item \in Keys /\ Live(walk.item)'
    BY <1>1 DEF AlbumInHand, RowsKept, Live
  <2> QED BY <2>1, <2>2, <2>3 DEF AlbumInHand
<1>2. CASE walk.pc \notin InAnAlbum
  BY <1>2 DEF AlbumInHand, InAnAlbum
<1> QED BY <1>1, <1>2

LEMMA WalkerKeepsTheAlbum ==
    ASSUME StoreInv, RunTypes, ObservedInv, AlbumInHand, Walker
    PROVE  AlbumInHand'
<1>1. CASE RefreshAlbums \/ ListingEnds \/ MarkSynced
  <2>1. walk'.pc \notin InAnAlbum
    <3>1. CASE RefreshAlbums
      BY <3>1, RefreshFields DEF InAnAlbum
    <3>2. CASE ListingEnds
      BY <3>2 DEF ListingEnds, WalkEnds, RunTypes, WalkRecord, InAnAlbum
    <3>3. CASE MarkSynced
      BY <3>3 DEF MarkSynced, RunTypes, WalkRecord, InAnAlbum
    <3> QED BY <1>1, <3>1, <3>2, <3>3
  <2> QED BY <2>1 DEF AlbumInHand, InAnAlbum
<1>2. ASSUME NEW a \in Albums, SkipUnlisted(a) PROVE AlbumInHand'
  <2>1. walk'.pc = "choose"
    BY <1>2 DEF SkipUnlisted, Walking, RunTypes, WalkRecord
  <2> QED BY <2>1 DEF AlbumInHand, InAnAlbum
<1>3. ASSUME NEW err, WalkFails(err) PROVE AlbumInHand'
  <2>1. walk'.pc \in {"choose", "over"}
    BY <1>3 DEF WalkFails, WalkEnds, RunTypes, WalkRecord
  <2> QED BY <2>1 DEF AlbumInHand, InAnAlbum
<1>4. ASSUME NEW k \in Keys, PageItem(k) PROVE AlbumInHand'
  <2> DEFINE arrived == IF walk.matters /\ k \notin walk.members THEN walk.arrived \union {k} ELSE walk.arrived
  <2>1. walk' = [walk EXCEPT !.pc = "link", !.item = k, !.ahead = walk.ahead \ {k}, !.seen = walk.seen \union {k},
                             !.arrived = arrived]
        /\ walk.pc = "page" /\ UpsertItem(k)
    BY <1>4 DEF PageItem, Walking
  <2>2. arrived \subseteq walk.arrived \union {k}
    OBVIOUS
  <2> HIDE DEF arrived
  <2>3. walk'.pc = "link" /\ walk'.item = k /\ walk'.album = walk.album /\ walk'.members = walk.members
        /\ walk'.arrived = arrived
    BY <2>1 DEF RunTypes, WalkRecord
  <2>4. RowsStand /\ UNCHANGED links /\ Live(k)'
    BY <2>1, UpsertLeaves
  <2>5. walk.members \subseteq AlbumMembers(walk.album) /\ \A j \in walk.arrived : HasRow(j)
    BY <2>1 DEF AlbumInHand, InAnAlbum
  <2>6. walk.arrived \subseteq Keys
    BY DEF RunTypes, WalkRecord
  <2>7. \A j \in walk'.arrived : HasRow(j)'
    BY <2>2, <2>3, <2>4, <2>5, <2>6 DEF RowsStand, Live
  <2>8. walk'.members \subseteq AlbumMembers(walk.album)'
    BY <2>3, <2>4, <2>5 DEF AlbumMembers
  <2> QED BY <2>3, <2>4, <2>7, <2>8 DEF AlbumInHand
<1>5. CASE LinkItem
  <2>1. /\ walk.pc = "link" /\ walk' = [walk EXCEPT !.pc = "page", !.item = "none"]
        /\ links \subseteq links' /\ UNCHANGED items
    BY <1>5 DEF LinkItem, Walking, LinkItemToAlbum
  <2>2. walk'.pc = "page" /\ walk'.album = walk.album /\ walk'.members = walk.members /\ walk'.arrived = walk.arrived
    BY <2>1 DEF RunTypes, WalkRecord
  <2>3. walk.members \subseteq AlbumMembers(walk.album) /\ \A j \in walk.arrived : HasRow(j)
    BY <2>1 DEF AlbumInHand, InAnAlbum
  <2> QED BY <2>1, <2>2, <2>3 DEF AlbumInHand, AlbumMembers, HasRow
<1>6. CASE LastPage
  <2>1. walk.pc = "page" /\ UNCHANGED <<items, links>>
    BY <1>6 DEF LastPage, Walking, storeVars
  <2>2. walk'.pc \in {"over", "mark", "flag"} /\ walk'.album = walk.album /\ walk'.members = walk.members
        /\ walk'.arrived = walk.arrived
    BY <1>6 DEF LastPage, WalkEnds, RunTypes, WalkRecord
  <2>3. walk.members \subseteq AlbumMembers(walk.album) /\ \A j \in walk.arrived : HasRow(j)
    BY <2>1 DEF AlbumInHand, InAnAlbum
  <2> QED BY <2>1, <2>2, <2>3 DEF AlbumInHand, AlbumMembers, HasRow
<1>7. CASE FlagArrivals \/ ReconcileAlbum
  <2>1. /\ walk.pc \in InAnAlbum
        /\ \/ walk.pc = "flag" /\ walk' = [walk EXCEPT !.pc = "reconcile"] /\ FlagForReview(walk.arrived)
           \/ walk' = [walk EXCEPT !.pc = "mark"] /\ Reconcile(walk.album, Departures)
    BY <1>7 DEF FlagArrivals, ReconcileAlbum, Walking, InAnAlbum
  <2>2. walk'.album = walk.album /\ walk'.members = walk.members /\ walk'.arrived = walk.arrived
    BY <2>1 DEF RunTypes, WalkRecord
  <2>3. walk.arrived \in SUBSET Keys /\ walk.album \in Albums /\ Departures \in SUBSET Keys
    BY DEF RunTypes, WalkRecord, Departures
  <2>4. \A j \in walk.arrived : HasRow(j)'
    <3>1. \A k \in Keys : HasRow(k) => HasRow(k)'
      BY <2>1, <2>3, FlagLeaves, ReconcileLeaves DEF RowsStand
    <3> QED BY <2>1, <2>3, <3>1 DEF AlbumInHand
  <2>5. walk'.pc = "mark" \/ (walk'.pc = "reconcile" /\ walk.pc = "flag" /\ UNCHANGED links)
    BY <2>1, <2>3, FlagLeaves DEF RunTypes, WalkRecord
  <2> QED BY <2>1, <2>2, <2>4, <2>5 DEF AlbumInHand, AlbumMembers
<1> QED BY <1>1, <1>2, <1>3, <1>4, <1>5, <1>6, <1>7, BeginAlbumObserves, Zenon DEF Walker

LEMMA NextKeepsTheAlbum ==
    ASSUME StoreInv, RunTypes, QueueInv, ObservedInv, AlbumInHand, [RunNext]_vars
    PROVE  ObservedInv' /\ AlbumInHand'
<1>1. CASE Walker
  BY <1>1, WalkerObserves, WalkerKeepsTheAlbum
<1>2. CASE ~Walker
  <2>1. RowsKept
    BY <1>2, OthersKeepRows
  <2>2. CASE RunSteps
    <3>1. UNCHANGED <<walk, google, hist>> \/ walk'.pc \in {"off", "refresh"}
      BY <2>2, IdleRecords DEF RunSteps, StartRun, Begin, DownloadReturns, Finish, Stop, Crash, WalkRecord
    <3>2. CASE UNCHANGED <<walk, google, hist>>
      BY <2>1, <3>2, AlbumKept DEF ObservedInv, Absent
    <3> QED BY <3>1, <3>2, OutOfSight
  <2>3. CASE GoogleChanges
    <3>1. UNCHANGED walk
      BY <2>3 DEF GoogleChanges
    <3> QED BY <2>1, <2>3, <3>1, AlbumKept, GoogleObserves
  <2>4. ASSUME UNCHANGED <<walk, google>>, hist'.absent = hist.absent PROVE ObservedInv' /\ AlbumInHand'
    BY <2>1, <2>4, AlbumKept DEF ObservedInv, Absent
  <2>5. ASSUME Feeder \/ PageVisit PROVE UNCHANGED <<walk, google>> /\ hist'.absent = hist.absent
    <3>1. CASE PageVisit
      <4>1. UNCHANGED <<walk, google>> /\ hist' = [hist EXCEPT !.touched = @ \union (Pending' \ Pending)]
        BY <3>1 DEF PageVisit
      <4> QED BY <4>1 DEF RunTypes, History
    <3>2. CASE Feeder
      <4>1. ASSUME NEW w \in Workers, NEW k \in Keys, Offer(w, k) PROVE UNCHANGED hist
        BY <4>1 DEF Offer
      <4>2. CASE NoRoom \/ WaitBeforeAskingAgain \/ SampleListing
        BY <4>2, FeederFrame DEF NoRoom, WaitBeforeAskingAgain, SampleListing
      <4>3. CASE AskAgain
        BY <4>3, FeederFrame DEF AskAgain, RunTypes, History
      <4>4. CASE BatchOver
        <5> DEFINE drained == ~(AtTheLimit \/ DownloadCancelled) /\ feed.fresh = 0 /\ feed.listingOver
        <5>1. hist' = [hist EXCEPT !.drained = drained]
          BY <4>4 DEF BatchOver
        <5> HIDE DEF drained
        <5> QED BY <3>2, <5>1, FeederFrame DEF RunTypes, History
      <4> QED BY <3>2, <4>1, <4>2, <4>3, <4>4, FeederFrame DEF Feeder
    <3> QED BY <2>5, <3>1, <3>2
  <2>6. ASSUME NEW w \in Workers, Worker(w) PROVE UNCHANGED <<walk, google, hist>>
    BY <2>6, WorkerFrame
  <2>7. ASSUME (\E k \in Keys : ReclaimVanishedFile(k)) \/ AllRunsMade \/ UNCHANGED vars
        PROVE  UNCHANGED <<walk, google, hist>>
    BY <2>7 DEF ReclaimVanishedFile, AllRunsMade, vars, runVars
  <2> QED BY <1>2, <2>2, <2>3, <2>4, <2>5, <2>6, <2>7 DEF RunNext, RunSteps
<1> QED BY <1>1, <1>2

-----------------------------------------------------------------------------
(* The invariant. *)

LEMMA InitRunInv == RunInit => RunInv /\ StoreInit
<1> SUFFICES ASSUME RunInit PROVE RunInv /\ StoreInit
  OBVIOUS
<1>1. StoreInv /\ StoreInit
  BY InitInv DEF RunInit
<1>2. /\ phase = "idle" /\ walk = IdleWalk /\ feed = IdleFeed /\ breaker = IdleBreaker
      /\ \A w \in Workers : work[w] = IdleWorker
      /\ ~hist.drained
  BY DEF RunInit
<1>3. RunTypes
  BY IdleRecords DEF RunInit, RunTypes, History
<1>4. QueueInv /\ CancelledStaysCancelled /\ MayStillFail
  BY <1>2, IdleRecords DEF QueueInv, WorkersIdle, OneWorkerPerItem, CancelledStaysCancelled, MayStillFail, ToOffer,
                           InHand
<1>5. DrainInv
  BY <1>2, IdleRecords DEF DrainInv
<1>6. FollowedInv /\ OkMeansWalked /\ ObservedInv /\ AlbumInHand
  BY <1>2, IdleRecords DEF FollowedInv, Untroubled, OkMeansWalked, ObservedInv, AlbumInHand, InAnAlbum
<1> QED BY <1>1, <1>3, <1>4, <1>5, <1>6 DEF RunInv

LEMMA NextRunInv == RunInv /\ [RunNext]_vars => RunInv'
<1> SUFFICES ASSUME RunInv, [RunNext]_vars PROVE RunInv'
  OBVIOUS
<1>1. StoreInv'
  <2>1. StoreInv
    BY DEF RunInv
  <2> QED BY <2>1, StepOfTheStore, NextInv
<1>2. RunTypes' /\ QueueParts'
  BY NextTypes, NextKeepsTheQueue DEF RunInv, QueueParts
<1>3. DrainInv' /\ FollowedInv' /\ OkMeansWalked'
  BY NextKeepsTheDrain, NextKeepsFollowed DEF RunInv
<1>4. ObservedInv' /\ AlbumInHand'
  BY NextKeepsTheAlbum DEF RunInv
<1> QED BY <1>1, <1>2, <1>3, <1>4 DEF RunInv, QueueParts

-----------------------------------------------------------------------------
(* Theorems. *)

(* Whatever the goroutines of a run do between one another's steps, the store
   sees statements it takes, with arguments it expects: what is proved of it
   by itself holds under every run. *)
THEOREM RunImplementsTheStore == RunSpec => StoreSpec
<1>1. RunInit => RunInv /\ StoreInit
  BY InitRunInv
<1>2. RunInv /\ [RunNext]_vars => RunInv'
  BY NextRunInv
<1>3. RunInv /\ [RunNext]_vars => [StoreNext]_storeVars
  BY StepOfTheStore
<1> QED BY <1>1, <1>2, <1>3, PTL DEF RunSpec, StoreSpec

(* So the rows agree at every moment of a run, whichever of its goroutines, the
   pages and the kills come in between (internal/store under Run). *)
THEOREM RunRowsAgree == RunSpec => []RowsAgree
BY RunImplementsTheStore, RowsAlwaysAgree, PTL

(* And no run writes a photograph off without a question or another file of
   it, though the albums are walked one after another (Reconcile under Run). *)
THEOREM RunLosesNothingInSilence == RunSpec => []NeverLostInSilence
BY RunImplementsTheStore, NothingIsLostInSilence, PTL

(* Nor does a run let go of the record of a downloaded file, whatever it links,
   fetches, fails or writes off (UpsertItem and Reconcile under Run). *)
THEOREM RunKeepsFileRecords == RunSpec => FileRecordsSurvive
BY RunImplementsTheStore, FileRecordsAreKept, PTL

(* No item is in two workers' hands (feed, offer and downloadOne). *)
THEOREM QueueSafety == RunSpec => []OneWorkerPerItem
<1>1. RunInv => OneWorkerPerItem
  BY DEF RunInv, QueueInv
<1>2. RunInit => RunInv
  BY InitRunInv
<1> QED BY <1>1, <1>2, NextRunInv, PTL DEF RunSpec

(* A queue that is closed as drained owes nothing but what the pages added
   since it was last asked (feed's sampling of the listing's end). *)
THEOREM DrainSafety == RunSpec => []NothingLeftBehind
<1>1. RunInv => NothingLeftBehind
  BY DEF RunInv, DrainInv, Covered, NothingLeftBehind
<1>2. RunInit => RunInv
  BY InitRunInv
<1> QED BY <1>1, <1>2, NextRunInv, PTL DEF RunSpec

(* A run that says ok walked every album it followed, and no item of it
   failed (walkAlbums' verdict, worseOf and Run's outcome). *)
THEOREM OkSafety == RunSpec => []OkMeansWalked
<1>1. RunInv => OkMeansWalked
  BY DEF RunInv
<1>2. RunInit => RunInv
  BY InitRunInv
<1> QED BY <1>1, <1>2, NextRunInv, PTL DEF RunSpec

(* A failure that raises fail_count was recorded by the item's own worker, and
   was no cancellation. *)
LEMMA WorkerCharges ==
    ASSUME RunInv, NEW w \in Workers, Worker(w), NEW k \in Keys,
           items'[k].fails \notin {0, items[k].fails}
    PROVE  work[w].key = k /\ work[w].pc = "failed" /\ work[w].cause # "canceled"
<1>1. work[w].key \in Keys /\ items \in [Keys -> Row]
  <2>1. work[w].pc # "idle"
    BY WorkerFrame
  <2> QED BY <2>1, AtWork DEF RunInv, StoreInv, StoreTypeOK
<1>2. ~UNCHANGED storeVars
  BY DEF storeVars
<1>3. ~SetItemState(work[w].key, "downloading")
  BY <1>1, SetStateLeaves DEF RunInv, RowsStand
<1>4. ~MarkDownloaded(work[w].key)
  <2> DEFINE state == UnlessWrittenOff(items[work[w].key], "done")
  <2>1. MarkDownloaded(work[w].key) =>
          items' = [items EXCEPT ![work[w].key] = [items[work[w].key] EXCEPT !.state = state, !.held = TRUE, !.fails = 0]]
    BY DEF MarkDownloaded
  <2> HIDE DEF state
  <2> QED BY <1>1, <2>1 DEF Row
<1>5. RecordFailure(w) /\ IsCharged(w) /\ MarkFailed(work[w].key)
  BY <1>2, <1>3, <1>4 DEF Worker, TakeItem, FetchSucceeds, BookkeepingFails, FetchFails, RecordFailure
<1>6. work[w].key = k
  BY <1>1, <1>5, FetchEndLeaves DEF RunInv
<1> QED BY <1>5, <1>6 DEF RecordFailure, IsCharged, RunInv, CancelledStaysCancelled

LEMMA OthersDoNotCharge ==
    ASSUME RunInv, [RunNext]_vars, \A w \in Workers : ~Worker(w), NEW k \in Keys
    PROVE  items'[k].fails \in {0, items[k].fails}
<1>1. CASE Walker
  <2>1. CASE ReconcileAlbum
    <3>1. Departures \in SUBSET Keys /\ walk.album \in Albums
      BY DEF RunInv, RunTypes, WalkRecord, Departures
    <3> QED BY <2>1, <3>1, ReconcileLeaves DEF ReconcileAlbum, RunInv
  <2>2. CASE ~ReconcileAlbum
    BY <1>1, <2>2, WalkerStands DEF RunInv, RowsStand
  <2> QED BY <2>1, <2>2
<1>2. CASE PageVisit
  BY <1>2, PagesLeaveRows DEF RunInv, RowsStand
<1>3. ASSUME NEW j \in Keys, ReclaimVanishedFile(j) PROVE items'[k].fails \in {0, items[k].fails}
  <2>1. SetItemState(j, "discovered") /\ StoreInv
    BY <1>3 DEF ReclaimVanishedFile, RunInv
  <2>2. RowsStand
    BY <2>1, SetStateLeaves
  <2> QED BY <2>2 DEF RowsStand
<1>4. CASE Feeder \/ RunSteps
  BY <1>4, FeederFrame, RunStepsFrame DEF storeVars
<1>5. CASE GoogleChanges \/ AllRunsMade \/ UNCHANGED vars
  BY <1>5 DEF GoogleChanges, AllRunsMade, vars, storeVars
<1> QED BY <1>1, <1>2, <1>3, <1>4, <1>5 DEF RunNext, RunSteps

(* fail_count rises only by an item's own failure, never by the run's context
   being cancelled under it (recordFailure). *)
THEOREM ChargeSafety == RunSpec => OnlyOwnFailuresAreCharged
<1> DEFINE Own == \A k \in Keys : items'[k].fails > items[k].fails =>
                     \E w \in Workers : work[w].key = k /\ work[w].pc = "failed" /\ work[w].cause # "canceled"
<1>1. RunInv /\ [RunNext]_vars => Own
  <2> SUFFICES ASSUME RunInv, [RunNext]_vars, NEW k \in Keys, items'[k].fails > items[k].fails
               PROVE  \E w \in Workers : work[w].key = k /\ work[w].pc = "failed" /\ work[w].cause # "canceled"
    OBVIOUS
  <2>1. items[k].fails \in Nat
    BY ConstantFunctions DEF RunInv, StoreInv, StoreTypeOK, Row
  <2>2. items'[k].fails \notin {0, items[k].fails}
    BY <2>1
  <2> QED BY <2>2, WorkerCharges, OthersDoNotCharge
<1>2. RunInv /\ [RunNext]_vars => [Own]_vars
  BY <1>1
<1>3. RunInit => RunInv
  BY InitRunInv
<1> HIDE DEF Own
<1>4. RunSpec => [][Own]_vars
  BY <1>2, <1>3, NextRunInv, PTL DEF RunSpec
<1> QED BY <1>4 DEF Own, OnlyOwnFailuresAreCharged

(* An item is written off only by a walk of an album that did not hold it at
   some moment since the albums were listed (listAlbum and Reconcile). *)
THEOREM WriteOffSafety == RunSpec => WriteOffWasObserved
<1> DEFINE Seen == \A k \in Keys : ~WrittenOff(k) /\ WrittenOff(k)' => <<walk.album, k>> \in hist.absent
<1>1. RunInv /\ [RunNext]_vars => Seen
  <2> SUFFICES ASSUME RunInv, [RunNext]_vars, NEW k \in Keys, ~WrittenOff(k), WrittenOff(k)'
               PROVE  <<walk.album, k>> \in hist.absent
    OBVIOUS
  <2>1. Walker
    BY OthersKeepRows DEF RunInv, RowsKept
  <2>2. ReconcileAlbum
    BY <2>1, WalkerStands DEF RunInv, RowsStand
  <2>3. walk.pc = "reconcile" /\ Reconcile(walk.album, Departures)
    BY <2>2 DEF ReconcileAlbum, Walking
  <2>4. Departures \in SUBSET Keys /\ walk.album \in Albums
    BY DEF RunInv, RunTypes, WalkRecord, Departures
  <2>5. k \in Departures
    BY <2>3, <2>4, ReconcileLeaves DEF RunInv, WrittenOff
  <2>6. k \notin walk.seen
    BY <2>5 DEF Departures
  <2> QED BY <2>3, <2>6 DEF RunInv, ObservedInv, Absent, InAnAlbum
<1>2. RunInv /\ [RunNext]_vars => [Seen]_vars
  BY <1>1
<1>3. RunInit => RunInv
  BY InitRunInv
<1> HIDE DEF Seen
<1>4. RunSpec => [][Seen]_vars
  BY <1>2, <1>3, NextRunInv, PTL DEF RunSpec
<1> QED BY <1>4 DEF Seen, WriteOffWasObserved
=============================================================================
