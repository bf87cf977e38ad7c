-------------------------- MODULE LibraryWalkProofs --------------------------
(***************************************************************************)
(* The nightly walk, for any timeline, any page size, any dates and any    *)
(* number of nights and changes: what it writes off was gone, what was     *)
(* gone it writes off, and what is new it finds.                           *)
(***************************************************************************)
EXTENDS LibraryWalk, FiniteSetTheorems, WellFoundedInduction, TLAPS

Steps == {"idle", "ask", "record", "reconcile", "mark"}
WalkRecord ==
    [pc : Steps, cursor : Nat, page : SUBSET Keys, todo : SUBSET Keys, final : BOOLEAN, seen : SUBSET Keys,
     held : SUBSET Keys, since : Nat, newOnly : BOOLEAN, heldFrom : Nat, all : BOOLEAN]
Instruction == [mode : {"none", "all"}, since : Nat, newOnly : BOOLEAN, weekly : BOOLEAN]
History == [absent : SUBSET Keys, present : SUBSET Keys, buried : SUBSET Keys, disturbed : BOOLEAN]

LibraryTypes ==
    /\ google \in SUBSET Keys /\ members \in SUBSET Keys /\ gone \in SUBSET Keys
    /\ library \in Instruction /\ full \in {"never", "recent", "old"}
    /\ walk \in WalkRecord /\ left \in [nights : Nat, changes : Nat] /\ hist \in History

Walking == walk.pc # "idle"
Ended == walk.pc \in {"reconcile", "mark"}

(* What a photo was at the start of the walk it still is, or it was seen to change. *)
WatchedInv ==
    Walking => hist.present = Keys \ hist.absent /\ hist.present \subseteq google

(* The walk's own record: what is to be recorded lies on the page, and the
   cursor at the page's end; a stop is not vouched for before it is made. *)
RecordInv ==
    /\ walk.pc # "record" => walk.todo = {}
    /\ walk.pc = "ask" => ~walk.final
    /\ walk.pc \in {"ask", "record"} => ~walk.all /\ walk.heldFrom = 0
    /\ walk.pc = "record" /\ walk.page # {} => walk.cursor = Place[LastOf(walk.page)]
    /\ walk.held \subseteq members /\ walk.seen \subseteq members
    /\ Walking /\ walk.cursor = Top => walk.seen = {} /\ walk.todo = {}

(* Of the photos there all the while, the walk has left none behind its
   cursor; at the timeline's end it has left none at all, unless it was
   answered with nothing. *)
SweepInv ==
    Walking => \A k \in hist.present :
        \/ k \in walk.todo \union walk.seen \/ OlderThan(k, walk.since)
        \/ /\ Place[k] < walk.cursor
           /\ walk.final => hist.disturbed /\ walk.seen \union walk.todo = {}

(* Where a walk may end. *)
StopInv ==
    Ended => \/ walk.all /\ walk.final /\ walk.heldFrom = 0
             \/ /\ ~walk.all /\ walk.heldFrom = 0 /\ walk.since # 0
                /\ walk.cursor < walk.since + Drift
             \/ ~walk.all /\ walk.heldFrom # 0 /\ walk.newOnly /\ walk.cursor <= walk.heldFrom + Drift

WrittenOffInv == walk.pc = "mark" /\ walk.seen # {} => Departures \subseteq gone

WalkInv == LibraryTypes /\ WatchedInv /\ RecordInv /\ SweepInv /\ StopInv /\ WrittenOffInv

-----------------------------------------------------------------------------
(* What new-only walks rest on.  Of the photos clear of the bound and not
   buried, those below one of some are among the found. *)
Clear(k, since) == Captured[k] # 0 /\ Captured[k] >= since + BoundaryWobble

NoneMissed(onGoogle, buried, some, since, found) ==
    \A m \in some \intersect onGoogle, k \in onGoogle \ buried :
        Clear(k, since) /\ Place[k] < Place[m] => k \in found

NoneMissedNow(some, since, found) == NoneMissed(google, hist.buried, some, since, found)

Before == {k \in Keys : Place[k] < walk.cursor}
InHand == members \union walk.todo

(* The walk stops on this page if it reads it to the end. *)
StopsHere == walk.newOnly /\ walk.page # {} /\ walk.page \subseteq walk.held

Undisturbed == ~hist.disturbed

(* At rest after a whole walk; on the way, where the walk began; as far as it
   has come; on a page it may stop at; and where it ended. *)
RestInv == ~Walking /\ Undisturbed /\ full # "never" => NoneMissedNow(members, library.since, members)

StartInv ==
    Walking /\ Undisturbed =>
        /\ walk.since = library.since
        /\ walk.newOnly => NoneMissedNow(walk.held, walk.since, members)

AheadInv == walk.pc \in {"ask", "record"} => NoneMissedNow(InHand, walk.since, InHand \union Before)

PageInv ==
    walk.pc = "record" /\ Undisturbed =>
        /\ walk.final \/ StopsHere => NoneMissedNow(InHand, walk.since, members \union (Keys \ Before))
        /\ StopsHere => \A k \in (hist.present \ hist.buried) \intersect Before : Clear(k, walk.since) => k \in members

EndInv ==
    Ended /\ Undisturbed =>
        /\ NoneMissedNow(members, walk.since, members)
        /\ WithinReach \subseteq members

GroundInv == RestInv /\ StartInv /\ AheadInv /\ PageInv /\ EndInv

LibraryInv == WalkInv /\ GroundInv

-----------------------------------------------------------------------------
(* Places and pages. *)

LEMMA Lowest ==
    ASSUME NEW D, NEW rank \in [D -> Nat], NEW T \in SUBSET D, T # {}
    PROVE  \E k \in T : \A j \in T : rank[k] <= rank[j]
<1> DEFINE V == {rank[k] : k \in T}
<1>1. V \subseteq Nat /\ V # {}
  OBVIOUS
<1>2. PICK n \in V : \A m \in V : ~(<<m, n>> \in OpToRel(<, Nat))
  <2> HIDE DEF V
  <2> QED BY <1>1, NatLessThanWellFounded, WFMin, Zenon
<1>3. PICK k \in T : n = rank[k]
  OBVIOUS
<1>4. ASSUME NEW j \in T PROVE rank[k] <= rank[j]
  <2>1. rank[j] \in V /\ rank[j] \in Nat /\ n \in Nat
    BY <1>1
  <2>2. ~(<<rank[j], n>> \in OpToRel(<, Nat))
    <3> HIDE DEF V
    <3> QED BY <1>2, <2>1, Zenon
  <2>3. ~(rank[j] < n)
    BY <2>1, <2>2 DEF OpToRel
  <2> QED BY <1>3, <2>1, <2>3
<1> QED BY <1>4

LEMMA Highest ==
    ASSUME NEW T \in SUBSET Keys, T # {}
    PROVE  \E k \in T : \A j \in T : Place[j] <= Place[k]
<1> DEFINE Above(k) == {j \in T : Place[j] > Place[k]}
           rank == [k \in T |-> Cardinality(Above(k))]
<1>1. Place \in [Keys -> Nat \ {0}] /\ IsFiniteSet(T)
  BY TimelineOrder, FS_Subset
<1>2. \A k \in T : Above(k) \in SUBSET T /\ IsFiniteSet(Above(k)) /\ Cardinality(Above(k)) \in Nat
  <2>1. \A k \in T : Above(k) \in SUBSET T
    OBVIOUS
  <2> HIDE DEF Above
  <2> QED BY <1>1, <2>1, FS_Subset, FS_CardinalityType
<1>3. PICK k \in T : \A j \in T : rank[k] <= rank[j]
  <2>1. rank \in [T -> Nat]
    <3> HIDE DEF Above
    <3> QED BY <1>2
  <2> HIDE DEF rank
  <2> QED BY <2>1, Lowest
<1>4. ASSUME NEW j \in T, ~(Place[j] <= Place[k]) PROVE FALSE
  <2>1. j \in Above(k) /\ j \notin Above(j) /\ Above(j) \in SUBSET Above(k)
    BY <1>1, <1>4
  <2>2. Cardinality(Above(k)) <= Cardinality(Above(j))
    BY <1>3
  <2> HIDE DEF Above
  <2>3. Cardinality(Above(j)) <= Cardinality(Above(k)) /\ Cardinality(Above(j)) # Cardinality(Above(k))
    BY <1>2, <2>1, FS_Subset
  <2> QED BY <1>2, <2>2, <2>3
<1> QED BY <1>4

LEMMA Places ==
    ASSUME NEW k \in Keys
    PROVE  /\ Place[k] \in Nat /\ Captured[k] \in Nat
           /\ Captured[k] # 0 => Place[k] <= Captured[k] + Drift /\ Captured[k] <= Place[k] + Drift
BY TimelineOrder

LEMMA TopIsAbove == Top \in Nat /\ \A k \in Keys : Place[k] < Top
<1> DEFINE places == {Place[k] : k \in Keys}
<1>1. PICK h \in Keys : \A j \in Keys : Place[j] <= Place[h]
  BY Highest, TimelineOrder
<1>2. Place[h] \in places /\ \A n \in places : n <= Place[h]
  BY <1>1
<1>3. Top = 1 + CHOOSE n \in places : \A k \in Keys : Place[k] <= n
  BY DEF Top
<1>4. (CHOOSE n \in places : \A k \in Keys : Place[k] <= n) \in places
      /\ \A k \in Keys : Place[k] <= CHOOSE n \in places : \A j \in Keys : Place[j] <= n
  <2> HIDE DEF places
  <2> QED BY <1>1, <1>2
<1>5. places \subseteq Nat
  BY Places
<1> HIDE DEF places
<1> DEFINE highest == CHOOSE n \in places : \A k \in Keys : Place[k] <= n
<1>6. highest \in Nat /\ \A k \in Keys : Place[k] <= highest
  BY <1>4, <1>5
<1>7. Top = 1 + highest
  BY <1>3
<1> HIDE DEF highest
<1> QED BY <1>6, <1>7, Places

LEMMA LastOnThePage ==
    ASSUME NEW page \in SUBSET Keys, page # {}
    PROVE  LastOf(page) \in page /\ \A j \in page : Place[LastOf(page)] <= Place[j]
<1>1. PICK k \in page : \A j \in page : Place[k] <= Place[j]
  BY TimelineOrder, Lowest
<1> QED BY <1>1 DEF LastOf

LEMMA KnownGroundFacts ==
    ASSUME NEW page \in SUBSET Keys, NEW held \in SUBSET Keys
    PROVE  /\ KnownGround(page, held) \in Nat
           /\ KnownGround(page, held) # 0 =>
                page \subseteq held /\ \E j \in page : Captured[j] = KnownGround(page, held)
<1> DEFINE dates == {Captured[k] : k \in page} \ {0}
<1>1. dates \subseteq Nat
  BY Places
<1>2. CASE page \subseteq held /\ dates # {}
  <2>1. [d \in Nat |-> d] \in [Nat -> Nat] /\ dates \in SUBSET Nat
    BY <1>1
  <2> DEFINE same == [d \in Nat |-> d]
  <2>2. \E d \in dates : \A e \in dates : same[d] <= same[e]
    <3> HIDE DEF same, dates
    <3> QED BY <1>2, <2>1, Lowest DEF same
  <2>3. \E d \in dates : \A e \in dates : d <= e
    <3> HIDE DEF dates
    <3> QED BY <1>1, <2>2
  <2>4. KnownGround(page, held) = CHOOSE d \in dates : \A e \in dates : d <= e
    BY <1>2 DEF KnownGround
  <2>5. KnownGround(page, held) \in dates
    <3> HIDE DEF dates
    <3> QED BY <2>3, <2>4
  <2> QED BY <1>1, <1>2, <2>5
<1>3. CASE ~(page \subseteq held /\ dates # {})
  BY <1>3 DEF KnownGround
<1> QED BY <1>2, <1>3

-----------------------------------------------------------------------------
(* What each step makes of the records. *)

LEMMA InitTypes == LibraryInit => LibraryTypes
<1> SUFFICES ASSUME LibraryInit PROVE LibraryTypes
  OBVIOUS
<1>1. NoWalk \in WalkRecord
  BY DEF NoWalk, WalkRecord, Steps
<1> DEFINE offered == "newonly" \in Events
<1>2. library \in Instruction
  <2>1. library \in [mode : {"all"}, since : Bounds, newOnly : {offered}, weekly : BOOLEAN] /\ Bounds \subseteq Nat
    BY WalkConstants DEF LibraryInit
  <2>2. offered \in BOOLEAN
    OBVIOUS
  <2> HIDE DEF offered
  <2> QED BY <2>1, <2>2 DEF Instruction
<1>3. left \in [nights : Nat, changes : Nat] /\ hist \in History
  BY WalkConstants DEF LibraryInit, History
<1> QED BY <1>1, <1>2, <1>3 DEF LibraryInit, LibraryTypes

LEMMA StartFields ==
    ASSUME LibraryTypes, StartWalk
    PROVE  /\ walk.pc = "idle" /\ walk' \in WalkRecord /\ walk'.pc = "ask" /\ walk'.cursor = Top
           /\ walk'.todo = {} /\ walk'.seen = {} /\ ~walk'.final /\ ~walk'.all /\ walk'.heldFrom = 0
           /\ walk'.held = members /\ walk'.since = library.since /\ (walk'.newOnly <=> WalksNewOnly)
           /\ hist' \in History /\ hist'.absent = Keys \ google /\ hist'.present = google
           /\ hist'.buried = hist.buried /\ (hist'.disturbed <=> hist.disturbed /\ WalksNewOnly)
           /\ left' \in [nights : Nat, changes : Nat]
           /\ UNCHANGED <<google, members, gone, library, full>>
<1>1. library \in Instruction /\ hist \in History /\ members \in SUBSET Keys /\ google \in SUBSET Keys
      /\ left \in [nights : Nat, changes : Nat]
  BY DEF LibraryTypes
<1>2. WalksNewOnly \in BOOLEAN
  BY <1>1 DEF WalksNewOnly, Instruction
<1> DEFINE new == WalksNewOnly
<1>3. /\ walk.pc = "idle" /\ left.nights > 0
      /\ left' = [left EXCEPT !.nights = @ - 1]
      /\ walk' = [NoWalk EXCEPT !.pc = "ask", !.cursor = Top, !.held = members, !.since = library.since,
                                !.newOnly = new]
      /\ hist' = [hist EXCEPT !.absent = Keys \ google, !.present = google, !.disturbed = @ /\ new]
      /\ UNCHANGED <<google, members, gone, library, full>>
  BY DEF StartWalk
<1> HIDE DEF new
<1>4. new \in BOOLEAN
  BY <1>2 DEF new
<1>5. library.since \in Nat /\ Top \in Nat
  BY <1>1, TopIsAbove DEF Instruction
<1>6. walk' \in WalkRecord /\ walk'.pc = "ask" /\ walk'.cursor = Top /\ walk'.todo = {} /\ walk'.seen = {}
      /\ ~walk'.final /\ ~walk'.all /\ walk'.heldFrom = 0 /\ walk'.held = members
      /\ walk'.since = library.since /\ walk'.newOnly = new
  BY <1>1, <1>3, <1>4, <1>5 DEF NoWalk, WalkRecord, Steps
<1>7. hist' \in History /\ hist'.absent = Keys \ google /\ hist'.present = google /\ hist'.buried = hist.buried
      /\ hist'.disturbed = (hist.disturbed /\ new)
  BY <1>1, <1>3, <1>4 DEF History
<1>8. left' \in [nights : Nat, changes : Nat]
  BY <1>1, <1>3
<1> QED BY <1>3, <1>6, <1>7, <1>8 DEF new

(* Timeline: a page, or an answer with nothing on it. *)
ServesPage(p) ==
    /\ walk' = [walk EXCEPT !.pc = "record", !.page = p, !.todo = p, !.final = (p = Rest),
                            !.cursor = IF p = {} THEN @ ELSE Place[LastOf(p)]]
    /\ hist' = hist

ServesNothing ==
    /\ walk.cursor = Top
    /\ walk' = [walk EXCEPT !.pc = "record", !.page = {}, !.final = TRUE]
    /\ hist' = [hist EXCEPT !.disturbed = TRUE]

LEMMA TimelineServes ==
    ASSUME Timeline
    PROVE  /\ walk.pc = "ask" /\ (ServesNothing \/ \E p \in NextPages : ServesPage(p))
           /\ UNCHANGED <<google, members, gone, library, full, left>>
BY DEF Timeline, ServesNothing, ServesPage

LEMMA PageFields ==
    ASSUME LibraryTypes, NEW p \in NextPages, ServesPage(p)
    PROVE  /\ p \subseteq Rest /\ p \in SUBSET Keys
           /\ \A j \in p, k \in Rest \ p : Place[j] > Place[k]
           /\ walk' \in WalkRecord /\ walk'.pc = "record" /\ walk'.page = p /\ walk'.todo = p
           /\ (walk'.final <=> p = Rest)
           /\ walk'.cursor = IF p = {} THEN walk.cursor ELSE Place[LastOf(p)]
           /\ walk'.seen = walk.seen /\ walk'.held = walk.held /\ walk'.since = walk.since
           /\ walk'.newOnly = walk.newOnly /\ walk'.heldFrom = walk.heldFrom /\ walk'.all = walk.all
           /\ hist' = hist
<1>1. p \subseteq Rest /\ \A j \in p, k \in Rest \ p : Place[j] > Place[k]
  BY DEF NextPages
<1>2. walk \in WalkRecord /\ google \in SUBSET Keys
  BY DEF LibraryTypes
<1>3. p \in SUBSET Keys
  BY <1>1, <1>2 DEF Rest
<1> DEFINE low == IF p = {} THEN walk.cursor ELSE Place[LastOf(p)]
           final == p = Rest
<1>4. low \in Nat
  BY <1>2, <1>3, LastOnThePage, Places DEF WalkRecord
<1>5. final \in BOOLEAN
  OBVIOUS
<1>6. walk' = [walk EXCEPT !.pc = "record", !.page = p, !.todo = p, !.final = final, !.cursor = low] /\ hist' = hist
  BY DEF ServesPage
<1>7. low = (IF p = {} THEN walk.cursor ELSE Place[LastOf(p)]) /\ (final <=> p = Rest)
  OBVIOUS
<1> HIDE DEF low, final
<1>8. /\ walk' \in WalkRecord /\ walk'.pc = "record" /\ walk'.page = p /\ walk'.todo = p
      /\ walk'.final = final /\ walk'.cursor = low
      /\ walk'.seen = walk.seen /\ walk'.held = walk.held /\ walk'.since = walk.since
      /\ walk'.newOnly = walk.newOnly /\ walk'.heldFrom = walk.heldFrom /\ walk'.all = walk.all
  BY <1>2, <1>3, <1>4, <1>5, <1>6 DEF WalkRecord, Steps
<1> QED BY <1>1, <1>3, <1>6, <1>7, <1>8

LEMMA NothingFields ==
    ASSUME LibraryTypes, ServesNothing
    PROVE  /\ walk.cursor = Top /\ walk' \in WalkRecord /\ walk'.pc = "record" /\ walk'.page = {} /\ walk'.final
           /\ walk'.todo = walk.todo /\ walk'.cursor = walk.cursor
           /\ walk'.seen = walk.seen /\ walk'.held = walk.held /\ walk'.since = walk.since
           /\ walk'.newOnly = walk.newOnly /\ walk'.heldFrom = walk.heldFrom /\ walk'.all = walk.all
           /\ hist' \in History /\ hist'.disturbed /\ hist'.absent = hist.absent
           /\ hist'.present = hist.present /\ hist'.buried = hist.buried
<1>1. walk \in WalkRecord /\ hist \in History
  BY DEF LibraryTypes
<1>2. walk.cursor = Top /\ walk' = [walk EXCEPT !.pc = "record", !.page = {}, !.final = TRUE]
      /\ hist' = [hist EXCEPT !.disturbed = TRUE]
  BY DEF ServesNothing
<1>3. hist' \in History /\ hist'.disturbed /\ hist'.absent = hist.absent
      /\ hist'.present = hist.present /\ hist'.buried = hist.buried
  BY <1>1, <1>2 DEF History
<1> QED BY <1>1, <1>2, <1>3 DEF WalkRecord, Steps

(* The photo recorded is one still to be recorded. *)
Listed(k) == IF OlderThan(k, walk.since) THEN {} ELSE {k}
Records(k) ==
    /\ walk.pc = "record" /\ members' = members \union Listed(k) /\ gone' = gone \ Listed(k)
    /\ walk' \in WalkRecord /\ walk'.todo = walk.todo \ {k} /\ walk'.seen = walk.seen \union Listed(k)
    /\ walk'.pc = walk.pc /\ walk'.page = walk.page /\ walk'.final = walk.final
    /\ walk'.cursor = walk.cursor /\ walk'.held = walk.held /\ walk'.since = walk.since
    /\ walk'.newOnly = walk.newOnly /\ walk'.heldFrom = walk.heldFrom /\ walk'.all = walk.all
    /\ members' \in SUBSET Keys /\ gone' \in SUBSET Keys
    /\ UNCHANGED <<google, library, full, left, hist>>

LEMMA RecordFields ==
    ASSUME LibraryTypes, RecordItem
    PROVE  \E k \in walk.todo : Records(k)
<1>1. walk \in WalkRecord /\ members \in SUBSET Keys /\ gone \in SUBSET Keys
  BY DEF LibraryTypes
<1>2. walk.todo \in SUBSET Keys
  BY <1>1 DEF WalkRecord
<1> DEFINE first == CHOOSE j \in walk.todo : \A i \in walk.todo : Place[i] <= Place[j]
           listed == IF OlderThan(first, walk.since) THEN {} ELSE {first}
<1>3. /\ walk.pc = "record" /\ walk.todo # {}
      /\ members' = members \union listed /\ gone' = gone \ listed
      /\ walk' = [walk EXCEPT !.todo = @ \ {first}, !.seen = @ \union listed]
      /\ UNCHANGED <<google, library, full, left, hist>>
  BY DEF RecordItem
<1>4. PICK h \in walk.todo : \A i \in walk.todo : Place[i] <= Place[h]
  BY <1>2, <1>3, Highest
<1>5. first \in walk.todo
  BY <1>4
<1>6. listed = (IF OlderThan(first, walk.since) THEN {} ELSE {first}) /\ listed \in SUBSET Keys
  BY <1>2, <1>5
<1> HIDE DEF first, listed
<1>7. /\ walk' \in WalkRecord /\ walk'.todo = walk.todo \ {first} /\ walk'.seen = walk.seen \union listed
      /\ walk'.pc = walk.pc /\ walk'.page = walk.page /\ walk'.final = walk.final
      /\ walk'.cursor = walk.cursor /\ walk'.held = walk.held /\ walk'.since = walk.since
      /\ walk'.newOnly = walk.newOnly /\ walk'.heldFrom = walk.heldFrom /\ walk'.all = walk.all
  BY <1>1, <1>3, <1>6 DEF WalkRecord
<1>8. members' \in SUBSET Keys /\ gone' \in SUBSET Keys
  BY <1>1, <1>3, <1>6
<1>9. listed = Listed(first)
  BY <1>6 DEF Listed
<1> QED BY <1>3, <1>5, <1>7, <1>8, <1>9 DEF Records

(* How a page read to its end is answered. *)
LEMMA PageReadFields ==
    ASSUME LibraryTypes, PageRead
    PROVE  /\ walk.pc = "record" /\ walk.todo = {}
           /\ walk' \in WalkRecord /\ walk'.todo = {}
           /\ walk'.page = walk.page /\ walk'.final = walk.final /\ walk'.cursor = walk.cursor
           /\ walk'.seen = walk.seen /\ walk'.held = walk.held /\ walk'.since = walk.since
           /\ walk'.newOnly = walk.newOnly
           /\ \/ walk.final /\ walk'.pc = "reconcile" /\ walk'.all /\ walk'.heldFrom = walk.heldFrom
              \/ /\ ~walk.final /\ WalkedPastTheBound(walk.page, walk.since)
                 /\ walk'.pc = "reconcile" /\ walk'.all = walk.all /\ walk'.heldFrom = walk.heldFrom
              \/ /\ ~walk.final /\ walk.newOnly /\ KnownGround(walk.page, walk.held) # 0
                 /\ walk'.pc = "reconcile" /\ walk'.all = walk.all
                 /\ walk'.heldFrom = KnownGround(walk.page, walk.held)
              \/ ~walk.final /\ walk'.pc = "ask" /\ walk'.all = walk.all /\ walk'.heldFrom = walk.heldFrom
           /\ UNCHANGED <<google, members, gone, library, full, left, hist>>
<1>1. walk \in WalkRecord
  BY DEF LibraryTypes
<1>2. KnownGround(walk.page, walk.held) \in Nat
  BY <1>1, KnownGroundFacts DEF WalkRecord
<1> DEFINE ground == KnownGround(walk.page, walk.held)
           past == WalkedPastTheBound(walk.page, walk.since)
<1>3. /\ walk.pc = "record" /\ walk.todo = {}
      /\ walk' = IF walk.final THEN [walk EXCEPT !.pc = "reconcile", !.all = TRUE]
                 ELSE IF past THEN [walk EXCEPT !.pc = "reconcile"]
                 ELSE IF walk.newOnly /\ ground # 0 THEN [walk EXCEPT !.pc = "reconcile", !.heldFrom = ground]
                 ELSE [walk EXCEPT !.pc = "ask"]
      /\ UNCHANGED <<google, members, gone, library, full, left, hist>>
  BY DEF PageRead
<1>4. ground \in Nat
  BY <1>2
<1> HIDE DEF ground, past
<1>5. /\ walk' \in WalkRecord /\ walk'.todo = {}
      /\ walk'.page = walk.page /\ walk'.final = walk.final /\ walk'.cursor = walk.cursor
      /\ walk'.seen = walk.seen /\ walk'.held = walk.held /\ walk'.since = walk.since
      /\ walk'.newOnly = walk.newOnly
  BY <1>1, <1>3, <1>4 DEF WalkRecord, Steps
<1>6. \/ walk.final /\ walk'.pc = "reconcile" /\ walk'.all /\ walk'.heldFrom = walk.heldFrom
      \/ /\ ~walk.final /\ past
         /\ walk'.pc = "reconcile" /\ walk'.all = walk.all /\ walk'.heldFrom = walk.heldFrom
      \/ /\ ~walk.final /\ walk.newOnly /\ ground # 0
         /\ walk'.pc = "reconcile" /\ walk'.all = walk.all /\ walk'.heldFrom = ground
      \/ ~walk.final /\ walk'.pc = "ask" /\ walk'.all = walk.all /\ walk'.heldFrom = walk.heldFrom
  BY <1>1, <1>3, <1>4 DEF WalkRecord
<1> QED BY <1>3, <1>5, <1>6 DEF ground, past

LEMMA ReconcileFields ==
    ASSUME LibraryTypes, ReconcileLibrary
    PROVE  /\ walk.pc = "reconcile" /\ walk' \in WalkRecord /\ walk'.pc = "mark"
           /\ gone' = (IF walk.seen = {} THEN gone ELSE gone \union Departures) /\ gone' \in SUBSET Keys
           /\ walk'.todo = walk.todo /\ walk'.page = walk.page /\ walk'.final = walk.final
           /\ walk'.cursor = walk.cursor /\ walk'.seen = walk.seen /\ walk'.held = walk.held
           /\ walk'.since = walk.since /\ walk'.newOnly = walk.newOnly /\ walk'.heldFrom = walk.heldFrom
           /\ walk'.all = walk.all /\ (Departures)' = Departures
           /\ UNCHANGED <<google, members, library, full, left, hist>>
<1>1. walk \in WalkRecord /\ gone \in SUBSET Keys
  BY DEF LibraryTypes
<1>2. /\ walk.pc = "reconcile" /\ walk' = [walk EXCEPT !.pc = "mark"]
      /\ gone' = IF walk.seen = {} THEN gone ELSE gone \union Departures
      /\ UNCHANGED <<google, members, library, full, left, hist>>
  BY DEF ReconcileLibrary
<1>3. /\ walk' \in WalkRecord /\ walk'.pc = "mark"
      /\ walk'.todo = walk.todo /\ walk'.page = walk.page /\ walk'.final = walk.final
      /\ walk'.cursor = walk.cursor /\ walk'.seen = walk.seen /\ walk'.held = walk.held
      /\ walk'.since = walk.since /\ walk'.newOnly = walk.newOnly /\ walk'.heldFrom = walk.heldFrom
      /\ walk'.all = walk.all
  BY <1>1, <1>2 DEF WalkRecord, Steps
<1>4. VouchedFrom' = VouchedFrom
  BY <1>3 DEF VouchedFrom
<1>5. (Departures)' = Departures
  BY <1>3, <1>4, Zenon DEF Departures
<1>6. Departures \in SUBSET Keys
  BY <1>1 DEF Departures, WalkRecord
<1>7. gone' \in SUBSET Keys
  BY <1>1, <1>2, <1>6
<1> QED BY <1>2, <1>3, <1>5, <1>7

LEMMA MarkFields ==
    ASSUME LibraryTypes, MarkLibraryWalkedInFull
    PROVE  /\ walk.pc = "mark" /\ walk' \in WalkRecord /\ walk'.pc = "idle"
           /\ full' \in {"never", "recent", "old"}
           /\ walk'.todo = walk.todo /\ walk'.seen = walk.seen /\ walk'.held = walk.held
           /\ walk'.since = walk.since
           /\ UNCHANGED <<google, members, gone, library, left, hist>>
BY DEF MarkLibraryWalkedInFull, LibraryTypes, WalkRecord, Steps

LEMMA CutFields ==
    ASSUME LibraryTypes, CutShort
    PROVE  /\ walk' \in WalkRecord /\ walk'.pc = "idle" /\ walk'.todo = {} /\ walk'.seen = {} /\ walk'.held = {}
           /\ hist' \in History /\ hist'.disturbed
           /\ UNCHANGED <<google, members, gone, library, full, left>>
<1>1. walk' = NoWalk /\ hist' = [hist EXCEPT !.disturbed = TRUE] /\ UNCHANGED <<google, members, gone, library, full, left>>
  BY DEF CutShort
<1>2. walk' \in WalkRecord /\ walk'.pc = "idle" /\ walk'.todo = {} /\ walk'.seen = {} /\ walk'.held = {}
  BY <1>1 DEF NoWalk, WalkRecord, Steps
<1> QED BY <1>1, <1>2 DEF LibraryTypes, History

LEMMA SpendTypes == ASSUME LibraryTypes, Spend PROVE left' \in [nights : Nat, changes : Nat]
BY DEF LibraryTypes, Spend

LEMMA SetFields ==
    ASSUME LibraryTypes, NEW to \in Instructions, SetLibrary(to)
    PROVE  /\ library' = to /\ library' \in Instruction /\ full' \in {"never", "recent", "old"}
           /\ (full' = full /\ to.since = library.since) \/ full' = "never"
           /\ hist' \in History /\ hist'.absent = hist.absent /\ hist'.present = hist.present
           /\ hist'.buried = hist.buried /\ (hist'.disturbed <=> hist.disturbed \/ Walking)
           /\ left' \in [nights : Nat, changes : Nat]
           /\ UNCHANGED <<google, members, gone, walk>>
<1>1. to \in Instruction
  BY WalkConstants DEF Instructions, Instruction
<1>2. /\ library' = to /\ Spend
      /\ full' = IF to.mode = library.mode /\ to.since = library.since THEN full ELSE "never"
      /\ hist' = [hist EXCEPT !.disturbed = @ \/ walk.pc # "idle"]
      /\ UNCHANGED <<google, members, gone, walk>>
  BY DEF SetLibrary
<1>3. hist' \in History /\ hist'.absent = hist.absent /\ hist'.present = hist.present
      /\ hist'.buried = hist.buried /\ (hist'.disturbed <=> hist.disturbed \/ Walking)
  BY <1>2 DEF LibraryTypes, History, Walking
<1> QED BY <1>1, <1>2, <1>3, SpendTypes DEF LibraryTypes

LEMMA GainsFields ==
    ASSUME LibraryTypes, NEW k \in Keys, GoogleGains(k)
    PROVE  /\ k \notin google /\ google' = google \union {k} /\ google' \in SUBSET Keys
           /\ hist' \in History /\ hist'.absent = hist.absent /\ hist'.present = hist.present
           /\ (hist'.disturbed <=> hist.disturbed)
           /\ hist'.buried \ {k} = (hist.buried \ {k}) \union
                 (IF k \in InHand THEN {j \in google \ members : Place[j] < Place[k]} ELSE {})
           /\ (\E j \in google : Place[j] > Place[k]) => k \in hist'.buried
           /\ left' \in [nights : Nat, changes : Nat]
           /\ UNCHANGED <<members, gone, library, full, walk>>
<1>1. google \in SUBSET Keys /\ hist \in History
  BY DEF LibraryTypes
<1> DEFINE under == IF k \in InHand THEN {j \in google \ members : Place[j] < Place[k]} ELSE {}
           buried == under \union (IF \E j \in google : Place[j] > Place[k] THEN hist.buried \union {k}
                                   ELSE hist.buried \ {k})
<1>2. /\ k \notin google /\ Spend /\ google' = google \union {k} /\ hist' = [hist EXCEPT !.buried = buried]
      /\ UNCHANGED <<members, gone, library, full, walk>>
  BY DEF GoogleGains, InHand
<1>3. under \in SUBSET Keys /\ k \notin under
  BY <1>1, <1>2
<1>4. buried \ {k} = (hist.buried \ {k}) \union under /\ ((\E j \in google : Place[j] > Place[k]) => k \in buried)
  <2> HIDE DEF under
  <2> QED BY <1>3
<1>5. buried \in SUBSET Keys
  <2> HIDE DEF under
  <2> QED BY <1>1, <1>3 DEF History
<1> HIDE DEF buried
<1>6. hist' \in History /\ hist'.absent = hist.absent /\ hist'.present = hist.present
      /\ hist'.disturbed = hist.disturbed /\ hist'.buried = buried
  BY <1>1, <1>2, <1>5 DEF History
<1> QED BY <1>1, <1>2, <1>4, <1>6, SpendTypes

LEMMA LosesFields ==
    ASSUME LibraryTypes, NEW k \in Keys, GoogleLoses(k)
    PROVE  /\ k \in google /\ google' = google \ {k} /\ google' \in SUBSET Keys
           /\ hist' \in History /\ hist'.absent = hist.absent \union {k} /\ hist'.present = hist.present \ {k}
           /\ (hist'.disturbed <=> hist.disturbed) /\ hist'.buried = hist.buried
           /\ left' \in [nights : Nat, changes : Nat]
           /\ UNCHANGED <<members, gone, library, full, walk>>
<1>1. /\ k \in google /\ Spend /\ google' = google \ {k}
      /\ hist' = [hist EXCEPT !.absent = @ \union {k}, !.present = @ \ {k}]
      /\ UNCHANGED <<members, gone, library, full, walk>>
  BY DEF GoogleLoses
<1>2. hist' \in History /\ hist'.absent = hist.absent \union {k} /\ hist'.present = hist.present \ {k}
      /\ hist'.disturbed = hist.disturbed /\ hist'.buried = hist.buried
  BY <1>1 DEF LibraryTypes, History
<1> QED BY <1>1, <1>2, SpendTypes DEF LibraryTypes

(* The steps a proof goes through, one by one. *)
LEMMA EveryStep ==
    ASSUME [LibraryNext]_vars
    PROVE  \/ StartWalk
           \/ Timeline /\ ServesNothing
           \/ \E p \in NextPages : Timeline /\ ServesPage(p)
           \/ RecordItem \/ PageRead \/ ReconcileLibrary \/ MarkLibraryWalkedInFull \/ CutShort
           \/ \E to \in Instructions : SetLibrary(to)
           \/ WeekPasses
           \/ \E k \in Keys : GoogleGains(k)
           \/ \E k \in Keys : GoogleLoses(k)
           \/ UNCHANGED vars
<1>1. CASE Timeline
  BY <1>1, TimelineServes, Zenon
<1>2. CASE AllNightsOver \/ NotFollowed
  BY <1>2 DEF AllNightsOver, NotFollowed
<1> QED BY <1>1, <1>2, Zenon DEF LibraryNext

-----------------------------------------------------------------------------
(* The walk. *)

LEMMA NextTypes == LibraryTypes /\ [LibraryNext]_vars => LibraryTypes'
<1> SUFFICES ASSUME LibraryTypes, [LibraryNext]_vars PROVE LibraryTypes'
  OBVIOUS
<1>0. WalkRecord' = WalkRecord /\ History' = History /\ Instruction' = Instruction
  BY DEF WalkRecord, History, Instruction, Steps
<1>1. CASE StartWalk
  BY <1>0, <1>1, StartFields DEF LibraryTypes
<1>2. CASE Timeline /\ ServesNothing
  BY <1>0, <1>2, NothingFields, TimelineServes DEF LibraryTypes
<1>3. ASSUME NEW p \in NextPages, Timeline, ServesPage(p) PROVE LibraryTypes'
  BY <1>0, <1>3, PageFields, TimelineServes DEF LibraryTypes
<1>4. CASE RecordItem
  <2>1. walk' \in WalkRecord /\ members' \in SUBSET Keys /\ gone' \in SUBSET Keys
        /\ UNCHANGED <<google, library, full, left, hist>>
    BY <1>4, RecordFields DEF Records
  <2> QED BY <1>0, <2>1 DEF LibraryTypes
<1>5. CASE PageRead
  BY <1>0, <1>5, PageReadFields DEF LibraryTypes
<1>6. CASE ReconcileLibrary
  BY <1>0, <1>6, ReconcileFields DEF LibraryTypes
<1>7. CASE MarkLibraryWalkedInFull
  BY <1>0, <1>7, MarkFields DEF LibraryTypes
<1>8. CASE CutShort
  BY <1>0, <1>8, CutFields DEF LibraryTypes
<1>9. ASSUME NEW to \in Instructions, SetLibrary(to) PROVE LibraryTypes'
  BY <1>0, <1>9, SetFields DEF LibraryTypes
<1>10. CASE WeekPasses
  BY <1>10 DEF LibraryTypes, WeekPasses, WalkRecord, History, Instruction, Steps
<1>11. ASSUME NEW k \in Keys, GoogleGains(k) PROVE LibraryTypes'
  BY <1>0, <1>11, GainsFields DEF LibraryTypes
<1>12. ASSUME NEW k \in Keys, GoogleLoses(k) PROVE LibraryTypes'
  BY <1>0, <1>12, LosesFields DEF LibraryTypes
<1>13. CASE UNCHANGED vars
  BY <1>13 DEF LibraryTypes, vars, WalkRecord, History, Instruction, Steps
<1> QED BY <1>1, <1>2, <1>3, <1>4, <1>5, <1>6, <1>7, <1>8, <1>9, <1>10, <1>11, <1>12, <1>13, EveryStep, Zenon

LEMMA NextWatched == LibraryTypes /\ WatchedInv /\ [LibraryNext]_vars => WatchedInv'
<1> SUFFICES ASSUME LibraryTypes, WatchedInv, [LibraryNext]_vars PROVE WatchedInv'
  OBVIOUS
<1>1. CASE StartWalk
  BY <1>1, StartFields DEF WatchedInv, LibraryTypes
<1>2. CASE Timeline /\ ServesNothing
  BY <1>2, NothingFields, TimelineServes DEF WatchedInv, Walking
<1>3. ASSUME NEW p \in NextPages, Timeline, ServesPage(p) PROVE WatchedInv'
  BY <1>3, PageFields, TimelineServes DEF WatchedInv, Walking
<1>4. CASE RecordItem
  <2>1. walk'.pc = walk.pc /\ UNCHANGED <<google, hist>>
    BY <1>4, RecordFields DEF Records
  <2> QED BY <2>1 DEF WatchedInv, Walking
<1>5. CASE PageRead
  BY <1>5, PageReadFields DEF WatchedInv, Walking
<1>6. CASE ReconcileLibrary
  BY <1>6, ReconcileFields DEF WatchedInv, Walking
<1>7. CASE MarkLibraryWalkedInFull
  BY <1>7, MarkFields DEF WatchedInv, Walking
<1>8. CASE CutShort
  BY <1>8, CutFields DEF WatchedInv, Walking
<1>9. ASSUME NEW to \in Instructions, SetLibrary(to) PROVE WatchedInv'
  BY <1>9, SetFields DEF WatchedInv, Walking
<1>10. CASE WeekPasses
  BY <1>10 DEF WatchedInv, Walking, WeekPasses
<1>11. ASSUME NEW k \in Keys, GoogleGains(k) PROVE WatchedInv'
  BY <1>11, GainsFields DEF WatchedInv, Walking
<1>12. ASSUME NEW k \in Keys, GoogleLoses(k) PROVE WatchedInv'
  BY <1>12, LosesFields DEF WatchedInv, Walking
<1>13. CASE UNCHANGED vars
  BY <1>13 DEF WatchedInv, Walking, vars
<1> QED BY <1>1, <1>2, <1>3, <1>4, <1>5, <1>6, <1>7, <1>8, <1>9, <1>10, <1>11, <1>12, <1>13, EveryStep, Zenon

LEMMA NextRecord == LibraryTypes /\ RecordInv /\ [LibraryNext]_vars => RecordInv'
<1> SUFFICES ASSUME LibraryTypes, RecordInv, [LibraryNext]_vars PROVE RecordInv'
  OBVIOUS
<1>1. CASE StartWalk
  BY <1>1, StartFields DEF RecordInv, Walking
<1>2. CASE Timeline /\ ServesNothing
  BY <1>2, NothingFields, TimelineServes DEF RecordInv, Walking
<1>3. ASSUME NEW p \in NextPages, Timeline, ServesPage(p) PROVE RecordInv'
  <2>1. walk'.page # {} => walk'.cursor = Place[LastOf(walk'.page)] /\ walk'.cursor # Top
    BY <1>3, PageFields, LastOnThePage, TopIsAbove, Places
  <2>2. LastOf(walk.page)' = LastOf(walk'.page)
    BY DEF LastOf
  <2>3. Top' = Top
    BY DEF Top
  <2> QED BY <1>3, <2>1, <2>2, <2>3, PageFields, TimelineServes DEF RecordInv, Walking
<1>4. CASE RecordItem
  <2>1. PICK k \in walk.todo : Records(k)
    BY <1>4, RecordFields
  <2> QED BY <2>1 DEF RecordInv, Records, Listed, Walking
<1>5. CASE PageRead
  BY <1>5, PageReadFields DEF RecordInv, Walking
<1>6. CASE ReconcileLibrary
  BY <1>6, ReconcileFields DEF RecordInv, Walking
<1>7. CASE MarkLibraryWalkedInFull
  BY <1>7, MarkFields DEF RecordInv, Walking
<1>8. CASE CutShort
  BY <1>8, CutFields DEF RecordInv, Walking
<1>9. ASSUME NEW to \in Instructions, SetLibrary(to) PROVE RecordInv'
  BY <1>9, SetFields DEF RecordInv, Walking
<1>10. CASE WeekPasses
  BY <1>10 DEF RecordInv, Walking, WeekPasses
<1>11. ASSUME NEW k \in Keys, GoogleGains(k) PROVE RecordInv'
  BY <1>11, GainsFields DEF RecordInv, Walking
<1>12. ASSUME NEW k \in Keys, GoogleLoses(k) PROVE RecordInv'
  BY <1>12, LosesFields DEF RecordInv, Walking
<1>13. CASE UNCHANGED vars
  BY <1>13 DEF RecordInv, Walking, vars
<1> QED BY <1>1, <1>2, <1>3, <1>4, <1>5, <1>6, <1>7, <1>8, <1>9, <1>10, <1>11, <1>12, <1>13, EveryStep, Zenon

LEMMA NextSweep == LibraryTypes /\ RecordInv /\ WatchedInv /\ SweepInv /\ [LibraryNext]_vars => SweepInv'
<1> SUFFICES ASSUME LibraryTypes, RecordInv, WatchedInv, SweepInv, [LibraryNext]_vars PROVE SweepInv'
  OBVIOUS
<1>0. ASSUME /\ Walking' => Walking
             /\ UNCHANGED <<walk.cursor, walk.todo, walk.seen, walk.since, walk.final>>
             /\ hist'.present \subseteq hist.present /\ (hist.disturbed => hist'.disturbed)
      PROVE  SweepInv'
  BY <1>0 DEF SweepInv, OlderThan
<1>1. CASE StartWalk
  <2>1. walk'.cursor = Top /\ ~walk'.final /\ hist'.present \subseteq Keys
    BY <1>1, StartFields DEF LibraryTypes
  <2> QED BY <2>1, TopIsAbove DEF SweepInv
<1>2. CASE Timeline /\ ServesNothing
  <2>1. walk.pc = "ask" /\ walk.todo = {} /\ walk.seen = {}
    BY <1>2, TimelineServes, NothingFields DEF RecordInv, Walking
  <2>2. /\ UNCHANGED <<walk.cursor, walk.todo, walk.seen, walk.since>>
        /\ hist'.present = hist.present /\ hist'.disturbed
    BY <1>2, NothingFields
  <2> QED BY <2>1, <2>2 DEF SweepInv, Walking, OlderThan
<1>3. ASSUME NEW p \in NextPages, Timeline, ServesPage(p) PROVE SweepInv'
  <2>1. /\ walk.pc = "ask" /\ walk.todo = {} /\ ~walk.final /\ hist.present \subseteq google
    BY <1>3, TimelineServes DEF RecordInv, WatchedInv, Walking
  <2>2. /\ walk'.todo = p /\ walk'.seen = walk.seen /\ walk'.since = walk.since /\ hist' = hist
        /\ (walk'.final <=> p = Rest) /\ p \in SUBSET Keys
        /\ walk'.cursor = IF p = {} THEN walk.cursor ELSE Place[LastOf(p)]
        /\ \A j \in p, i \in Rest \ p : Place[j] > Place[i]
    BY <1>3, PageFields
  <2>3. ASSUME NEW k \in hist.present, ~(k \in walk.seen \/ OlderThan(k, walk.since)), k \notin p
        PROVE  Place[k] < walk'.cursor /\ ~walk'.final
    <3>1. Place[k] < walk.cursor
      BY <2>1, <2>3 DEF SweepInv, Walking
    <3>2. k \in Rest
      BY <2>1, <3>1 DEF Rest
    <3>3. p # {} => Place[LastOf(p)] > Place[k]
      BY <2>2, <2>3, <3>2, LastOnThePage
    <3>4. k \in Keys
      BY DEF LibraryTypes, History
    <3>5. p # {} => Place[LastOf(p)] \in Nat /\ Place[k] \in Nat
      BY <2>2, <3>4, LastOnThePage, Places
    <3> QED BY <2>2, <2>3, <3>1, <3>2, <3>3, <3>5
  <2> QED BY <2>2, <2>3 DEF SweepInv, OlderThan
<1>4. CASE RecordItem
  <2>1. PICK k \in walk.todo : Records(k)
    BY <1>4, RecordFields
  <2>2. /\ walk.pc = "record" /\ walk'.todo = walk.todo \ {k} /\ walk'.seen = walk.seen \union Listed(k)
        /\ walk'.cursor = walk.cursor /\ walk'.since = walk.since /\ walk'.final = walk.final
        /\ hist' = hist
    BY <2>1 DEF Records
  <2>3. ASSUME NEW j \in hist.present, j \in walk.todo \union walk.seen
        PROVE  j \in walk'.todo \union walk'.seen \/ OlderThan(j, walk.since)
    BY <2>2, <2>3 DEF Listed
  <2> QED BY <2>2, <2>3 DEF SweepInv, Walking, OlderThan
<1>5. CASE PageRead
  BY <1>0, <1>5, PageReadFields DEF Walking
<1>6. CASE ReconcileLibrary
  BY <1>0, <1>6, ReconcileFields DEF Walking
<1>7. CASE MarkLibraryWalkedInFull
  BY <1>7, MarkFields DEF SweepInv, Walking
<1>8. CASE CutShort
  BY <1>8, CutFields DEF SweepInv, Walking
<1>9. ASSUME NEW to \in Instructions, SetLibrary(to) PROVE SweepInv'
  BY <1>0, <1>9, SetFields DEF Walking
<1>10. CASE WeekPasses
  BY <1>0, <1>10 DEF WeekPasses, Walking
<1>11. ASSUME NEW k \in Keys, GoogleGains(k) PROVE SweepInv'
  BY <1>0, <1>11, GainsFields DEF Walking
<1>12. ASSUME NEW k \in Keys, GoogleLoses(k) PROVE SweepInv'
  BY <1>0, <1>12, LosesFields DEF Walking
<1>13. CASE UNCHANGED vars
  BY <1>0, <1>13 DEF vars, Walking
<1> QED BY <1>1, <1>2, <1>3, <1>4, <1>5, <1>6, <1>7, <1>8, <1>9, <1>10, <1>11, <1>12, <1>13, EveryStep, Zenon

LEMMA NextStop == LibraryTypes /\ RecordInv /\ StopInv /\ [LibraryNext]_vars => StopInv'
<1> SUFFICES ASSUME LibraryTypes, RecordInv, StopInv, [LibraryNext]_vars PROVE StopInv'
  OBVIOUS
<1>0. ASSUME Ended' => Ended,
             UNCHANGED <<walk.cursor, walk.since, walk.final, walk.all, walk.heldFrom, walk.newOnly>>
      PROVE  StopInv'
  BY <1>0 DEF StopInv
<1>1. CASE StartWalk
  BY <1>1, StartFields DEF StopInv, Ended
<1>2. CASE Timeline /\ ServesNothing
  BY <1>2, NothingFields DEF StopInv, Ended
<1>3. ASSUME NEW p \in NextPages, Timeline, ServesPage(p) PROVE StopInv'
  BY <1>3, PageFields DEF StopInv, Ended
<1>4. CASE RecordItem
  <2>1. PICK k \in walk.todo : Records(k)
    BY <1>4, RecordFields
  <2> QED BY <2>1 DEF Records, StopInv, Ended
<1>5. CASE PageRead
  <2>1. /\ walk.pc = "record" /\ ~walk.all /\ walk.heldFrom = 0
        /\ walk'.final = walk.final /\ walk'.cursor = walk.cursor /\ walk'.since = walk.since
        /\ walk'.newOnly = walk.newOnly
        /\ walk.page # {} => walk.cursor = Place[LastOf(walk.page)]
    BY <1>5, PageReadFields DEF RecordInv
  <2>2. walk.page \in SUBSET Keys /\ walk.held \in SUBSET Keys /\ walk.since \in Nat /\ Drift \in Nat
        /\ walk' \in WalkRecord
    BY <1>5, PageReadFields, TimelineOrder DEF LibraryTypes, WalkRecord
  <2>3. ASSUME WalkedPastTheBound(walk.page, walk.since)
        PROVE  walk.since # 0 /\ walk.cursor < walk.since + Drift
    <3>1. walk.page # {} /\ OlderThan(LastOf(walk.page), walk.since) /\ LastOf(walk.page) \in Keys
      BY <2>2, <2>3, LastOnThePage DEF WalkedPastTheBound
    <3>2. /\ walk.since # 0 /\ Captured[LastOf(walk.page)] # 0
          /\ Captured[LastOf(walk.page)] < walk.since /\ walk.cursor = Place[LastOf(walk.page)]
      BY <2>1, <3>1 DEF OlderThan
    <3> QED BY <2>2, <3>1, <3>2, Places
  <2>4. ASSUME KnownGround(walk.page, walk.held) # 0
        PROVE  walk.cursor <= KnownGround(walk.page, walk.held) + Drift
    <3>1. PICK j \in walk.page : Captured[j] = KnownGround(walk.page, walk.held)
      BY <2>2, <2>4, KnownGroundFacts
    <3>2. /\ j \in Keys /\ LastOf(walk.page) \in Keys /\ Place[LastOf(walk.page)] <= Place[j]
          /\ walk.cursor = Place[LastOf(walk.page)]
      BY <2>1, <2>2, <3>1, LastOnThePage
    <3> QED BY <2>2, <2>4, <3>1, <3>2, Places
  <2>5. CASE walk.final
    BY <1>5, <2>1, <2>5, PageReadFields DEF StopInv, Ended
  <2>6. CASE ~walk.final
    <3>1. \/ /\ WalkedPastTheBound(walk.page, walk.since) /\ walk'.pc = "reconcile"
             /\ walk'.all = walk.all /\ walk'.heldFrom = walk.heldFrom
          \/ /\ walk.newOnly /\ KnownGround(walk.page, walk.held) # 0
             /\ walk'.all = walk.all /\ walk'.heldFrom = KnownGround(walk.page, walk.held)
          \/ walk'.pc = "ask"
      BY <1>5, <2>6, PageReadFields
    <3> QED BY <2>1, <2>3, <2>4, <3>1 DEF StopInv, Ended
  <2> QED BY <2>5, <2>6
<1>6. CASE ReconcileLibrary
  BY <1>0, <1>6, ReconcileFields DEF Ended
<1>7. CASE MarkLibraryWalkedInFull
  BY <1>7, MarkFields DEF StopInv, Ended
<1>8. CASE CutShort
  BY <1>8, CutFields DEF StopInv, Ended
<1>9. ASSUME NEW to \in Instructions, SetLibrary(to) PROVE StopInv'
  BY <1>0, <1>9, SetFields DEF Ended
<1>10. CASE WeekPasses
  BY <1>0, <1>10 DEF WeekPasses, Ended
<1>11. ASSUME NEW k \in Keys, GoogleGains(k) PROVE StopInv'
  BY <1>0, <1>11, GainsFields DEF Ended
<1>12. ASSUME NEW k \in Keys, GoogleLoses(k) PROVE StopInv'
  BY <1>0, <1>12, LosesFields DEF Ended
<1>13. CASE UNCHANGED vars
  BY <1>0, <1>13 DEF vars, Ended
<1> QED BY <1>1, <1>2, <1>3, <1>4, <1>5, <1>6, <1>7, <1>8, <1>9, <1>10, <1>11, <1>12, <1>13, EveryStep, Zenon

(* What is believed of a photo at the end of a walk is so: one there all the
   while, dated where the walk vouches for it, was listed. *)
LEMMA Vouched ==
    ASSUME WalkInv, Ended, NEW k \in hist.present,
           walk.final => ~hist.disturbed \/ walk.seen # {},
           ~OlderThan(k, walk.since),
           /\ ~walk.all => Captured[k] # 0
           /\ ~walk.all /\ walk.heldFrom = 0 => Captured[k] >= walk.since + BoundaryWobble
           /\ walk.heldFrom # 0 => Captured[k] >= walk.heldFrom + BoundaryWobble
    PROVE  k \in walk.seen
<1>1. walk \in WalkRecord /\ k \in Keys /\ walk.todo = {} /\ Walking
  BY DEF WalkInv, LibraryTypes, History, RecordInv, Ended, Walking
<1>2. \/ k \in walk.seen
      \/ Place[k] < walk.cursor /\ (walk.final => hist.disturbed /\ walk.seen = {})
  BY <1>1 DEF WalkInv, SweepInv
<1> SUFFICES ASSUME Place[k] < walk.cursor, ~walk.final PROVE FALSE
  BY <1>2
<1>3. /\ ~walk.all
      /\ \/ walk.heldFrom = 0 /\ walk.cursor < walk.since + Drift
         \/ walk.heldFrom # 0 /\ walk.cursor <= walk.heldFrom + Drift
  BY DEF WalkInv, StopInv
<1>4. /\ walk.cursor \in Nat /\ walk.since \in Nat /\ walk.heldFrom \in Nat
      /\ Drift \in Nat /\ BoundaryWobble \in Nat /\ 2 * Drift < BoundaryWobble
  BY <1>1, TimelineOrder DEF WalkRecord
<1>5. Place[k] \in Nat /\ Captured[k] \in Nat /\ Captured[k] <= Place[k] + Drift
  BY <1>1, <1>3, Places
<1> QED BY <1>3, <1>4, <1>5

(* The reconciliation writes off no photo there all the while. *)
LEMMA DeparturesWereAbsent ==
    ASSUME WalkInv, Ended, walk.seen # {}, NEW k \in Departures
    PROVE  k \in hist.absent
<1>1. /\ walk \in WalkRecord /\ k \in walk.held \ walk.seen /\ Reconcilable(Captured[k], VouchedFrom)
      /\ hist.present = Keys \ hist.absent
  BY DEF WalkInv, LibraryTypes, Departures, WatchedInv, Walking, Ended
<1>2. /\ k \in Keys /\ walk.since \in Nat /\ walk.heldFrom \in Nat /\ Captured[k] \in Nat
      /\ BoundaryWobble \in Nat /\ BoundaryWobble # 0
  BY <1>1, Places, TimelineOrder DEF WalkRecord
<1> SUFFICES ASSUME k \in hist.present PROVE FALSE
  BY <1>1, <1>2
<1>3. walk.heldFrom # 0 => ~walk.all
  BY DEF WalkInv, StopInv
<1>4. walk.heldFrom = 0 => VouchedFrom = IF walk.all THEN walk.since ELSE walk.since + BoundaryWobble
  BY DEF VouchedFrom, ReconcilableFrom
<1>5. walk.heldFrom # 0 =>
        VouchedFrom >= walk.since + BoundaryWobble /\ VouchedFrom >= walk.heldFrom + BoundaryWobble
  BY <1>2, <1>3 DEF VouchedFrom, ReconcilableFrom, Later
<1>6. VouchedFrom \in Nat
  BY <1>2 DEF VouchedFrom, ReconcilableFrom, Later
<1>7. VouchedFrom = 0 \/ (Captured[k] # 0 /\ Captured[k] >= VouchedFrom)
  BY <1>1 DEF Reconcilable
<1>8. ~OlderThan(k, walk.since)
  BY <1>2, <1>4, <1>5, <1>6, <1>7 DEF OlderThan
<1>9. /\ ~walk.all => Captured[k] # 0
      /\ ~walk.all /\ walk.heldFrom = 0 => Captured[k] >= walk.since + BoundaryWobble
      /\ walk.heldFrom # 0 => Captured[k] >= walk.heldFrom + BoundaryWobble
  <2>1. CASE walk.heldFrom = 0
    BY <1>2, <1>4, <1>6, <1>7, <2>1
  <2>2. CASE walk.heldFrom # 0
    BY <1>2, <1>5, <1>6, <1>7, <2>2
  <2> QED BY <2>1, <2>2
<1>10. k \in walk.seen
  BY <1>8, <1>9, Vouched
<1> QED BY <1>1, <1>10

LEMMA NextWrittenOff == LibraryTypes /\ RecordInv /\ WrittenOffInv /\ [LibraryNext]_vars => WrittenOffInv'
<1> SUFFICES ASSUME LibraryTypes, RecordInv, WrittenOffInv, [LibraryNext]_vars PROVE WrittenOffInv'
  OBVIOUS
<1>0. ASSUME UNCHANGED <<walk, gone>> PROVE WrittenOffInv'
  <2>1. (Departures)' = Departures
    BY <1>0 DEF Departures, VouchedFrom
  <2> QED BY <1>0, <2>1 DEF WrittenOffInv
<1>1. CASE StartWalk
  BY <1>1, StartFields DEF WrittenOffInv
<1>2. CASE Timeline /\ ServesNothing
  BY <1>2, NothingFields DEF WrittenOffInv
<1>3. ASSUME NEW p \in NextPages, Timeline, ServesPage(p) PROVE WrittenOffInv'
  BY <1>3, PageFields DEF WrittenOffInv
<1>4. CASE RecordItem
  <2>1. PICK k \in walk.todo : Records(k)
    BY <1>4, RecordFields
  <2> QED BY <2>1 DEF Records, WrittenOffInv
<1>5. CASE PageRead
  BY <1>5, PageReadFields DEF WrittenOffInv
<1>6. CASE ReconcileLibrary
  BY <1>6, ReconcileFields, Zenon DEF WrittenOffInv
<1>7. CASE MarkLibraryWalkedInFull
  BY <1>7, MarkFields DEF WrittenOffInv
<1>8. CASE CutShort
  BY <1>8, CutFields DEF WrittenOffInv
<1>9. ASSUME NEW to \in Instructions, SetLibrary(to) PROVE WrittenOffInv'
  BY <1>0, <1>9, SetFields
<1>10. CASE WeekPasses
  BY <1>0, <1>10 DEF WeekPasses
<1>11. ASSUME NEW k \in Keys, GoogleGains(k) PROVE WrittenOffInv'
  BY <1>0, <1>11, GainsFields
<1>12. ASSUME NEW k \in Keys, GoogleLoses(k) PROVE WrittenOffInv'
  BY <1>0, <1>12, LosesFields
<1>13. CASE UNCHANGED vars
  BY <1>0, <1>13 DEF vars
<1> QED BY <1>1, <1>2, <1>3, <1>4, <1>5, <1>6, <1>7, <1>8, <1>9, <1>10, <1>11, <1>12, <1>13, EveryStep, Zenon

LEMMA WalkInvariant == LibrarySpec => []WalkInv
<1>1. LibraryInit => WalkInv
  BY InitTypes DEF LibraryInit, WalkInv, NoWalk, WatchedInv, RecordInv, SweepInv, StopInv, WrittenOffInv, Walking, Ended
<1>2. WalkInv /\ [LibraryNext]_vars => WalkInv'
  BY NextTypes, NextWatched, NextRecord, NextSweep, NextStop, NextWrittenOff, Zenon DEF WalkInv
<1> QED BY <1>1, <1>2, PTL DEF LibrarySpec

(* A walk writes off no photo that was on Google all the while, however it
   ended and whatever changed under it: ReconcileLibrary. *)
THEOREM WriteOffSafety == LibrarySpec => WriteOffsAreTrue
<1>1. WalkInv /\ [LibraryNext]_vars => [\A k \in gone' \ gone : k \in hist.absent]_vars
  <2> SUFFICES ASSUME WalkInv, [LibraryNext]_vars, NEW k \in gone' \ gone PROVE k \in hist.absent
    BY Zenon
  <2> LibraryTypes
    BY DEF WalkInv
  <2>1. CASE ReconcileLibrary
    <3>1. walk.seen # {} /\ k \in Departures /\ Ended
      BY <2>1, ReconcileFields DEF Ended
    <3> QED BY <3>1, DeparturesWereAbsent
  <2>2. ASSUME ~ReconcileLibrary PROVE gone' \subseteq gone
    <3>1. CASE RecordItem
      <4>1. PICK j \in walk.todo : Records(j)
        BY <3>1, RecordFields
      <4> QED BY <4>1 DEF Records
    <3>2. CASE StartWalk \/ CutShort
      BY <3>2, StartFields, CutFields
    <3>3. CASE Timeline
      BY <3>3, TimelineServes
    <3>4. CASE PageRead \/ MarkLibraryWalkedInFull
      BY <3>4, PageReadFields, MarkFields
    <3>5. ASSUME NEW to \in Instructions, SetLibrary(to) PROVE gone' \subseteq gone
      BY <3>5, SetFields
    <3>6. CASE WeekPasses
      BY <3>6 DEF WeekPasses
    <3>7. ASSUME NEW j \in Keys, GoogleGains(j) \/ GoogleLoses(j) PROVE gone' \subseteq gone
      BY <3>7, GainsFields, LosesFields
    <3>8. CASE UNCHANGED vars
      BY <3>8 DEF vars
    <3> QED BY <2>2, <3>1, <3>2, <3>3, <3>4, <3>5, <3>6, <3>7, <3>8, EveryStep, Zenon
  <2> QED BY <2>1, <2>2
<1> QED BY <1>1, WalkInvariant, PTL DEF LibrarySpec, WriteOffsAreTrue

(* A walk of the whole timeline that listed something writes off every photo
   it held that was gone and was taken clear of the date: ReconcilableFrom. *)
THEOREM DeletionSafety == LibrarySpec => DeletionsAreNoticed
<1>1. ASSUME WalkInv, walk.pc = "mark", walk.heldFrom = 0, walk.seen # {}, NEW k \in walk.held \ walk.seen,
             Captured[k] # 0, Captured[k] >= walk.since + BoundaryWobble
      PROVE  k \in gone
  <2>1. k \in Keys /\ Captured[k] \in Nat /\ walk.since \in Nat /\ BoundaryWobble \in Nat
    BY <1>1, Places, TimelineOrder DEF WalkInv, LibraryTypes, WalkRecord
  <2>2. VouchedFrom = IF walk.all THEN walk.since ELSE walk.since + BoundaryWobble
    BY <1>1 DEF VouchedFrom, ReconcilableFrom
  <2>3. Reconcilable(Captured[k], VouchedFrom)
    BY <1>1, <2>1, <2>2 DEF Reconcilable
  <2>4. k \in Departures
    BY <1>1, <2>3 DEF Departures
  <2> QED BY <1>1, <2>4 DEF WalkInv, WrittenOffInv
<1>2. WalkInv =>
        (Completes /\ walk.heldFrom = 0 /\ walk.seen # {} =>
           \A k \in walk.held \ google :
             k \in hist.absent /\ Captured[k] # 0 /\ Captured[k] >= walk.since + BoundaryWobble
             => k \in gone \/ k \in walk.seen)
  BY <1>1 DEF Completes
<1> QED BY <1>2, WalkInvariant, PTL DEF DeletionsAreNoticed

-----------------------------------------------------------------------------
(* New photos. *)

(* What Google gains spoils no ground: an upload below others is buried, and
   so is what a restored photo of ours covers. *)
LEMMA GainsSpoilNoGround ==
    ASSUME LibraryTypes, NEW k \in Keys, GoogleGains(k),
           NEW some, some \subseteq InHand, NEW since, NEW found, members \subseteq found,
           NoneMissed(google, hist.buried, some, since, found)
    PROVE  NoneMissed(google', hist'.buried, some, since, found)
<1> SUFFICES ASSUME NEW m \in some \intersect google', NEW j \in google' \ hist'.buried,
                    Clear(j, since), Place[j] < Place[m]
             PROVE  j \in found
  BY DEF NoneMissed
<1>1. /\ k \notin google /\ google' = google \union {k} /\ google \in SUBSET Keys
      /\ hist'.buried \ {k} = (hist.buried \ {k}) \union
            (IF k \in InHand THEN {i \in google \ members : Place[i] < Place[k]} ELSE {})
      /\ (\E i \in google : Place[i] > Place[k]) => k \in hist'.buried
  BY GainsFields DEF LibraryTypes
<1>2. j # m /\ j \in Keys /\ m \in Keys
  BY <1>1, Places
<1>3. CASE m = k
  <2>1. j \in google /\ j \notin {i \in google \ members : Place[i] < Place[k]}
    BY <1>1, <1>2, <1>3
  <2> QED BY <1>3, <2>1
<1>4. CASE m # k /\ j = k
  BY <1>1, <1>4
<1>5. CASE m # k /\ j # k
  <2>1. m \in google /\ j \in google \ hist.buried
    BY <1>1, <1>5
  <2> QED BY <2>1 DEF NoneMissed
<1> QED BY <1>3, <1>4, <1>5

(* A step of the user, of Google or of time. *)
KeepsGround ==
    \A some, since, found :
        some \subseteq InHand /\ members \subseteq found /\ NoneMissed(google, hist.buried, some, since, found)
        => NoneMissed(google', hist'.buried, some, since, found)

LEMMA OutsideKeepsGround ==
    ASSUME LibraryTypes, RecordInv, WatchedInv, GroundInv, KeepsGround, UNCHANGED <<walk, members>>,
           Walking => /\ hist'.present \subseteq hist.present
                      /\ hist'.present \ hist'.buried \subseteq hist.present \ hist.buried,
           ~hist'.disturbed => ~hist.disturbed,
           Walking /\ ~hist'.disturbed => library'.since = library.since,
           ~Walking /\ full' # "never" => full # "never" /\ library'.since = library.since
    PROVE  GroundInv'
<1>1. InHand' = InHand /\ Before' = Before /\ StopsHere' = StopsHere /\ Walking' = Walking /\ Ended' = Ended
  BY DEF InHand, Before, StopsHere, Walking, Ended
<1>2. members \subseteq InHand /\ walk.held \subseteq InHand
  BY DEF InHand, RecordInv
<1>3. RestInv'
  <2> SUFFICES ASSUME ~Walking, ~hist'.disturbed, full' # "never"
               PROVE  NoneMissed(google', hist'.buried, members, library.since, members)
    BY <1>1, Zenon DEF RestInv, Undisturbed, NoneMissedNow
  <2>1. NoneMissed(google, hist.buried, members, library.since, members)
    BY DEF GroundInv, RestInv, Undisturbed, NoneMissedNow
  <2> QED BY <1>2, <2>1, Zenon DEF KeepsGround
<1>4. StartInv'
  <2> SUFFICES ASSUME Walking, ~hist'.disturbed
               PROVE  /\ walk.since = library'.since
                      /\ walk.newOnly => NoneMissed(google', hist'.buried, walk.held, walk.since, members)
    BY <1>1, Zenon DEF StartInv, Undisturbed, NoneMissedNow
  <2>1. walk.newOnly => NoneMissed(google, hist.buried, walk.held, walk.since, members)
    BY DEF GroundInv, StartInv, Undisturbed, NoneMissedNow
  <2>2. walk.since = library'.since
    BY DEF GroundInv, StartInv, Undisturbed
  <2> QED BY <1>2, <2>1, <2>2, Zenon DEF KeepsGround
<1>5. AheadInv'
  <2> SUFFICES ASSUME walk.pc \in {"ask", "record"}
               PROVE  NoneMissed(google', hist'.buried, InHand, walk.since, InHand \union Before)
    BY <1>1, Zenon DEF AheadInv, NoneMissedNow
  <2>1. NoneMissed(google, hist.buried, InHand, walk.since, InHand \union Before)
    BY DEF GroundInv, AheadInv, NoneMissedNow
  <2>2. InHand \subseteq InHand /\ members \subseteq InHand \union Before
    BY <1>2
  <2> QED BY <2>1, <2>2, Zenon DEF KeepsGround
<1>6. PageInv'
  <2> SUFFICES ASSUME walk.pc = "record", ~hist'.disturbed
               PROVE  /\ walk.final \/ StopsHere =>
                           NoneMissed(google', hist'.buried, InHand, walk.since, members \union (Keys \ Before))
                      /\ StopsHere => \A k \in (hist'.present \ hist'.buried) \intersect Before :
                                          Clear(k, walk.since) => k \in members
    BY <1>1, Zenon DEF PageInv, NoneMissedNow, Undisturbed, Clear
  <2>1. /\ walk.final \/ StopsHere =>
              NoneMissed(google, hist.buried, InHand, walk.since, members \union (Keys \ Before))
        /\ StopsHere => \A k \in (hist.present \ hist.buried) \intersect Before : Clear(k, walk.since) => k \in members
    BY Zenon DEF GroundInv, PageInv, NoneMissedNow, Undisturbed
  <2>2. InHand \subseteq InHand /\ members \subseteq members \union (Keys \ Before)
    OBVIOUS
  <2>3. walk.final \/ StopsHere =>
           NoneMissed(google', hist'.buried, InHand, walk.since, members \union (Keys \ Before))
    BY <2>1, <2>2, Zenon DEF KeepsGround
  <2>4. StopsHere => \A k \in (hist'.present \ hist'.buried) \intersect Before : Clear(k, walk.since) => k \in members
    BY <2>1 DEF Walking
  <2> QED BY <2>3, <2>4
<1>7. EndInv'
  <2> SUFFICES ASSUME Ended, ~hist'.disturbed
               PROVE  NoneMissed(google', hist'.buried, members, walk.since, members) /\ WithinReach' \subseteq members
    BY <1>1, Zenon DEF EndInv, NoneMissedNow, Undisturbed
  <2>1. NoneMissed(google, hist.buried, members, walk.since, members) /\ WithinReach \subseteq members
    BY DEF GroundInv, EndInv, NoneMissedNow, Undisturbed
  <2>2. NoneMissed(google', hist'.buried, members, walk.since, members)
    BY <1>2, <2>1, Zenon DEF KeepsGround
  <2>3. WithinReach' \subseteq WithinReach
    BY DEF WithinReach, Ended, Walking
  <2> QED BY <2>1, <2>2, <2>3
<1> QED BY <1>3, <1>4, <1>5, <1>6, <1>7 DEF GroundInv

LEMMA StartKeepsGround == ASSUME LibraryTypes, GroundInv, StartWalk PROVE GroundInv'
<1>1. /\ walk.pc = "idle" /\ walk'.pc = "ask" /\ walk'.cursor = Top
      /\ walk'.held = members /\ walk'.since = library.since /\ (walk'.newOnly <=> WalksNewOnly)
      /\ hist'.buried = hist.buried /\ (hist'.disturbed <=> hist.disturbed /\ WalksNewOnly)
      /\ UNCHANGED <<google, members, library, full>>
  BY StartFields
<1>2. RestInv' /\ PageInv' /\ EndInv'
  BY <1>1 DEF RestInv, PageInv, EndInv, Walking, Ended
<1>3. StartInv'
  <2> SUFFICES ASSUME ~hist'.disturbed
               PROVE  walk'.newOnly => NoneMissed(google, hist.buried, members, library.since, members)
    BY <1>1, Zenon DEF StartInv, NoneMissedNow, Undisturbed
  <2>1. ~Walking /\ (WalksNewOnly => full # "never" /\ ~hist.disturbed)
    BY <1>1 DEF WalksNewOnly, Walking
  <2> QED BY <1>1, <2>1, Zenon DEF GroundInv, RestInv, NoneMissedNow, Undisturbed
<1>4. AheadInv'
  <2>1. Before' = Keys /\ google \subseteq Keys
    BY <1>1, TopIsAbove DEF Before, LibraryTypes
  <2> QED BY <1>1, <2>1 DEF AheadInv, NoneMissedNow, NoneMissed
<1> QED BY <1>2, <1>3, <1>4 DEF GroundInv

LEMMA NothingKeepsGround ==
    ASSUME LibraryTypes, RecordInv, GroundInv, Timeline, ServesNothing PROVE GroundInv'
<1>1. /\ walk.pc = "ask" /\ walk'.pc = "record" /\ walk'.todo = walk.todo /\ walk'.cursor = walk.cursor
      /\ walk'.since = walk.since /\ hist'.disturbed /\ hist'.buried = hist.buried
      /\ UNCHANGED <<google, members>>
  BY TimelineServes, NothingFields
<1>2. RestInv' /\ StartInv' /\ PageInv' /\ EndInv'
  BY <1>1 DEF RestInv, StartInv, PageInv, EndInv, Undisturbed
<1>3. AheadInv'
  <2>1. InHand' = InHand /\ Before' = Before
    BY <1>1 DEF InHand, Before
  <2> QED BY <1>1, <2>1, Zenon DEF GroundInv, AheadInv, NoneMissedNow
<1> QED BY <1>2, <1>3 DEF GroundInv

LEMMA PageKeepsGround ==
    ASSUME LibraryTypes, RecordInv, WatchedInv, GroundInv, NEW p \in NextPages, Timeline, ServesPage(p)
    PROVE  GroundInv'
<1>1. /\ walk.pc = "ask" /\ walk.todo = {} /\ hist.present \subseteq google /\ walk.held \subseteq members
      /\ UNCHANGED <<google, members, library, full>>
  BY TimelineServes DEF RecordInv, WatchedInv, Walking
<1>2. /\ walk'.pc = "record" /\ walk'.page = p /\ walk'.todo = p /\ (walk'.final <=> p = Rest)
      /\ walk'.cursor = (IF p = {} THEN walk.cursor ELSE Place[LastOf(p)])
      /\ walk'.held = walk.held /\ walk'.since = walk.since /\ walk'.newOnly = walk.newOnly /\ hist' = hist
  BY PageFields
<1>3. /\ p \in SUBSET Keys /\ p \subseteq google /\ google \in SUBSET Keys
      /\ \A j \in p : Place[j] < walk.cursor
      /\ \A j \in p, k \in Rest \ p : Place[j] > Place[k]
  BY PageFields DEF Rest, LibraryTypes
<1>4. p # {} => LastOf(p) \in p /\ \A j \in p : Place[LastOf(p)] <= Place[j]
  BY <1>3, LastOnThePage
<1>5. walk.cursor \in Nat /\ \A k \in Keys : Place[k] \in Nat
  BY Places DEF LibraryTypes, WalkRecord
<1>6. RestInv' /\ EndInv'
  BY <1>2 DEF RestInv, EndInv, Walking, Ended
<1>7. StartInv'
  BY <1>1, <1>2, Zenon DEF GroundInv, StartInv, Walking, Undisturbed, NoneMissedNow
<1>8. AheadInv'
  <2> SUFFICES ASSUME NEW m \in (members \union p) \intersect google, NEW k \in google \ hist.buried,
                      Clear(k, walk.since), Place[k] < Place[m], k \notin members, k \notin p
               PROVE  Place[k] < walk'.cursor
    BY <1>1, <1>2, <1>3 DEF AheadInv, NoneMissedNow, NoneMissed, InHand, Before
  <2>1. Place[k] < walk.cursor
    <3>1. CASE m \in p
      BY <1>3, <1>5, <3>1
    <3>2. CASE m \in members
      <4>1. k \in InHand \union Before
        BY <1>1, <3>2 DEF GroundInv, AheadInv, NoneMissedNow, NoneMissed, InHand
      <4> QED BY <1>1, <4>1 DEF InHand, Before
    <3> QED BY <3>1, <3>2
  <2>2. k \in Rest \ p
    BY <2>1 DEF Rest
  <2> QED BY <1>2, <1>3, <1>4, <2>1, <2>2
<1>9. PageInv'
  <2> SUFFICES ASSUME ~hist.disturbed
               PROVE  /\ walk'.final \/ StopsHere' =>
                           NoneMissed(google, hist.buried, InHand', walk.since, members \union (Keys \ Before'))
                      /\ StopsHere' => \A k \in (hist.present \ hist.buried) \intersect Before' :
                                          Clear(k, walk.since) => k \in members
    BY <1>1, <1>2, Zenon DEF PageInv, NoneMissedNow, Undisturbed, Clear
  <2>1. ASSUME walk'.final, NEW k \in google, k \in Before' PROVE FALSE
    <3>1. Place[k] < walk.cursor
      BY <1>2, <1>3, <1>4, <1>5, <2>1 DEF Before
    <3>2. k \in p /\ p = Rest
      BY <1>2, <2>1, <3>1 DEF Rest
    <3> QED BY <1>2, <1>3, <1>4, <1>5, <2>1, <3>2 DEF Before
  <2>2. ASSUME StopsHere', NEW k \in google \ hist.buried, k \in Before', Clear(k, walk.since)
        PROVE  k \in members
    <3>1. p # {} /\ p \subseteq walk.held /\ walk.newOnly /\ Place[k] < Place[LastOf(p)]
      BY <1>2, <2>2 DEF StopsHere, Before
    <3>2. LastOf(p) \in walk.held \intersect google
      BY <1>3, <1>4, <3>1
    <3>3. NoneMissed(google, hist.buried, walk.held, walk.since, members)
      BY <1>1, <3>1 DEF GroundInv, StartInv, Walking, Undisturbed, NoneMissedNow
    <3> QED BY <2>2, <3>1, <3>2, <3>3 DEF NoneMissed
  <2> QED BY <1>1, <1>3, <2>1, <2>2 DEF NoneMissed
<1> QED BY <1>6, <1>7, <1>8, <1>9 DEF GroundInv

LEMMA RecordKeepsGround ==
    ASSUME LibraryTypes, RecordInv, GroundInv, RecordItem PROVE GroundInv'
<1>1. PICK r \in walk.todo : Records(r)
  BY RecordFields
<1>2. /\ walk.pc = "record" /\ members' = members \union Listed(r) /\ walk'.todo = walk.todo \ {r}
      /\ walk'.pc = walk.pc /\ walk'.page = walk.page /\ walk'.final = walk.final
      /\ walk'.cursor = walk.cursor /\ walk'.held = walk.held /\ walk'.since = walk.since
      /\ walk'.newOnly = walk.newOnly
      /\ UNCHANGED <<google, library, full, hist>>
  BY <1>1 DEF Records
<1>3. r \in Keys /\ walk.since \in Nat /\ BoundaryWobble \in Nat
  BY <1>1, TimelineOrder DEF LibraryTypes, WalkRecord
<1>4. /\ members \subseteq members' /\ InHand' \subseteq InHand
      /\ Before' = Before /\ StopsHere' = StopsHere
      /\ Listed(r) = {} => ~Clear(r, walk.since)
  <2>1. members \subseteq members' /\ InHand' \subseteq InHand
    BY <1>1, <1>2 DEF InHand, Listed
  <2>2. Before' = Before /\ StopsHere' = StopsHere
    BY <1>2 DEF Before, StopsHere
  <2>3. Listed(r) = {} => ~Clear(r, walk.since)
    BY <1>3, Places DEF Listed, OlderThan, Clear
  <2> QED BY <2>1, <2>2, <2>3
<1>5. RestInv' /\ EndInv'
  BY <1>2 DEF RestInv, EndInv, Walking, Ended
<1>6. StartInv'
  <2>1. NoneMissed(google, hist.buried, walk.held, walk.since, members) =>
          NoneMissed(google, hist.buried, walk.held, walk.since, members')
    BY <1>4 DEF NoneMissed
  <2> QED BY <1>2, <2>1, Zenon DEF GroundInv, StartInv, Walking, Undisturbed, NoneMissedNow
<1>7. AheadInv'
  <2>1. \A k \in InHand \union Before : k \in InHand' \union Before \/ ~Clear(k, walk.since)
    BY <1>1, <1>2, <1>4 DEF InHand, Listed
  <2>2. NoneMissed(google, hist.buried, InHand, walk.since, InHand \union Before)
    BY <1>2 DEF GroundInv, AheadInv, NoneMissedNow
  <2>3. NoneMissed(google, hist.buried, InHand', walk.since, InHand' \union Before)
    BY <1>4, <2>1, <2>2 DEF NoneMissed
  <2> QED BY <1>2, <1>4, <2>3, Zenon DEF AheadInv, NoneMissedNow
<1>8. PageInv'
  <2>1. NoneMissed(google, hist.buried, InHand, walk.since, members \union (Keys \ Before)) =>
          NoneMissed(google, hist.buried, InHand', walk.since, members' \union (Keys \ Before))
    BY <1>4 DEF NoneMissed
  <2>2. (\A k \in (hist.present \ hist.buried) \intersect Before : Clear(k, walk.since) => k \in members) =>
          \A k \in (hist.present \ hist.buried) \intersect Before : Clear(k, walk.since) => k \in members'
    BY <1>4
  <2> QED BY <1>2, <1>4, <2>1, <2>2, Zenon DEF GroundInv, PageInv, NoneMissedNow, Undisturbed, Clear
<1> QED BY <1>5, <1>6, <1>7, <1>8 DEF GroundInv

LEMMA PageReadKeepsGround ==
    ASSUME LibraryTypes, RecordInv, WatchedInv, SweepInv, GroundInv, StopInv', PageRead PROVE GroundInv'
<1>1. /\ walk.pc = "record" /\ walk.todo = {} /\ ~walk.all /\ walk.heldFrom = 0 /\ walk'.todo = {}
      /\ walk'.page = walk.page /\ walk'.final = walk.final /\ walk'.cursor = walk.cursor
      /\ walk'.seen = walk.seen /\ walk'.held = walk.held /\ walk'.since = walk.since
      /\ walk'.newOnly = walk.newOnly /\ walk'.pc \in {"ask", "reconcile"}
      /\ UNCHANGED <<google, members, library, full, hist>>
  BY PageReadFields DEF RecordInv
<1>2. InHand = members /\ InHand' = members /\ Before' = Before
  BY <1>1 DEF InHand, Before
<1>3. RestInv' /\ PageInv'
  BY <1>1 DEF RestInv, PageInv, Walking
<1>4. StartInv'
  BY <1>1, Zenon DEF GroundInv, StartInv, Walking, Undisturbed, NoneMissedNow
<1>5. AheadInv'
  BY <1>1, <1>2, Zenon DEF GroundInv, AheadInv, NoneMissedNow
<1>6. EndInv'
  <2> SUFFICES ASSUME walk'.pc = "reconcile", ~hist.disturbed
               PROVE  NoneMissed(google, hist.buried, members, walk.since, members) /\ WithinReach' \subseteq members
    BY <1>1, Zenon DEF EndInv, NoneMissedNow, Undisturbed, Ended
  <2>1. NoneMissed(google, hist.buried, members, walk.since, members \union Before)
    BY <1>1, <1>2 DEF GroundInv, AheadInv, NoneMissedNow
  <2>2. \A k \in WithinReach' : k \in hist.present /\ Clear(k, walk.since) /\ (walk'.heldFrom # 0 => k \notin hist.buried)
    BY <1>1 DEF WithinReach, Clear
  <2>3. /\ walk.seen \subseteq members /\ hist.present \subseteq google /\ google \subseteq Keys
        /\ walk.since \in Nat /\ walk.cursor \in Nat /\ BoundaryWobble \in Nat /\ Drift \in Nat
        /\ 2 * Drift < BoundaryWobble
    BY <1>1, TimelineOrder DEF RecordInv, WatchedInv, Walking, LibraryTypes, WalkRecord
  <2>4. ASSUME NEW k \in hist.present, Clear(k, walk.since), k \notin members
        PROVE  Place[k] < walk.cursor /\ ~walk.final
    <3>1. ~OlderThan(k, walk.since)
      BY <2>3, <2>4, Places DEF OlderThan, Clear
    <3> QED BY <1>1, <2>3, <2>4, <3>1 DEF SweepInv, Walking
  <2>5. CASE walk.final
    <3>1. NoneMissed(google, hist.buried, members, walk.since, members \union (Keys \ Before))
      BY <1>1, <1>2, <2>5 DEF GroundInv, PageInv, NoneMissedNow, Undisturbed
    <3>2. NoneMissed(google, hist.buried, members, walk.since, members)
      BY <2>1, <3>1 DEF NoneMissed
    <3>3. WithinReach' \subseteq members
      BY <2>2, <2>4, <2>5
    <3> QED BY <3>2, <3>3
  <2>6. CASE ~walk.final /\ walk'.heldFrom = 0
    <3>1. walk.cursor < walk.since + Drift
      BY <1>1, <2>6, PageReadFields DEF StopInv, Ended
    <3>2. ASSUME NEW k \in Keys, Clear(k, walk.since) PROVE ~(Place[k] < walk.cursor)
      BY <2>3, <3>1, <3>2, Places DEF Clear
    <3>3. NoneMissed(google, hist.buried, members, walk.since, members)
      BY <2>1, <2>3, <3>2 DEF NoneMissed, Before
    <3>4. WithinReach' \subseteq members
      BY <2>2, <2>3, <2>4, <3>2
    <3> QED BY <3>3, <3>4
  <2>7. CASE ~walk.final /\ walk'.heldFrom # 0
    <3>1. walk.newOnly /\ KnownGround(walk.page, walk.held) # 0
      BY <1>1, <2>7, PageReadFields
    <3>2. StopsHere
      <4>1. walk.page \in SUBSET Keys /\ walk.held \in SUBSET Keys
        BY DEF LibraryTypes, WalkRecord
      <4> QED BY <3>1, <4>1, KnownGroundFacts DEF StopsHere
    <3>3. NoneMissed(google, hist.buried, members, walk.since, members \union (Keys \ Before))
      BY <1>1, <1>2, <3>2 DEF GroundInv, PageInv, NoneMissedNow, Undisturbed
    <3>4. \A k \in (hist.present \ hist.buried) \intersect Before : Clear(k, walk.since) => k \in members
      BY <1>1, <3>2 DEF GroundInv, PageInv, Undisturbed
    <3>5. NoneMissed(google, hist.buried, members, walk.since, members)
      BY <2>1, <3>3 DEF NoneMissed
    <3>6. WithinReach' \subseteq members
      BY <2>2, <2>3, <2>4, <2>7, <3>4 DEF Before
    <3> QED BY <3>5, <3>6
  <2> QED BY <2>5, <2>6, <2>7
<1> QED BY <1>3, <1>4, <1>5, <1>6 DEF GroundInv

LEMMA ReconcileKeepsGround ==
    ASSUME LibraryTypes, GroundInv, ReconcileLibrary PROVE GroundInv'
<1>1. /\ walk.pc = "reconcile" /\ walk'.pc = "mark" /\ walk'.held = walk.held
      /\ walk'.since = walk.since /\ walk'.newOnly = walk.newOnly /\ walk'.heldFrom = walk.heldFrom
      /\ UNCHANGED <<google, members, library, full, hist>>
  BY ReconcileFields
<1>2. RestInv' /\ AheadInv' /\ PageInv'
  BY <1>1 DEF RestInv, AheadInv, PageInv, Walking
<1>3. StartInv'
  BY <1>1, Zenon DEF GroundInv, StartInv, Walking, Undisturbed, NoneMissedNow
<1>4. EndInv'
  <2>1. WithinReach' = WithinReach
    BY <1>1 DEF WithinReach
  <2>2. Ended
    BY <1>1 DEF Ended
  <2> QED BY <1>1, <2>1, <2>2, Zenon DEF GroundInv, EndInv, Undisturbed, NoneMissedNow
<1> QED BY <1>2, <1>3, <1>4 DEF GroundInv

LEMMA NextGround ==
    LibraryTypes /\ RecordInv /\ WatchedInv /\ SweepInv /\ StopInv /\ GroundInv /\ [LibraryNext]_vars => GroundInv'
<1> SUFFICES ASSUME LibraryTypes, RecordInv, WatchedInv, SweepInv, StopInv, GroundInv, [LibraryNext]_vars
             PROVE  GroundInv'
  OBVIOUS
<1>5. CASE PageRead
  BY <1>5, NextStop, PageReadKeepsGround
<1>7. CASE MarkLibraryWalkedInFull
  <2>1. walk.pc = "mark" /\ walk'.pc = "idle" /\ UNCHANGED <<google, members, library, hist>>
    BY <1>7, MarkFields
  <2>2. StartInv' /\ AheadInv' /\ PageInv' /\ EndInv'
    BY <2>1 DEF StartInv, AheadInv, PageInv, EndInv, Walking, Ended
  <2>3. Walking /\ Ended
    BY <2>1 DEF Walking, Ended
  <2>4. RestInv'
    BY <2>1, <2>3, Zenon DEF RestInv, GroundInv, StartInv, EndInv, Undisturbed, NoneMissedNow
  <2> QED BY <2>2, <2>4 DEF GroundInv
<1>8. CASE CutShort
  BY <1>8, CutFields DEF GroundInv, RestInv, StartInv, AheadInv, PageInv, EndInv, Walking, Ended, Undisturbed
<1>9. ASSUME NEW to \in Instructions, SetLibrary(to) PROVE GroundInv'
  <2>1. /\ library' = to
        /\ (full' = full /\ to.since = library.since) \/ full' = "never"
        /\ hist'.present = hist.present /\ hist'.buried = hist.buried
        /\ (hist'.disturbed <=> hist.disturbed \/ Walking)
        /\ UNCHANGED <<google, members, walk>>
    BY <1>9, SetFields
  <2>2. KeepsGround
    BY <2>1, Zenon DEF KeepsGround
  <2> QED BY <2>1, <2>2, OutsideKeepsGround
<1>10. CASE WeekPasses
  <2>1. full = "recent" /\ UNCHANGED <<google, members, library, walk, hist>>
    BY <1>10 DEF WeekPasses
  <2>2. KeepsGround
    BY <2>1, Zenon DEF KeepsGround
  <2> QED BY <2>1, <2>2, OutsideKeepsGround
<1>11. ASSUME NEW k \in Keys, GoogleGains(k) PROVE GroundInv'
  <2>1. /\ k \notin google /\ hist'.present = hist.present /\ hist.buried \ {k} \subseteq hist'.buried
        /\ (hist'.disturbed <=> hist.disturbed) /\ UNCHANGED <<members, library, full, walk>>
    BY <1>11, GainsFields
  <2>2. KeepsGround
    BY <1>11, GainsSpoilNoGround DEF KeepsGround
  <2>3. Walking => k \notin hist.present
    BY <2>1 DEF WatchedInv
  <2> QED BY <2>1, <2>2, <2>3, OutsideKeepsGround
<1>12. ASSUME NEW k \in Keys, GoogleLoses(k) PROVE GroundInv'
  <2>1. /\ google' = google \ {k} /\ hist'.present = hist.present \ {k} /\ hist'.buried = hist.buried
        /\ (hist'.disturbed <=> hist.disturbed) /\ UNCHANGED <<members, library, full, walk>>
    BY <1>12, LosesFields
  <2>2. KeepsGround
    BY <2>1 DEF KeepsGround, NoneMissed
  <2> QED BY <2>1, <2>2, OutsideKeepsGround
<1>13. CASE UNCHANGED vars
  <2>1. KeepsGround /\ UNCHANGED <<google, members, library, full, walk, hist>>
    BY <1>13, Zenon DEF KeepsGround, vars
  <2> QED BY <2>1, OutsideKeepsGround
<1> QED BY <1>5, <1>7, <1>8, <1>9, <1>10, <1>11, <1>12, <1>13, EveryStep, StartKeepsGround, NothingKeepsGround,
           PageKeepsGround, RecordKeepsGround, ReconcileKeepsGround, Zenon

LEMMA LibraryInvariant == LibrarySpec => []LibraryInv
<1>1. LibraryInit => GroundInv
  BY DEF LibraryInit, GroundInv, NoWalk, RestInv, StartInv, AheadInv, PageInv, EndInv, Walking, Ended
<1>2. WalkInv /\ GroundInv /\ [LibraryNext]_vars => GroundInv'
  BY NextGround, Zenon DEF WalkInv
<1> QED BY <1>1, <1>2, WalkInvariant, PTL DEF LibrarySpec, LibraryInv

(* Walks that look only for what is new find every new photo taken clear of
   the date, though they stop at photos they hold, as long as nothing cut
   one short or answered it with nothing: KnownGround. *)
THEOREM NewPhotoSafety == LibrarySpec => NewPhotosAreFound
<1>1. LibraryInv => (Completes /\ ~hist.disturbed => WithinReach \subseteq members)
  BY DEF LibraryInv, GroundInv, EndInv, Completes, Ended, Undisturbed
<1> QED BY <1>1, LibraryInvariant, PTL DEF NewPhotosAreFound
=============================================================================
