----------------------------- MODULE LibraryWalk -----------------------------
(***************************************************************************)
(* The nightly walk of the whole account (internal/syncer/library.go) and  *)
(* the user's instruction about it (internal/store/albums.go).  Google     *)
(* serves the timeline newest first, a page at a time; the walk may stop   *)
(* at the user's date, or at photos it already holds, and may only write   *)
(* off what it is then sure to have gone past.                             *)
(*                                                                         *)
(* Every key is a photo in no other album, which is what this walk is for: *)
(* a departure is then a write-off, and its membership stays (ItemStore's  *)
(* Reconcile).  Dates are numbers, 0 is the zero time: no date, no bound,  *)
(* never.                                                                  *)
(***************************************************************************)
EXTENDS Integers, FiniteSets

CONSTANTS
    Keys,
    Captured,     \* [Keys -> Nat]: capture date, 0 when Google reports none
    Place,        \* [Keys -> Nat]: where the timeline serves it, highest first
    Drift,        \* how far a place may lie from the date
    BoundaryWobble,
    PageSize,
    Bounds,       \* dates the user may set, 0 for none
    Events,       \* what can happen: subset of EventKinds
    MaxNights,    \* bound: walks
    MaxChanges    \* bound: changes of the timeline and of the instruction

EventKinds == {"newonly", "settings", "midwalk", "cut", "empty", "delete"}

(* Capture times carry the camera's own timezone and Google's order another,
   so they part by less than half of what the code keeps clear. *)
ASSUME TimelineOrder ==
    /\ IsFiniteSet(Keys) /\ Keys # {}
    /\ Captured \in [Keys -> Nat] /\ Place \in [Keys -> Nat \ {0}]
    /\ \A j, k \in Keys : j # k => Place[j] # Place[k]
    /\ Drift \in Nat /\ BoundaryWobble \in Nat /\ 2 * Drift < BoundaryWobble
    /\ \A k \in Keys : Captured[k] # 0 => /\ Place[k] <= Captured[k] + Drift
                                          /\ Captured[k] <= Place[k] + Drift

ASSUME WalkConstants ==
    /\ PageSize \in Nat \ {0} /\ Bounds \subseteq Nat
    /\ Events \subseteq EventKinds /\ MaxNights \in Nat /\ MaxChanges \in Nat

VARIABLES
    google,     \* the keys the account holds
    members,    \* the library's membership
    gone,       \* members written off
    library,    \* the instruction
    full,       \* walked_in_full_at: "never", within the week "recent", else "old"
    walk,       \* the walk under way
    left,       \* what is left of the bounds
    hist        \* history: absent and present since the walk began; arrivals buried below
                \* photos walks know; a walk cut short, answered with nothing or changed
                \* under since a whole one

vars == <<google, members, gone, library, full, walk, left, hist>>

Top == 1 + CHOOSE n \in {Place[k] : k \in Keys} : \A k \in Keys : Place[k] <= n
NoWalk == [pc |-> "idle", cursor |-> 0, page |-> {}, todo |-> {}, final |-> FALSE, seen |-> {}, held |-> {},
           since |-> 0, newOnly |-> FALSE, heldFrom |-> 0, all |-> FALSE]

LibraryInit ==
    /\ google \in SUBSET Keys
    /\ members = {} /\ gone = {}
    /\ library \in [mode : {"all"}, since : Bounds, newOnly : {"newonly" \in Events}, weekly : BOOLEAN]
    /\ full = "never"
    /\ walk = NoWalk
    /\ left = [nights |-> MaxNights, changes |-> MaxChanges]
    /\ hist = [absent |-> {}, present |-> {}, buried |-> {}, disturbed |-> FALSE]

-----------------------------------------------------------------------------
(* The decisions, from library.go. *)

OlderThan(k, since) == since # 0 /\ Captured[k] # 0 /\ Captured[k] < since

WalksNewOnly == library.newOnly /\ full # "never" /\ (library.weekly => full = "recent")

LastOf(page) == CHOOSE k \in page : \A j \in page : Place[k] <= Place[j]

WalkedPastTheBound(page, since) == page # {} /\ OlderThan(LastOf(page), since)

(* The oldest date on a page all of which was held, 0 when it is no ground to
   stop on. *)
KnownGround(page, held) ==
    LET dates == {Captured[k] : k \in page} \ {0}
    IN  IF page \subseteq held /\ dates # {} THEN CHOOSE d \in dates : \A e \in dates : d <= e ELSE 0

Later(a, b) == IF a > b THEN a ELSE b

(* Faulty variant of ReconcilableFrom: believes the walk right down to where it stopped. *)
ReconcilableFromTheStop(since, all) == since

ReconcilableFrom(since, all) == IF all THEN since ELSE since + BoundaryWobble

VouchedFrom ==
    IF walk.heldFrom = 0 THEN ReconcilableFrom(walk.since, walk.all)
    ELSE Later(ReconcilableFrom(walk.since, walk.all), ReconcilableFrom(walk.heldFrom, FALSE))

(* Faulty variant of Reconcilable: the floor itself is left out. *)
ReconcilableAbove(captured, from) == from = 0 \/ (captured # 0 /\ captured > from)

Reconcilable(captured, from) == from = 0 \/ (captured # 0 /\ captured >= from)

Departures == {k \in walk.held \ walk.seen : Reconcilable(Captured[k], VouchedFrom)}

-----------------------------------------------------------------------------
(* listLibrary. *)

StartWalk ==
    /\ walk.pc = "idle" /\ left.nights > 0 /\ library.mode # "none"
    /\ left' = [left EXCEPT !.nights = @ - 1]
    /\ walk' = [NoWalk EXCEPT !.pc = "ask", !.cursor = Top, !.held = members,
                              !.since = library.since, !.newOnly = WalksNewOnly]
    /\ hist' = [hist EXCEPT !.absent = Keys \ google, !.present = google, !.disturbed = @ /\ WalksNewOnly]
    /\ UNCHANGED <<google, members, gone, library, full>>

(* Google's pages: the next PageSize keys below the last one served.  A
   failure may wear a success's clothes and answer with nothing at all. *)
Rest == {k \in google : Place[k] < walk.cursor}

NextPages ==
    {p \in SUBSET Rest : /\ Cardinality(p) = IF Cardinality(Rest) < PageSize THEN Cardinality(Rest) ELSE PageSize
                         /\ \A j \in p, k \in Rest \ p : Place[j] > Place[k]}

Timeline ==
    /\ walk.pc = "ask"
    /\ \/ \E p \in NextPages :
            /\ walk' = [walk EXCEPT !.pc = "record", !.page = p, !.todo = p, !.final = (p = Rest),
                                    !.cursor = IF p = {} THEN @ ELSE Place[LastOf(p)]]
            /\ UNCHANGED hist
       \/ /\ "empty" \in Events /\ walk.cursor = Top
          /\ walk' = [walk EXCEPT !.pc = "record", !.page = {}, !.final = TRUE]
          /\ hist' = [hist EXCEPT !.disturbed = TRUE]
    /\ UNCHANGED <<google, members, gone, library, full, left>>

(* UpsertItem, which overturns a write-off, and LinkItemToAlbum. *)
RecordItem ==
    /\ walk.pc = "record" /\ walk.todo # {}
    /\ LET k == CHOOSE j \in walk.todo : \A i \in walk.todo : Place[i] <= Place[j]
           listed == IF OlderThan(k, walk.since) THEN {} ELSE {k}
       IN  /\ members' = members \union listed /\ gone' = gone \ listed
           /\ walk' = [walk EXCEPT !.todo = @ \ {k}, !.seen = @ \union listed]
    /\ UNCHANGED <<google, library, full, left, hist>>

PageRead ==
    /\ walk.pc = "record" /\ walk.todo = {}
    /\ walk' = IF walk.final THEN [walk EXCEPT !.pc = "reconcile", !.all = TRUE]
               ELSE IF WalkedPastTheBound(walk.page, walk.since) THEN [walk EXCEPT !.pc = "reconcile"]
               ELSE IF walk.newOnly /\ KnownGround(walk.page, walk.held) # 0
                    THEN [walk EXCEPT !.pc = "reconcile", !.heldFrom = KnownGround(walk.page, walk.held)]
               ELSE [walk EXCEPT !.pc = "ask"]
    /\ UNCHANGED <<google, members, gone, library, full, left, hist>>

(* A walk that listed nothing writes nothing off. *)
ReconcileLibrary ==
    /\ walk.pc = "reconcile"
    /\ gone' = IF walk.seen = {} THEN gone ELSE gone \union Departures
    /\ walk' = [walk EXCEPT !.pc = "mark"]
    /\ UNCHANGED <<google, members, library, full, left, hist>>

MarkLibraryWalkedInFull ==
    /\ walk.pc = "mark"
    /\ full' = IF walk.heldFrom = 0 THEN "recent" ELSE full
    /\ walk' = [walk EXCEPT !.pc = "idle"]
    /\ UNCHANGED <<google, members, gone, library, left, hist>>

(* A request or a store statement fails, the run is stopped, or the process
   dies: what was recorded stays. *)
CutShort ==
    /\ walk.pc # "idle" /\ "cut" \in Events
    /\ walk' = NoWalk
    /\ hist' = [hist EXCEPT !.disturbed = TRUE]
    /\ UNCHANGED <<google, members, gone, library, full, left>>

-----------------------------------------------------------------------------
(* The user, Google and time. *)

Spend == left.changes > 0 /\ left' = [left EXCEPT !.changes = @ - 1]

(* Faulty variant of SetLibrary: the last whole walk is remembered. *)
SetLibraryRemembering(to) ==
    /\ "settings" \in Events /\ ("midwalk" \in Events \/ walk.pc = "idle") /\ Spend
    /\ library' = to
    /\ hist' = [hist EXCEPT !.disturbed = @ \/ walk.pc # "idle"]
    /\ UNCHANGED <<google, members, gone, full, walk>>

(* Moving the date or following the library again forgets the last whole walk. *)
SetLibrary(to) ==
    /\ "settings" \in Events /\ ("midwalk" \in Events \/ walk.pc = "idle") /\ Spend
    /\ library' = to
    /\ full' = IF to.mode = library.mode /\ to.since = library.since THEN full ELSE "never"
    /\ hist' = [hist EXCEPT !.disturbed = @ \/ walk.pc # "idle"]
    /\ UNCHANGED <<google, members, gone, walk>>

WeekPasses ==
    /\ full = "recent" /\ full' = "old"
    /\ UNCHANGED <<google, members, gone, library, walk, left, hist>>

(* A photo is taken, or an old one uploaded below others already there, or
   one that a walk has listed or served is restored above others that none
   has listed yet. *)
GoogleGains(k) ==
    /\ k \notin google /\ Spend
    /\ google' = google \union {k}
    /\ LET under == IF k \in members \union walk.todo THEN {j \in google \ members : Place[j] < Place[k]} ELSE {}
       IN  hist' = [hist EXCEPT !.buried = under \union (IF \E j \in google : Place[j] > Place[k] THEN @ \union {k}
                                                       ELSE @ \ {k})]
    /\ UNCHANGED <<members, gone, library, full, walk>>

GoogleLoses(k) ==
    /\ k \in google /\ "delete" \in Events /\ Spend
    /\ google' = google \ {k}
    /\ hist' = [hist EXCEPT !.absent = @ \union {k}, !.present = @ \ {k}]
    /\ UNCHANGED <<members, gone, library, full, walk>>

AllNightsOver == walk.pc = "idle" /\ left.nights = 0 /\ UNCHANGED vars

(* The library is not followed and no change is left that could follow it. *)
NotFollowed == walk.pc = "idle" /\ library.mode = "none" /\ UNCHANGED vars

Instructions == [mode : {"none", "all"}, since : Bounds,
                 newOnly : IF "newonly" \in Events THEN BOOLEAN ELSE {FALSE}, weekly : BOOLEAN]

LibraryNext ==
    \/ StartWalk \/ Timeline \/ RecordItem \/ PageRead \/ ReconcileLibrary \/ MarkLibraryWalkedInFull \/ CutShort
    \/ \E to \in Instructions : SetLibrary(to)
    \/ WeekPasses \/ \E k \in Keys : GoogleGains(k) \/ GoogleLoses(k)
    \/ AllNightsOver \/ NotFollowed

LibrarySpec == LibraryInit /\ [][LibraryNext]_vars

-----------------------------------------------------------------------------
(* Properties. *)

(* However the walk ended, at the end of the timeline, at the date, or at
   photos it held, and whatever changed under it, it writes off no photo that
   was on Google all the while. *)
WriteOffsAreTrue == [][\A k \in gone' \ gone : k \in hist.absent]_vars

Completes == walk.pc = "mark" /\ walk'.pc = "idle"

(* The photos a walk that completes should hold: those there all the while
   and taken clear of the date bound, but for photos uploaded with an old
   date or buried under a restored one when it looked only for what is new. *)
WithinReach == {k \in hist.present : /\ walk.heldFrom # 0 => k \notin hist.buried
                                     /\ Captured[k] # 0 /\ Captured[k] >= walk.since + BoundaryWobble}

(* New-only walks find every new photo, whatever is deleted, uploaded or set
   between them, as long as no walk since the last whole one was cut short or
   answered with nothing, and no instruction changed under one. *)
NewPhotosAreFound == [][Completes /\ ~hist.disturbed => WithinReach \subseteq members]_vars

(* A whole walk writes off every photo that was gone before it began, if it
   was taken clear of the bound. *)
DeletionsAreNoticed ==
    [][Completes /\ walk.heldFrom = 0 /\ walk.seen # {} =>
          \A k \in walk.held \ google :
            k \in hist.absent /\ Captured[k] # 0 /\ Captured[k] >= walk.since + BoundaryWobble
            => k \in gone \/ k \in walk.seen]_vars
=============================================================================
