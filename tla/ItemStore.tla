------------------------------ MODULE ItemStore ------------------------------
(***************************************************************************)
(* The item database (internal/store): media_items, album_items,           *)
(* media_selection and the two columns of albums that decide what is       *)
(* backed up.  Every operator below named after a method of store.Store is *)
(* one SQL statement or one transaction.  The handle is opened with a      *)
(* single connection, so each of them is atomic; everything between two of *)
(* them can be interleaved with another goroutine, and the modules that    *)
(* extend this one say who calls what and when.                            *)
(*                                                                         *)
(* A row is a record.  "missing" is missing_since being set, "held" is     *)
(* local_path being set (and with it size_bytes, sha256 and filename,      *)
(* which the same UPDATE writes), "fails" is fail_count, "review" is       *)
(* needs_review.  A key with no row has state "absent".                    *)
(***************************************************************************)
EXTENDS Naturals, FiniteSets

CONSTANTS
    Keys,       \* media keys
    Albums,     \* ids of the albums table, the library's row included
    Sha,        \* [Keys -> hash]: what the bytes served for a key hash to
    Name,       \* [Keys -> name]: file name and capture second together
    Size,       \* [Keys -> Nat]: size of the bytes served for a key
    Photo,      \* [Keys -> photograph]: which picture a key stands for
    MaxItemFailures   \* failures after which Pending stops offering an item

SameBytes(c, k) == Sha[c] = Sha[k]
SameName(c, k) == Name[c] = Name[k] /\ Size[c] >= Size[k]

ASSUME ConstantFunctions ==
    /\ Size \in [Keys -> Nat]
    /\ MaxItemFailures \in Nat \ {0}
    /\ Keys # {} /\ Albums # {}

(* What the copy rule stands on: equal bytes, or the same name taken in the
   same second, are the same photograph. *)
ASSUME CopiesArePhotographs ==
    \A c, k \in Keys : SameBytes(c, k) \/ SameName(c, k) => Photo[c] = Photo[k]

VARIABLES
    items,      \* [Keys -> row]
    links,      \* album_items, pairs <<album, key>>
    mode,       \* albums.sync_mode
    synced,     \* albums whose last_synced_at is set
    selected,   \* keys media_selection marks
    asked       \* history: written-off keys whose write-off raised the review flag

storeVars == <<items, links, mode, synced, selected, asked>>

States == {"absent", "discovered", "downloading", "done", "failed", "missing_upstream"}
SyncModes == {"none", "all", "picked"}
Row == [state : States, missing : BOOLEAN, held : BOOLEAN, fails : 0..MaxItemFailures, review : BOOLEAN]
NoRow == [state |-> "absent", missing |-> FALSE, held |-> FALSE, fails |-> 0, review |-> FALSE]

(* Rows, links and marks keep their types; fail_count never passes the limit
   at which Pending stops offering the item. *)
StoreTypeOK ==
    /\ items \in [Keys -> Row]
    /\ links \subseteq Albums \X Keys
    /\ mode \in [Albums -> SyncModes]
    /\ synced \subseteq Albums
    /\ selected \subseteq Keys
    /\ asked \subseteq Keys

-----------------------------------------------------------------------------
(* Queries. *)

HasRow(k) == items[k].state # "absent"
WrittenOff(k) == items[k].state = "missing_upstream"
Live(k) == HasRow(k) /\ ~WrittenOff(k)

AlbumMembers(a) == {k \in Keys : <<a, k>> \in links}

(* AlbumForItem answers some album that makes k one the user asked for; an
   empty set is the "" that turns a download into a skip. *)
CoveringAlbums(k) ==
    {a \in Albums : /\ <<a, k>> \in links
                    /\ \/ mode[a] = "all"
                       \/ mode[a] = "picked" /\ k \in selected}

InTheSyncSet(k) == CoveringAlbums(k) # {}

Pending ==
    {k \in Keys : /\ items[k].state \in {"discovered", "downloading", "failed"}
                  /\ items[k].fails < MaxItemFailures
                  /\ InTheSyncSet(k)}

DownloadedInSyncSet == {k \in Keys : items[k].state = "done" /\ InTheSyncSet(k)}

FollowedAlbums == {a \in Albums : mode[a] # "none"}

(* A backed-up row holding the same photograph as k.  The hash, name and
   size of a key with no file are NULL and equal nothing. *)
IsCopy(c, k) ==
    /\ c # k
    /\ items[c].state = "done" /\ items[c].held /\ items[k].held
    /\ SameBytes(c, k) \/ SameName(c, k)

HasCopy(k) == \E c \in Keys : IsCopy(c, k)

WaitingForReview(k) ==
    /\ items[k].review
    /\ items[k].state \in {"discovered", "missing_upstream"}
    /\ \E a \in FollowedAlbums : <<a, k>> \in links

-----------------------------------------------------------------------------
(* Statements of the listing. *)

(* Faulty variant of UpsertedRow: a recorded file decides for every row. *)
UpsertedRowByItsFile(row) ==
    CASE row.state = "absent" -> [NoRow EXCEPT !.state = "discovered"]
      [] row.state # "absent" /\ row.held -> [row EXCEPT !.missing = FALSE, !.review = FALSE, !.state = "done"]
      [] row.state = "missing_upstream" /\ ~row.held ->
            [row EXCEPT !.missing = FALSE, !.review = FALSE, !.state = "discovered"]
      [] OTHER -> [row EXCEPT !.missing = FALSE]

(* A re-listing disturbs nothing the download path owns, and overturns a
   write-off: back to done if a file is recorded, to discovered if not. *)
UpsertedRow(row) ==
    CASE row.state = "absent" -> [NoRow EXCEPT !.state = "discovered"]
      [] row.state = "missing_upstream" ->
            [row EXCEPT !.missing = FALSE, !.review = FALSE,
                        !.state = IF row.held THEN "done" ELSE "discovered"]
      [] OTHER -> [row EXCEPT !.missing = FALSE]

(* Faulty variant of UpsertItem: INSERT OR REPLACE instead of ON CONFLICT UPDATE. *)
UpsertReplacesTheRow(k) ==
    /\ items' = [items EXCEPT ![k] = [NoRow EXCEPT !.state = "discovered"]]
    /\ asked' = asked \ {k}
    /\ UNCHANGED <<links, mode, synced, selected>>

UpsertItem(k) ==
    /\ items' = [items EXCEPT ![k] = UpsertedRow(items[k])]
    /\ asked' = asked \ {k}
    /\ UNCHANGED <<links, mode, synced, selected>>

(* The foreign key refuses a link to a key with no row. *)
LinkItemToAlbum(a, k) ==
    /\ HasRow(k)
    /\ links' = links \union {<<a, k>>}
    /\ UNCHANGED <<items, mode, synced, selected, asked>>

MarkAlbumSynced(a) ==
    /\ synced' = synced \union {a}
    /\ UNCHANGED <<items, links, mode, selected, asked>>

FlagForReview(arrived) ==
    /\ items' = [k \in Keys |-> IF k \in arrived /\ HasRow(k)
                                THEN [items[k] EXCEPT !.review = TRUE] ELSE items[k]]
    /\ UNCHANGED <<links, mode, synced, selected, asked>>

(* The departed items nothing else lists: these are gone from Google. *)
GoneFromGoogle(a, departed) ==
    {k \in departed : /\ HasRow(k) /\ ~items[k].missing
                      /\ \A b \in Albums \ {a} : <<b, k>> \notin links}

(* Faulty variant of AskedAbout: every row's flag computed from the rows before the UPDATE. *)
AskedAtOnce(gone, left) == {k \in gone : ~HasCopy(k)}

(* The UPDATE visits the rows one after another and each row's review flag
   is computed from the rows as they are by then; left[k] is how many rows
   are still to come, and SQLite promises no order.  A copy spares k the
   question only if it is still done when k's turn comes. *)
AskedAbout(gone, left) ==
    {k \in gone : \A c \in Keys : IsCopy(c, k) => c \in gone /\ left[c] > left[k]}

(* An item written off keeps its membership, the rest lose theirs. *)
KeptLinks(a, departed, gone) ==
    {l \in links : l[1] = a /\ l[2] \in departed => l[2] \in gone \/ WrittenOff(l[2])}

ReconcileInOrder(a, departed, left) ==
    LET gone == GoneFromGoogle(a, departed)
        flagged == AskedAbout(gone, left)
    IN  /\ items' = [k \in Keys |->
                        IF k \in gone
                        THEN [items[k] EXCEPT !.state = "missing_upstream", !.missing = TRUE,
                                              !.review = (k \in flagged)]
                        ELSE items[k]]
        /\ links' = KeptLinks(a, departed, gone)
        /\ asked' = asked \union flagged
        /\ UNCHANGED <<mode, synced, selected>>

(* Orders of a set of rows, as the place each has. *)
Orders(rows) ==
    {f \in [rows -> 1..Cardinality(rows)] :
        \A j, k \in rows : j # k => f[j] # f[k]}

Reconcile(a, departed) ==
    \E left \in Orders(departed) : ReconcileInOrder(a, departed, left)

-----------------------------------------------------------------------------
(* Statements of the download path.  The worker's word is older than a walk's
   write-off, so none of them overturns one. *)

(* Faulty variant of UnlessWrittenOff: the worker's word always wins. *)
OverWriteOff(row, state) == state

UnlessWrittenOff(row, state) ==
    IF row.state = "missing_upstream" THEN row.state ELSE state

SetItemState(k, state) ==
    /\ HasRow(k)
    /\ items' = [items EXCEPT ![k].state = UnlessWrittenOff(items[k], state)]
    /\ UNCHANGED <<links, mode, synced, selected, asked>>

MarkDownloaded(k) ==
    /\ HasRow(k)
    /\ items' = [items EXCEPT ![k] =
                    [items[k] EXCEPT !.state = UnlessWrittenOff(items[k], "done"),
                                     !.held = TRUE, !.fails = 0]]
    /\ UNCHANGED <<links, mode, synced, selected, asked>>

(* Faulty variant of MarkFailed: one failure charged twice. *)
MarkFailedTwice(k) ==
    /\ HasRow(k)
    /\ items' = [items EXCEPT ![k] =
                    [items[k] EXCEPT !.state = UnlessWrittenOff(items[k], "failed"),
                                     !.fails = items[k].fails + 2]]
    /\ UNCHANGED <<links, mode, synced, selected, asked>>

MarkFailed(k) ==
    /\ HasRow(k)
    /\ items' = [items EXCEPT ![k] =
                    [items[k] EXCEPT !.state = UnlessWrittenOff(items[k], "failed"),
                                     !.fails = items[k].fails + 1]]
    /\ UNCHANGED <<links, mode, synced, selected, asked>>

-----------------------------------------------------------------------------
(* Statements of the pages and of the duplicates pass. *)

SetAlbumSyncMode(a, m) ==
    /\ mode' = [mode EXCEPT ![a] = m]
    /\ UNCHANGED <<items, links, synced, selected, asked>>

SetSelection(picked, on) ==
    /\ \A k \in picked : HasRow(k)
    /\ selected' = IF on THEN selected \union picked ELSE selected \ picked
    /\ UNCHANGED <<items, links, mode, synced, asked>>

SelectWholeAlbum(a, on) == SetSelection(AlbumMembers(a), on)

(* The members between two cells, both ends included, in the grid's order;
   an end with no row any more bounds nothing. *)
SelectRange(a, from, to, place, on) ==
    LET ends == {k \in {from, to} : HasRow(k)}
        between == {k \in AlbumMembers(a) :
                        \E i, j \in ends : place[i] <= place[k] /\ place[k] <= place[j]}
    IN  SetSelection(between, on)

ClearNeedsReview(settled) ==
    /\ items' = [k \in Keys |-> IF k \in settled THEN [items[k] EXCEPT !.review = FALSE]
                                ELSE items[k]]
    /\ UNCHANGED <<links, mode, synced, selected, asked>>

(* The rows the duplicates pass pairs with a backed-up copy of them. *)
IsTwin(k) == WrittenOff(k) /\ items[k].held /\ HasCopy(k)

(* Memberships, selection and row go in one transaction. *)
Forget(k) ==
    /\ items' = [items EXCEPT ![k] = NoRow]
    /\ links' = {l \in links : l[2] # k}
    /\ selected' = selected \ {k}
    /\ asked' = asked \ {k}
    /\ UNCHANGED <<mode, synced>>

-----------------------------------------------------------------------------
(* The store by itself: any statement at any time, with the arguments its
   callers pass.  A walk reconciles members of the album it walked, and the
   duplicates pass forgets a twin; only an item Pending offered is charged
   with a failure, once per offer. *)

StoreInit ==
    /\ items = [k \in Keys |-> NoRow]
    /\ links = {}
    /\ mode \in [Albums -> SyncModes]     \* albums are followed before their first walk
    /\ synced = {}
    /\ selected = {}
    /\ asked = {}

StoreNext ==
    \/ \E k \in Keys :
        \/ UpsertItem(k)
        \/ \E a \in Albums : Live(k) /\ LinkItemToAlbum(a, k)
        \/ \E s \in {"discovered", "downloading"} : SetItemState(k, s)
        \/ MarkDownloaded(k)
        \/ items[k].fails < MaxItemFailures /\ MarkFailed(k)
        \/ IsTwin(k) /\ Forget(k)
    \/ \E a \in Albums :
        \/ MarkAlbumSynced(a)
        \/ \E departed \in SUBSET AlbumMembers(a) : Reconcile(a, departed)
        \/ \E m \in SyncModes : SetAlbumSyncMode(a, m)
        \/ \E on \in BOOLEAN : \/ SelectWholeAlbum(a, on)
                              \/ \E from, to \in Keys, place \in Orders(Keys) :
                                    SelectRange(a, from, to, place, on)
    \/ \E some \in SUBSET {k \in Keys : HasRow(k)} :
        \/ FlagForReview(some)
        \/ ClearNeedsReview(some)
        \/ \E on \in BOOLEAN : SetSelection(some, on)

StoreSpec == StoreInit /\ [][StoreNext]_storeVars

-----------------------------------------------------------------------------
(* Properties. *)

(* A row says missing_upstream exactly when it carries missing_since.  The
   two used to part when a download finished after the walk wrote its item
   off, and the next walk then took the row for one already handled. *)
WriteOffIsDated == \A k \in Keys : WrittenOff(k) <=> items[k].missing

(* A row that says done records a file: this is what lets a re-listed item
   return to done, and what the album folders and verify read. *)
DoneHasAFile == \A k \in Keys : items[k].state = "done" => items[k].held

(* No membership or selection points at a row that is gone. *)
NoDanglingRows ==
    /\ \A l \in links : HasRow(l[2])
    /\ \A k \in selected : HasRow(k)

(* A written-off item is still in some album.  The review queue groups by
   album, so without one the question could never be put. *)
WrittenOffHasAnAlbum == \A k \in Keys : WrittenOff(k) => \E a \in Albums : <<a, k>> \in links

(* Whoever writes a row last, its columns still agree with one another and
   with the memberships: what walk, worker, page and duplicates pass each
   assume of the rows the others wrote. *)
RowsAgree == WriteOffIsDated /\ DoneHasAFile /\ NoDanglingRows /\ WrittenOffHasAnAlbum

(* A photograph is never written off in silence: if a key of it was written
   off without a question, another key of the same photograph records a file
   and is still live or was itself asked about. *)
NeverLostInSilence ==
    \A k \in Keys : WrittenOff(k) /\ k \notin asked =>
        \E c \in Keys : /\ Photo[c] = Photo[k]
                        /\ items[c].held
                        /\ Live(c) \/ c \in asked

(* No statement takes away the record of a file except Forget, which needs
   another row of the same photograph to be done with a file. *)
FileRecordsSurvive ==
    [][\A k \in Keys : items[k].held /\ ~items'[k].held =>
          \E c \in Keys \ {k} : Photo[c] = Photo[k] /\ items'[c].held /\ items'[c].state = "done"]_storeVars

=============================================================================
