--------------------------- MODULE ItemStoreProofs ---------------------------
(***************************************************************************)
(* The store's invariant, for any number of keys, albums and copies.       *)
(***************************************************************************)
EXTENDS ItemStore, WellFoundedInduction, TLAPS

(* A key with no row records no file. *)
NoRowNoFile == \A k \in Keys : ~HasRow(k) => ~items[k].held

(* The conjunction is inductive: NoRowNoFile is what NeverLostInSilence needs
   when the key that answers for another one is re-listed. *)
StoreInv ==
    /\ StoreTypeOK
    /\ NoRowNoFile
    /\ WriteOffIsDated
    /\ DoneHasAFile
    /\ NoDanglingRows
    /\ WrittenOffHasAnAlbum
    /\ NeverLostInSilence

(* Of any nonempty set of rows an UPDATE visits, one is visited last. *)
LEMMA LastVisited ==
    ASSUME NEW D, NEW left \in [D -> Nat], NEW T \in SUBSET D, T # {}
    PROVE  \E k \in T : \A j \in T : ~(left[j] < left[k])
<1> DEFINE V == {left[k] : k \in T}
<1>1. V \subseteq Nat /\ V # {}
  OBVIOUS
<1>2. PICK n \in V : \A m \in V : ~(<<m, n>> \in OpToRel(<, Nat))
  <2> HIDE DEF V
  <2> QED BY <1>1, NatLessThanWellFounded, WFMin
<1>3. PICK k \in T : n = left[k]
  OBVIOUS
<1>4. \A j \in T : ~(left[j] < left[k])
  BY <1>1, <1>2, <1>3 DEF OpToRel
<1> QED BY <1>4

(* What a re-listing makes of a row. *)
LEMMA UpsertedRowFacts ==
    ASSUME NEW row \in Row
    PROVE  /\ UpsertedRow(row) \in Row
           /\ UpsertedRow(row).state \notin {"absent", "missing_upstream"}
           /\ ~UpsertedRow(row).missing
           /\ row.state # "absent" => UpsertedRow(row).held = row.held
           /\ row.state \notin {"absent", "missing_upstream"} => UpsertedRow(row).state = row.state
           /\ UpsertedRow(row).state = "done" => row.state = "done" \/ row.held
           /\ row.state = "absent" => UpsertedRow(row).state = "discovered"
<1>1. CASE row.state = "absent"
  <2>1. UpsertedRow(row) = [NoRow EXCEPT !.state = "discovered"]
    BY <1>1 DEF UpsertedRow
  <2>2. UpsertedRow(row) = [state |-> "discovered", missing |-> FALSE, held |-> FALSE, fails |-> 0,
                            review |-> FALSE]
    BY <2>1 DEF NoRow
  <2>3. 0 \in 0..MaxItemFailures
    BY ConstantFunctions
  <2> QED BY <1>1, <2>2, <2>3 DEF Row, States
<1>2. CASE row.state = "missing_upstream"
  <2>1. UpsertedRow(row) = [row EXCEPT !.missing = FALSE, !.review = FALSE,
                                       !.state = IF row.held THEN "done" ELSE "discovered"]
    BY <1>2 DEF UpsertedRow
  <2> QED BY <1>2, <2>1 DEF Row, States
<1>3. CASE row.state \notin {"absent", "missing_upstream"}
  <2>1. UpsertedRow(row) = [row EXCEPT !.missing = FALSE]
    BY <1>3 DEF UpsertedRow
  <2> QED BY <1>3, <2>1 DEF Row, States
<1> QED BY <1>1, <1>2, <1>3

(* The copy rule never pairs two photographs. *)
LEMMA CopyIsTheSamePhotograph ==
    ASSUME NEW c \in Keys, NEW k \in Keys, IsCopy(c, k)
    PROVE  Photo[c] = Photo[k] /\ items[c].held /\ items[c].state = "done" /\ c # k
BY CopiesArePhotographs DEF IsCopy

WriteOffRow(row, b) == [row EXCEPT !.state = "missing_upstream", !.missing = TRUE, !.review = b]

FlagRow(row, b) == [row EXCEPT !.review = b]

(* Writing a row off, and raising or lowering its flag, leave a row. *)
LEMMA FlaggedRow ==
    ASSUME NEW row \in Row, NEW b \in BOOLEAN
    PROVE  /\ WriteOffRow(row, b) \in Row /\ WriteOffRow(row, b).held = row.held
           /\ WriteOffRow(row, b).state = "missing_upstream" /\ WriteOffRow(row, b).missing
           /\ FlagRow(row, b) \in Row /\ FlagRow(row, b).held = row.held
           /\ FlagRow(row, b).state = row.state /\ FlagRow(row, b).missing = row.missing
BY DEF WriteOffRow, FlagRow, Row, States

(* The empty database satisfies the invariant. *)
LEMMA InitInv == StoreInit => StoreInv
BY ConstantFunctions DEF StoreInit, StoreInv, StoreTypeOK, NoRowNoFile, WriteOffIsDated, DoneHasAFile,
   NoDanglingRows, WrittenOffHasAnAlbum, NeverLostInSilence, WrittenOff, HasRow, NoRow, Row, States, SyncModes

(* A statement that changes one live or written-off row without touching its
   write-off, its date or its membership keeps the invariant, as long as it
   records a file whenever it says done. *)
LEMMA OneRowInv ==
    ASSUME StoreInv, NEW k \in Keys, NEW r \in Row, HasRow(k),
           items' = [items EXCEPT ![k] = r],
           UNCHANGED <<links, mode, synced, selected, asked>>,
           r.state # "absent",
           r.state = "missing_upstream" <=> WrittenOff(k),
           r.missing = items[k].missing,
           items[k].held => r.held,
           r.state = "done" => r.held
    PROVE  StoreInv'
<1>1. items \in [Keys -> Row]
  BY DEF StoreInv, StoreTypeOK
<1>2. \A j \in Keys : items'[j] = IF j = k THEN r ELSE items[j]
  BY <1>1
<1>3. \A j \in Keys : /\ HasRow(j)' <=> HasRow(j)
                      /\ WrittenOff(j)' <=> WrittenOff(j)
                      /\ Live(j)' <=> Live(j)
                      /\ items[j].held => items'[j].held
  BY <1>2 DEF HasRow, WrittenOff, Live
<1>4. StoreTypeOK'
  BY <1>1 DEF StoreInv, StoreTypeOK
<1>5. NoRowNoFile' /\ NoDanglingRows' /\ WrittenOffHasAnAlbum'
  BY <1>2, <1>3 DEF StoreInv, StoreTypeOK, NoRowNoFile, NoDanglingRows, WrittenOffHasAnAlbum
<1>6. WriteOffIsDated' /\ DoneHasAFile'
  BY <1>2, <1>3 DEF StoreInv, WriteOffIsDated, DoneHasAFile, WrittenOff
<1>7. NeverLostInSilence'
  BY <1>3 DEF StoreInv, NeverLostInSilence
<1> QED BY <1>4, <1>5, <1>6, <1>7 DEF StoreInv

(* A re-listing (UpsertItem) keeps the invariant. *)
LEMMA UpsertInv ==
    ASSUME StoreInv, NEW k \in Keys, UpsertItem(k)
    PROVE  StoreInv'
<1> DEFINE r == UpsertedRow(items[k])
<1>1. items[k] \in Row /\ items \in [Keys -> Row]
  BY DEF StoreInv, StoreTypeOK
<1>2. /\ r \in Row
      /\ r.state \notin {"absent", "missing_upstream"}
      /\ ~r.missing
      /\ items[k].state # "absent" => r.held = items[k].held
      /\ r.state = "done" => items[k].state = "done" \/ items[k].held
      /\ items[k].state = "absent" => r.state = "discovered"
  BY <1>1, UpsertedRowFacts
<1>3. items' = [items EXCEPT ![k] = r] /\ asked' = asked \ {k}
      /\ UNCHANGED <<links, mode, synced, selected>>
  BY DEF UpsertItem
<1> HIDE DEF r
<1>4. \A j \in Keys : items'[j] = IF j = k THEN r ELSE items[j]
  BY <1>1, <1>3
<1>5. StoreTypeOK' /\ WriteOffIsDated' /\ NoDanglingRows' /\ WrittenOffHasAnAlbum' /\ NoRowNoFile'
  BY <1>1, <1>2, <1>3, <1>4 DEF StoreInv, StoreTypeOK, WriteOffIsDated, NoDanglingRows,
     WrittenOffHasAnAlbum, NoRowNoFile, WrittenOff, HasRow
<1>6. DoneHasAFile'
  BY <1>1, <1>2, <1>4 DEF StoreInv, DoneHasAFile
<1>7. NeverLostInSilence'
  <2> SUFFICES ASSUME NEW j \in Keys, WrittenOff(j)', j \notin asked'
               PROVE  \E c \in Keys : Photo[c] = Photo[j] /\ items'[c].held /\ (Live(c)' \/ c \in asked')
    BY DEF NeverLostInSilence
  <2>1. j # k /\ WrittenOff(j) /\ j \notin asked
    BY <1>2, <1>3, <1>4 DEF WrittenOff
  <2>2. PICK c \in Keys : Photo[c] = Photo[j] /\ items[c].held /\ (Live(c) \/ c \in asked)
    BY <2>1 DEF StoreInv, NeverLostInSilence
  <2>3. CASE c = k
    <3>1. items[k].state # "absent"
      BY <2>2, <2>3 DEF StoreInv, NoRowNoFile, HasRow
    <3> QED BY <1>2, <1>4, <2>2, <2>3, <3>1 DEF Live, HasRow, WrittenOff
  <2>4. CASE c # k
    BY <1>3, <1>4, <2>2, <2>4 DEF Live, HasRow, WrittenOff
  <2> QED BY <2>3, <2>4
<1> QED BY <1>5, <1>6, <1>7 DEF StoreInv

(* Marking an item as queued or downloading (SetItemState) keeps it. *)
LEMMA SetItemStateInv ==
    ASSUME StoreInv, NEW k \in Keys, NEW s \in {"discovered", "downloading"}, SetItemState(k, s)
    PROVE  StoreInv'
<1> DEFINE r == [items[k] EXCEPT !.state = UnlessWrittenOff(items[k], s)]
<1>1. items \in [Keys -> Row] /\ items[k] \in Row
  BY DEF StoreInv, StoreTypeOK
<1>2. items' = [items EXCEPT ![k] = r] /\ HasRow(k) /\ UNCHANGED <<links, mode, synced, selected, asked>>
  BY <1>1 DEF SetItemState
<1>3. /\ r \in Row /\ r.state # "absent"
      /\ r.state = "missing_upstream" <=> WrittenOff(k)
      /\ r.missing = items[k].missing /\ r.held = items[k].held
      /\ r.state = "done" => r.held
  BY <1>1 DEF UnlessWrittenOff, WrittenOff, Row, States
<1> HIDE DEF r
<1> QED BY <1>2, <1>3, OneRowInv

(* Recording a finished download (MarkDownloaded) keeps it. *)
LEMMA MarkDownloadedInv ==
    ASSUME StoreInv, NEW k \in Keys, MarkDownloaded(k)
    PROVE  StoreInv'
<1> DEFINE r == [items[k] EXCEPT !.state = UnlessWrittenOff(items[k], "done"), !.held = TRUE, !.fails = 0]
<1>1. items \in [Keys -> Row] /\ items[k] \in Row
  BY DEF StoreInv, StoreTypeOK
<1>2. items' = [items EXCEPT ![k] = r] /\ HasRow(k) /\ UNCHANGED <<links, mode, synced, selected, asked>>
  BY DEF MarkDownloaded
<1>3. /\ r \in Row /\ r.state # "absent"
      /\ r.state = "missing_upstream" <=> WrittenOff(k)
      /\ r.missing = items[k].missing /\ r.held
  <2>1. 0 \in 0..MaxItemFailures
    BY ConstantFunctions
  <2> QED BY <1>1, <1>2, <2>1 DEF UnlessWrittenOff, WrittenOff, Row, States
<1> HIDE DEF r
<1> QED BY <1>2, <1>3, OneRowInv

(* Charging a failure (MarkFailed) keeps it. *)
LEMMA MarkFailedInv ==
    ASSUME StoreInv, NEW k \in Keys, items[k].fails < MaxItemFailures, MarkFailed(k)
    PROVE  StoreInv'
<1> DEFINE r == [items[k] EXCEPT !.state = UnlessWrittenOff(items[k], "failed"),
                                 !.fails = items[k].fails + 1]
<1>1. items \in [Keys -> Row] /\ items[k] \in Row
  BY DEF StoreInv, StoreTypeOK
<1>2. items' = [items EXCEPT ![k] = r] /\ HasRow(k) /\ UNCHANGED <<links, mode, synced, selected, asked>>
  BY DEF MarkFailed
<1>3. /\ r \in Row /\ r.state \notin {"absent", "done"}
      /\ r.state = "missing_upstream" <=> WrittenOff(k)
      /\ r.missing = items[k].missing /\ r.held = items[k].held
  <2>1. items[k].fails + 1 \in 0..MaxItemFailures
    <3>1. items[k].fails \in 0..MaxItemFailures
      BY <1>1 DEF Row
    <3> QED BY <3>1, ConstantFunctions
  <2> QED BY <1>1, <1>2, <2>1 DEF UnlessWrittenOff, WrittenOff, Row, States
<1> HIDE DEF r
<1> QED BY <1>2, <1>3, OneRowInv

(* Statements that touch no row but for its review flag. *)
LEMMA FlagsInv ==
    ASSUME StoreInv,
           items' \in [Keys -> Row],
           \A j \in Keys : /\ items'[j].state = items[j].state
                           /\ items'[j].missing = items[j].missing
                           /\ items'[j].held = items[j].held,
           links' \subseteq Albums \X Keys, links \subseteq links',
           \A l \in links' : HasRow(l[2]),
           mode' \in [Albums -> SyncModes], synced' \subseteq Albums,
           selected' \subseteq Keys, \A k \in selected' : HasRow(k),
           asked' = asked
    PROVE  StoreInv'
<1>1. \A j \in Keys : /\ HasRow(j)' <=> HasRow(j)
                      /\ WrittenOff(j)' <=> WrittenOff(j)
                      /\ Live(j)' <=> Live(j)
  BY DEF HasRow, WrittenOff, Live
<1>2. StoreTypeOK'
  BY DEF StoreInv, StoreTypeOK
<1>3. NoRowNoFile' /\ WriteOffIsDated' /\ DoneHasAFile'
  BY <1>1 DEF StoreInv, NoRowNoFile, WriteOffIsDated, DoneHasAFile
<1>4. NoDanglingRows'
  BY <1>1 DEF NoDanglingRows
<1>5. WrittenOffHasAnAlbum'
  BY <1>1 DEF StoreInv, WrittenOffHasAnAlbum
<1>6. NeverLostInSilence'
  BY <1>1 DEF StoreInv, NeverLostInSilence
<1> QED BY <1>2, <1>3, <1>4, <1>5, <1>6 DEF StoreInv

(* Linking an item to an album (LinkItemToAlbum) keeps it. *)
LEMMA LinkInv ==
    ASSUME StoreInv, NEW a \in Albums, NEW k \in Keys, LinkItemToAlbum(a, k)
    PROVE  StoreInv'
<1>1. links' \subseteq Albums \X Keys /\ links \subseteq links' /\ \A l \in links' : HasRow(l[2])
  BY DEF LinkItemToAlbum, StoreInv, StoreTypeOK, NoDanglingRows
<1> QED BY <1>1, FlagsInv DEF LinkItemToAlbum, StoreInv, StoreTypeOK, NoDanglingRows

(* The statements about modes, selections and marks keep it. *)
LEMMA PagesInv ==
    ASSUME StoreInv,
           \/ \E a \in Albums : MarkAlbumSynced(a)
           \/ \E a \in Albums, m \in SyncModes : SetAlbumSyncMode(a, m)
           \/ \E some \in SUBSET Keys, on \in BOOLEAN : SetSelection(some, on)
    PROVE  StoreInv'
<1>1. /\ items' = items /\ links' = links /\ asked' = asked
      /\ mode' \in [Albums -> SyncModes] /\ synced' \subseteq Albums
      /\ selected' \subseteq Keys /\ \A k \in selected' : HasRow(k)
  BY DEF MarkAlbumSynced, SetAlbumSyncMode, SetSelection, StoreInv, StoreTypeOK, NoDanglingRows
<1> QED BY <1>1, FlagsInv DEF StoreInv, StoreTypeOK, NoDanglingRows

(* Flagging arrivals and settling questions keep it. *)
LEMMA ReviewInv ==
    ASSUME StoreInv, NEW some \in SUBSET {k \in Keys : HasRow(k)},
           FlagForReview(some) \/ ClearNeedsReview(some)
    PROVE  StoreInv'
<1>1. items \in [Keys -> Row]
  BY DEF StoreInv, StoreTypeOK
<1>2. \A j \in Keys : /\ items'[j] \in Row
                      /\ items'[j].state = items[j].state
                      /\ items'[j].missing = items[j].missing
                      /\ items'[j].held = items[j].held
  <2> SUFFICES ASSUME NEW j \in Keys
               PROVE  /\ items'[j] \in Row
                      /\ items'[j].state = items[j].state
                      /\ items'[j].missing = items[j].missing
                      /\ items'[j].held = items[j].held
    OBVIOUS
  <2>1. PICK b \in BOOLEAN : items'[j] = FlagRow(items[j], b) \/ items'[j] = items[j]
    BY DEF FlagForReview, ClearNeedsReview, FlagRow
  <2> QED BY <1>1, <2>1, FlaggedRow
<1>3. items' \in [Keys -> Row]
  BY <1>2 DEF FlagForReview, ClearNeedsReview
<1>4. UNCHANGED <<links, mode, synced, selected, asked>>
  BY DEF FlagForReview, ClearNeedsReview
<1> QED BY <1>2, <1>3, <1>4, FlagsInv DEF StoreInv, StoreTypeOK, NoDanglingRows

(* Forgetting a twin: the copy that stays answers for whatever it answered for. *)
LEMMA ForgetInv ==
    ASSUME StoreInv, NEW k \in Keys, IsTwin(k), Forget(k)
    PROVE  StoreInv'
<1>1. items \in [Keys -> Row] /\ NoRow \in Row
  <2>1. 0 \in 0..MaxItemFailures
    BY ConstantFunctions
  <2> QED BY <2>1 DEF StoreInv, StoreTypeOK, NoRow, Row, States
<1>2. /\ items' = [items EXCEPT ![k] = NoRow]
      /\ links' = {l \in links : l[2] # k}
      /\ selected' = selected \ {k} /\ asked' = asked \ {k}
      /\ UNCHANGED <<mode, synced>>
  BY DEF Forget
<1>3. \A j \in Keys : items'[j] = IF j = k THEN NoRow ELSE items[j]
  BY <1>1, <1>2
<1>4. StoreTypeOK'
  BY <1>1, <1>2 DEF StoreInv, StoreTypeOK
<1>5. NoRowNoFile' /\ WriteOffIsDated' /\ DoneHasAFile'
  BY <1>3 DEF StoreInv, NoRowNoFile, WriteOffIsDated, DoneHasAFile, HasRow, WrittenOff, NoRow
<1>6. NoDanglingRows'
  BY <1>2, <1>3 DEF StoreInv, StoreTypeOK, NoDanglingRows, HasRow
<1>7. WrittenOffHasAnAlbum'
  BY <1>2, <1>3 DEF StoreInv, WrittenOffHasAnAlbum, WrittenOff, NoRow
<1>8. NeverLostInSilence'
  <2> SUFFICES ASSUME NEW j \in Keys, WrittenOff(j)', j \notin asked'
               PROVE  \E c \in Keys : Photo[c] = Photo[j] /\ items'[c].held /\ (Live(c)' \/ c \in asked')
    BY DEF NeverLostInSilence
  <2>1. j # k /\ WrittenOff(j) /\ j \notin asked
    BY <1>2, <1>3 DEF WrittenOff, NoRow
  <2>2. PICK c \in Keys : Photo[c] = Photo[j] /\ items[c].held /\ (Live(c) \/ c \in asked)
    BY <2>1 DEF StoreInv, NeverLostInSilence
  <2>3. PICK d \in Keys : IsCopy(d, k)
    BY DEF IsTwin, HasCopy
  <2>4. Photo[d] = Photo[k] /\ items[d].held /\ items[d].state = "done" /\ d # k
    BY <2>3, CopyIsTheSamePhotograph
  <2>5. CASE c = k
    BY <1>3, <2>2, <2>4, <2>5 DEF Live, HasRow, WrittenOff
  <2>6. CASE c # k
    BY <1>2, <1>3, <2>2, <2>6 DEF Live, HasRow, WrittenOff
  <2> QED BY <2>5, <2>6
<1> QED BY <1>4, <1>5, <1>6, <1>7, <1>8 DEF StoreInv

(* Writing the departed off (Reconcile) keeps it: of the rows of one photograph
   written off together the last one visited finds no copy left and is asked about. *)
LEMMA ReconcileInv ==
    ASSUME StoreInv, NEW a \in Albums, NEW departed \in SUBSET AlbumMembers(a), Reconcile(a, departed)
    PROVE  StoreInv'
<1> DEFINE gone == GoneFromGoogle(a, departed)
<1>1. PICK left \in Orders(departed) : ReconcileInOrder(a, departed, left)
  BY DEF Reconcile
<1> DEFINE flagged == AskedAbout(gone, left)
<1>2. /\ items \in [Keys -> Row] /\ departed \subseteq Keys
      /\ gone \subseteq departed /\ flagged \subseteq gone
      /\ \A k \in gone : HasRow(k) /\ ~items[k].missing /\ Live(k) /\ <<a, k>> \in links
  BY DEF StoreInv, StoreTypeOK, GoneFromGoogle, AskedAbout, AlbumMembers, WriteOffIsDated, Live
<1>3. /\ items' = [k \in Keys |->
                    IF k \in gone
                    THEN [items[k] EXCEPT !.state = "missing_upstream", !.missing = TRUE,
                                          !.review = (k \in flagged)]
                    ELSE items[k]]
      /\ links' = KeptLinks(a, departed, gone)
      /\ asked' = asked \union flagged
      /\ UNCHANGED <<mode, synced, selected>>
  BY <1>1 DEF ReconcileInOrder
<1>4. left \in [departed -> Nat] /\ \A j, k \in departed : j # k => left[j] # left[k]
  BY DEF Orders
<1>5. \A k \in gone : (\A c \in Keys : IsCopy(c, k) => c \in gone /\ left[c] > left[k]) => k \in flagged
  BY <1>2 DEF AskedAbout
<1> HIDE DEF gone, flagged
<1>6. \A k \in Keys : /\ items'[k] \in Row
                      /\ items'[k].held = items[k].held
                      /\ k \in gone => items'[k].state = "missing_upstream" /\ items'[k].missing
                      /\ k \notin gone => items'[k] = items[k]
  <2> SUFFICES ASSUME NEW k \in Keys
               PROVE  /\ items'[k] \in Row
                      /\ items'[k].held = items[k].held
                      /\ k \in gone => items'[k].state = "missing_upstream" /\ items'[k].missing
                      /\ k \notin gone => items'[k] = items[k]
    OBVIOUS
  <2> DEFINE b == k \in flagged
  <2>1. b \in BOOLEAN /\ items[k] \in Row
    BY <1>2
  <2>2. items'[k] = IF k \in gone THEN WriteOffRow(items[k], b) ELSE items[k]
    BY <1>3 DEF WriteOffRow
  <2> HIDE DEF b
  <2> QED BY <2>1, <2>2, FlaggedRow
<1>7. \A k \in Keys : /\ HasRow(k)' <=> HasRow(k)
                      /\ WrittenOff(k)' <=> WrittenOff(k) \/ k \in gone
                      /\ Live(k)' <=> Live(k) /\ k \notin gone
  BY <1>2, <1>6 DEF HasRow, WrittenOff, Live
<1>8. StoreTypeOK'
  <2>1. items' \in [Keys -> Row]
    BY <1>3, <1>6
  <2>2. links' \subseteq Albums \X Keys
    BY <1>3 DEF KeptLinks, StoreInv, StoreTypeOK
  <2> QED BY <1>2, <1>3, <2>1, <2>2 DEF StoreInv, StoreTypeOK
<1>9. NoRowNoFile' /\ WriteOffIsDated' /\ DoneHasAFile'
  BY <1>6, <1>7 DEF StoreInv, NoRowNoFile, WriteOffIsDated, DoneHasAFile
<1>10. NoDanglingRows'
  <2>1. links' \subseteq links
    BY <1>3 DEF KeptLinks
  <2> QED BY <1>3, <1>7, <2>1 DEF StoreInv, StoreTypeOK, NoDanglingRows
<1>11. WrittenOffHasAnAlbum'
  <2> SUFFICES ASSUME NEW k \in Keys, WrittenOff(k) \/ k \in gone
               PROVE  \E b \in Albums : <<b, k>> \in links'
    BY <1>7 DEF WrittenOffHasAnAlbum
  <2>1. PICK b \in Albums : <<b, k>> \in links
    BY <1>2 DEF StoreInv, WrittenOffHasAnAlbum
  <2>2. <<b, k>> \in links'
    BY <1>3, <2>1 DEF KeptLinks
  <2> QED BY <2>2
<1>12. NeverLostInSilence'
  <2> SUFFICES ASSUME NEW k \in Keys, WrittenOff(k)', k \notin asked'
               PROVE  \E c \in Keys : Photo[c] = Photo[k] /\ items'[c].held /\ (Live(c)' \/ c \in asked')
    BY DEF NeverLostInSilence
  <2> DEFINE T == {c \in gone : Photo[c] = Photo[k] /\ items[c].held}
  (* A live witness outside gone, or one already asked about, is enough. *)
  <2>1. ASSUME NEW c \in Keys, Photo[c] = Photo[k], items[c].held, (Live(c) /\ c \notin gone) \/ c \in asked
        PROVE  \E d \in Keys : Photo[d] = Photo[k] /\ items'[d].held /\ (Live(d)' \/ d \in asked')
    BY <1>3, <1>6, <1>7, <2>1
  (* Otherwise some row of the photograph is written off here, and the last
     of them visited finds a copy outside, or is asked about. *)
  <2>2. ASSUME T # {}
        PROVE  \E d \in Keys : Photo[d] = Photo[k] /\ items'[d].held /\ (Live(d)' \/ d \in asked')
    <3>1. PICK c \in T : \A j \in T : ~(left[j] < left[c])
      <4>1. T \in SUBSET departed
        BY <1>2
      <4> HIDE DEF T
      <4> QED BY <1>4, <2>2, <4>1, LastVisited
    <3>2. CASE c \in flagged
      BY <1>2, <1>3, <1>6, <3>1, <3>2
    <3>3. CASE c \notin flagged
      <4>1. PICK d \in Keys : IsCopy(d, c) /\ ~(d \in gone /\ left[d] > left[c])
        BY <1>5, <3>1, <3>3
      <4>2. Photo[d] = Photo[c] /\ items[d].held /\ items[d].state = "done" /\ d # c
        BY <1>2, <3>1, <4>1, CopyIsTheSamePhotograph
      <4>3. CASE d \in gone
        <5>1. d \in T /\ c \in departed /\ d \in departed
          BY <1>2, <3>1, <4>2, <4>3
        <5>2. left[d] \in Nat /\ left[c] \in Nat /\ left[d] # left[c] /\ ~(left[d] < left[c])
          BY <1>4, <3>1, <4>2, <5>1
        <5> QED BY <4>1, <4>3, <5>2
      <4>4. CASE d \notin gone
        BY <2>1, <3>1, <4>2, <4>4 DEF Live, HasRow, WrittenOff
      <4> QED BY <4>3, <4>4
    <3> QED BY <3>2, <3>3
  <2>3. CASE k \in gone
    <3>1. k \notin flagged
      BY <1>3
    <3>2. PICK c \in Keys : IsCopy(c, k)
      BY <1>5, <2>3, <3>1
    <3>3. k \in T
      BY <2>3, <3>2 DEF IsCopy
    <3> QED BY <2>2, <3>3
  <2>4. CASE k \notin gone
    <3>1. PICK c \in Keys : Photo[c] = Photo[k] /\ items[c].held /\ (Live(c) \/ c \in asked)
      BY <1>3, <1>7, <2>4 DEF StoreInv, NeverLostInSilence
    <3>2. CASE c \in gone
      BY <2>2, <3>1, <3>2
    <3>3. CASE c \notin gone
      BY <2>1, <3>1, <3>3
    <3> QED BY <3>2, <3>3
  <2> QED BY <2>3, <2>4
<1> QED BY <1>8, <1>9, <1>10, <1>11, <1>12 DEF StoreInv

(* The two selections made in the store (SelectWholeAlbum, SelectRange) are
   selections of some keys. *)
LEMMA SelectionsInTheStore ==
    ASSUME NEW a, NEW on,
           \/ SelectWholeAlbum(a, on)
           \/ \E from, to \in Keys, place \in Orders(Keys) : SelectRange(a, from, to, place, on)
    PROVE  \E some \in SUBSET Keys : SetSelection(some, on)
<1>1. AlbumMembers(a) \in SUBSET Keys
  BY DEF AlbumMembers
<1>2. CASE SelectWholeAlbum(a, on)
  BY <1>1, <1>2 DEF SelectWholeAlbum
<1>3. CASE \E from, to \in Keys, place \in Orders(Keys) : SelectRange(a, from, to, place, on)
  BY <1>1, <1>3 DEF SelectRange
<1> QED BY <1>2, <1>3

(* One step of the store, whatever its caller. *)
LEMMA NextInv == StoreInv /\ [StoreNext]_storeVars => StoreInv'
<1> SUFFICES ASSUME StoreInv, [StoreNext]_storeVars
             PROVE  StoreInv'
  OBVIOUS
<1>1. CASE UNCHANGED storeVars
  BY <1>1, FlagsInv DEF storeVars, StoreInv, StoreTypeOK, NoDanglingRows
<1>2. ASSUME NEW k \in Keys, UpsertItem(k) PROVE StoreInv'
  BY <1>2, UpsertInv
<1>3. ASSUME NEW k \in Keys, NEW a \in Albums, LinkItemToAlbum(a, k) PROVE StoreInv'
  BY <1>3, LinkInv
<1>4. ASSUME NEW k \in Keys, NEW s \in {"discovered", "downloading"}, SetItemState(k, s) PROVE StoreInv'
  BY <1>4, SetItemStateInv
<1>5. ASSUME NEW k \in Keys, MarkDownloaded(k) PROVE StoreInv'
  BY <1>5, MarkDownloadedInv
<1>6. ASSUME NEW k \in Keys, items[k].fails < MaxItemFailures /\ MarkFailed(k) PROVE StoreInv'
  BY <1>6, MarkFailedInv
<1>7. ASSUME NEW k \in Keys, IsTwin(k) /\ Forget(k) PROVE StoreInv'
  BY <1>7, ForgetInv
<1>8. ASSUME NEW a \in Albums, NEW departed \in SUBSET AlbumMembers(a), Reconcile(a, departed) PROVE StoreInv'
  BY <1>8, ReconcileInv
<1>9. ASSUME \/ \E a \in Albums : MarkAlbumSynced(a)
             \/ \E a \in Albums, m \in SyncModes : SetAlbumSyncMode(a, m)
             \/ \E some \in SUBSET Keys, on \in BOOLEAN : SetSelection(some, on)
      PROVE  StoreInv'
  BY <1>9, PagesInv
<1>10. ASSUME NEW some \in SUBSET {k \in Keys : HasRow(k)}, FlagForReview(some) \/ ClearNeedsReview(some)
       PROVE  StoreInv'
  BY <1>10, ReviewInv
<1>11. ASSUME NEW a \in Albums, NEW on \in BOOLEAN,
              \/ SelectWholeAlbum(a, on)
              \/ \E from, to \in Keys, place \in Orders(Keys) : SelectRange(a, from, to, place, on)
       PROVE  StoreInv'
  BY <1>9, <1>11, SelectionsInTheStore
<1> QED BY <1>1, <1>2, <1>3, <1>4, <1>5, <1>6, <1>7, <1>8, <1>9, <1>10, <1>11 DEF StoreNext

(* The rows of internal/store always have their types. *)
THEOREM StoreTypeCorrect == StoreSpec => []StoreTypeOK
<1>1. StoreInv => StoreTypeOK
  BY DEF StoreInv
<1> QED BY <1>1, InitInv, NextInv, PTL DEF StoreSpec

(* Whatever order walks, workers, pages and the duplicates pass call the store
   in: write-offs stay dated, done rows record a file, no membership dangles,
   and a written-off item stays in an album. *)
THEOREM RowsAlwaysAgree == StoreSpec => []RowsAgree
<1>1. StoreInv => RowsAgree
  BY DEF StoreInv, RowsAgree
<1> QED BY <1>1, InitInv, NextInv, PTL DEF StoreSpec

(* No photograph is written off without either a question or another file of
   it, in whatever order one UPDATE visits the departed rows. *)
THEOREM NothingIsLostInSilence == StoreSpec => []NeverLostInSilence
<1>1. StoreInv => NeverLostInSilence
  BY DEF StoreInv
<1> QED BY <1>1, InitInv, NextInv, PTL DEF StoreSpec

(* Every statement but Forget keeps the file a row records. *)
LEMMA OnlyForgetDropsAFile ==
    ASSUME StoreInv, [StoreNext]_storeVars, NEW k \in Keys, items[k].held, ~items'[k].held
    PROVE  IsTwin(k) /\ Forget(k)
<1>1. items \in [Keys -> Row] /\ items[k] \in Row /\ HasRow(k)
  BY DEF StoreInv, StoreTypeOK, NoRowNoFile
<1>2. ASSUME NEW j \in Keys, UpsertItem(j) PROVE FALSE
  <2>1. items' = [items EXCEPT ![j] = UpsertedRow(items[j])]
    BY <1>2 DEF UpsertItem
  <2>2. UpsertedRow(items[k]).held = items[k].held
    BY <1>1, UpsertedRowFacts DEF HasRow
  <2> QED BY <1>1, <2>1, <2>2
<1>3. ASSUME NEW j \in Keys, NEW s, SetItemState(j, s) PROVE FALSE
  BY <1>1, <1>3 DEF SetItemState, Row
<1>4. ASSUME NEW j \in Keys, MarkDownloaded(j) PROVE FALSE
  BY <1>1, <1>4 DEF MarkDownloaded, Row
<1>5. ASSUME NEW j \in Keys, MarkFailed(j) PROVE FALSE
  BY <1>1, <1>5 DEF MarkFailed, Row
<1>6. ASSUME NEW j \in Keys, IsTwin(j), Forget(j) PROVE IsTwin(k) /\ Forget(k)
  <2>1. items' = [items EXCEPT ![j] = NoRow]
    BY <1>6 DEF Forget
  <2>2. j = k
    BY <1>1, <2>1
  <2> QED BY <1>6, <2>2
<1>7. ASSUME NEW a \in Albums, NEW departed \in SUBSET AlbumMembers(a), Reconcile(a, departed) PROVE FALSE
  <2>1. PICK left \in Orders(departed) : ReconcileInOrder(a, departed, left)
    BY <1>7 DEF Reconcile
  <2> DEFINE gone == GoneFromGoogle(a, departed)
             b == k \in AskedAbout(gone, left)
  <2>2. b \in BOOLEAN
    OBVIOUS
  <2>3. items'[k] = IF k \in gone THEN WriteOffRow(items[k], b) ELSE items[k]
    BY <2>1 DEF ReconcileInOrder, WriteOffRow
  <2> HIDE DEF gone, b
  <2> QED BY <1>1, <2>2, <2>3, FlaggedRow
<1>8. ASSUME NEW some \in SUBSET {j \in Keys : HasRow(j)}, FlagForReview(some) \/ ClearNeedsReview(some)
      PROVE  FALSE
  <2>1. PICK b \in BOOLEAN : items'[k] = FlagRow(items[k], b) \/ items'[k] = items[k]
    BY <1>8 DEF FlagForReview, ClearNeedsReview, FlagRow
  <2> QED BY <1>1, <2>1, FlaggedRow
<1>9. ASSUME items' = items PROVE FALSE
  BY <1>9
<1>10. ASSUME NEW a \in Albums, NEW on \in BOOLEAN,
              \/ SelectWholeAlbum(a, on)
              \/ \E from, to \in Keys, place \in Orders(Keys) : SelectRange(a, from, to, place, on)
       PROVE  FALSE
  BY <1>9, <1>10, SelectionsInTheStore DEF SetSelection
<1> QED
  BY <1>2, <1>3, <1>4, <1>5, <1>6, <1>7, <1>8, <1>9, <1>10
     DEF StoreNext, storeVars, LinkItemToAlbum, MarkAlbumSynced, SetAlbumSyncMode, SetSelection

(* The record of a file leaves the database only when another row of the same
   photograph is done with a file: the duplicates pass is the one deletion. *)
THEOREM FileRecordsAreKept == StoreSpec => FileRecordsSurvive
<1> DEFINE Kept == \A k \in Keys : items[k].held /\ ~items'[k].held =>
                      \E c \in Keys \ {k} : /\ Photo[c] = Photo[k]
                                            /\ items'[c].held /\ items'[c].state = "done"
<1>1. StoreInv /\ [StoreNext]_storeVars => Kept
  <2> SUFFICES ASSUME StoreInv, [StoreNext]_storeVars, NEW k \in Keys, items[k].held, ~items'[k].held
               PROVE  \E c \in Keys \ {k} : Photo[c] = Photo[k] /\ items'[c].held /\ items'[c].state = "done"
    OBVIOUS
  <2>1. IsTwin(k) /\ Forget(k)
    BY OnlyForgetDropsAFile
  <2>2. PICK c \in Keys : IsCopy(c, k)
    BY <2>1 DEF IsTwin, HasCopy
  <2>3. items'[c] = items[c]
    BY <2>1, <2>2 DEF Forget, IsCopy, StoreInv, StoreTypeOK
  <2> QED BY <2>2, <2>3, CopyIsTheSamePhotograph
<1>2. StoreInv /\ [StoreNext]_storeVars => [Kept]_storeVars
  BY <1>1
<1>3. [Kept]_storeVars <=>
        [\A k \in Keys : items[k].held /\ ~items'[k].held =>
            \E c \in Keys \ {k} : Photo[c] = Photo[k] /\ items'[c].held /\ items'[c].state = "done"]_storeVars
  OBVIOUS
<1> HIDE DEF Kept
<1> QED BY <1>2, <1>3, InitInv, NextInv, PTL DEF StoreSpec, FileRecordsSurvive
=============================================================================
