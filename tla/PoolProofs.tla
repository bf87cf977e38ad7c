----------------------------- MODULE PoolProofs -----------------------------
(***************************************************************************)
(* The files, for any keys, sizes, numbers of runs and faults: what the    *)
(* pool holds is whole, the hashes are honest, what is recorded is on the  *)
(* disk, and no photograph's last copy is taken away.                      *)
(***************************************************************************)
EXTENDS Pool, ItemStoreProofs, FiniteSetTheorems

RowShape == [state : States, missing : BOOLEAN, held : BOOLEAN, fails : Nat, review : BOOLEAN]
PartRecord == [on : BOOLEAN, len : Nat, sound : BOOLEAN, synced : BOOLEAN]
Names == Inodes \union {0}
FetchRecord ==
    [pc : {"idle", "resume", "ask", "body", "share", "link", "rename", "commit", "syncdir", "drop", "record"},
     offset : Nat, pos : Nat, hashed : Nat, digest : {"none", "whole", "other"}, held : Keys \union {"none"},
     staged : Names]
LinkingRecord ==
    [pc : {"idle", "kept", "next", "link", "rename", "syncdir"}, kept : Keys \union {"none"}, todo : SUBSET Keys,
     copy : Keys \union {"none"}, staged : Names]
PassRecord ==
    [pc : {"idle", "next", "unlink", "forget"}, todo : SUBSET (Keys \X Keys), twin : (Keys \X Keys) \union {<<>>},
     good : SUBSET Keys, bad : SUBSET Keys]

(* No inode ever holds anything but the complete bytes or what the disk made
   of them, and no hash is recorded but that of the complete bytes. *)
PoolTypes ==
    /\ items \in [Keys -> RowShape]
    /\ part \in [Keys -> PartRecord] /\ pool \in [Keys -> Names] /\ durable \in [Keys -> Names]
    /\ body \in [Inodes -> {"whole", "rot"}] /\ rec \in [Keys -> {"none", "whole"}]
    /\ fetch \in [Keys -> FetchRecord] /\ linking \in LinkingRecord /\ pass \in [Passes -> PassRecord]
    /\ left \in [runs : Nat, faults : Nat, listings : Nat]

(* A row records a file exactly when it records a hash. *)
RecordsInv == \A k \in Keys : /\ items[k].held => HasRow(k)
                              /\ items[k].held <=> rec[k] = "whole"

(* A .part is a beginning of the file, what is hashed is what is on it, and
   what is renamed or linked is complete and flushed. *)
Progress(f, p, size) ==
    /\ p.sound /\ p.len <= size
    /\ f.pc \in {"ask", "body"} => p.len = f.pos /\ f.hashed = f.pos
    /\ f.pc \in {"share", "link", "rename", "commit"} => p.len = size /\ p.synced
    /\ f.pc \in {"share", "link", "rename", "commit", "syncdir", "drop", "record"} => f.digest = "whole"
    /\ f.pc \in {"link", "rename"} => f.held \in Keys
    /\ f.pc = "rename" <=> f.staged # 0

LinkingProgress ==
    /\ linking.pc # "idle" => linking.kept \in Keys
    /\ linking.pc \in {"link", "rename", "syncdir"} => linking.copy \in Keys
    /\ linking.pc = "rename" <=> linking.staged # 0

WriteInv == (\A k \in Keys : Progress(fetch[k], part[k], Size[k])) /\ LinkingProgress

DiskInv == PoolTypes /\ RecordsInv /\ WriteInv

(* While nobody removes files, a name that is durable is there, and a download
   is recorded once its name is durable. *)
HeldInv ==
    /\ \A k \in Keys : /\ durable[k] # 0 => pool[k] # 0
                       /\ items[k].held => durable[k] # 0
                       /\ fetch[k].pc \in {"syncdir", "drop", "record"} => pool[k] # 0
                       /\ fetch[k].pc \in {"drop", "record"} => durable[k] # 0
    /\ linking.pc = "syncdir" => pool[linking.copy] # 0

(* What was checked stays good until it is used. *)
WholeOrGone(k) == pool[k] = 0 \/ body[pool[k]] = "whole"

Pairs(p) == pass[p].todo \union (IF pass[p].pc \in {"unlink", "forget"} THEN {pass[p].twin} ELSE {})

LinksInv ==
    /\ \A k \in Keys : /\ fetch[k].pc = "link" => WholeOrGone(fetch[k].held)
                       /\ fetch[k].pc = "rename" => body[fetch[k].staged] = "whole"
    /\ linking.pc \in {"next", "rename", "syncdir"} /\ linking.todo # {} => WholeOrGone(linking.kept)
    /\ linking.pc = "link" => WholeOrGone(linking.kept)
    /\ linking.pc = "rename" => body[linking.staged] = "whole"

TwinsOf(p) ==
    /\ pass[p].pc \in {"unlink", "forget"} => pass[p].twin[2] \in pass[p].good
    /\ Pairs(p) \subseteq Keys \X Keys
    /\ \A t \in Pairs(p) : /\ Photo[t[1]] = Photo[t[2]] /\ items[t[2]].held
                           /\ t[1] \notin pass[p].good
                           /\ \A s \in Pairs(p) : s[1] # t[2]
    /\ \A k \in pass[p].good : Kept(k)
TwinsInv == \A p \in Passes : TwinsOf(p)

-----------------------------------------------------------------------------
(* Rows. *)

LEMMA SameRecords ==
    /\ RowShape' = RowShape /\ PartRecord' = PartRecord /\ FetchRecord' = FetchRecord
    /\ LinkingRecord' = LinkingRecord /\ PassRecord' = PassRecord /\ Names' = Names /\ Inodes' = Inodes
BY DEF RowShape, PartRecord, FetchRecord, LinkingRecord, PassRecord, Names, Inodes, States

(* A statement about one row, or about a few, keeps what the rows record. *)
FilesStay ==
    /\ items' \in [Keys -> RowShape]
    /\ \A k \in Keys : (items'[k].held <=> items[k].held) /\ (items'[k].held => HasRow(k)')

LEMMA OneRowKeepsFiles ==
    ASSUME items \in [Keys -> RowShape], RecordsInv, NEW k \in Keys, NEW r \in RowShape,
           items' = [items EXCEPT ![k] = r],
           r.held <=> items[k].held, r.held => r.state # "absent"
    PROVE  FilesStay
BY DEF FilesStay, RecordsInv, HasRow

LEMMA UpsertKeepsFiles ==
    ASSUME items \in [Keys -> RowShape], RecordsInv, NEW k \in Keys, UpsertItem(k)
    PROVE  FilesStay
<1> DEFINE r == UpsertedRow(items[k])
<1>1. items[k] \in RowShape /\ items' = [items EXCEPT ![k] = r]
  BY DEF UpsertItem
<1>2. items[k].held => items[k].state # "absent"
  BY DEF RecordsInv, HasRow
<1>3. r \in RowShape /\ (r.held <=> items[k].held) /\ r.state # "absent"
  <2>1. CASE items[k].state = "absent"
    <3>1. r = [state |-> "discovered", missing |-> FALSE, held |-> FALSE, fails |-> 0, review |-> FALSE]
      BY <2>1 DEF UpsertedRow, NoRow
    <3>2. ~items[k].held
      BY <1>2, <2>1
    <3> HIDE DEF r
    <3> QED BY <3>1, <3>2 DEF RowShape, States
  <2>2. CASE items[k].state = "missing_upstream"
    <3>1. r = [items[k] EXCEPT !.missing = FALSE, !.review = FALSE,
                               !.state = IF items[k].held THEN "done" ELSE "discovered"]
      BY <2>2 DEF UpsertedRow
    <3> QED BY <1>1, <3>1 DEF RowShape, States
  <2>3. CASE items[k].state \notin {"absent", "missing_upstream"}
    <3>1. r = [items[k] EXCEPT !.missing = FALSE]
      BY <2>3 DEF UpsertedRow
    <3> QED BY <1>1, <2>3, <3>1 DEF RowShape
  <2> QED BY <2>1, <2>2, <2>3
<1> HIDE DEF r
<1> QED BY <1>1, <1>3, OneRowKeepsFiles

LEMMA StateKeepsFiles ==
    ASSUME items \in [Keys -> RowShape], RecordsInv, NEW k \in Keys,
           NEW s \in {"discovered", "downloading"}, SetItemState(k, s)
    PROVE  FilesStay
<1> DEFINE to == UnlessWrittenOff(items[k], s)
           r == [items[k] EXCEPT !.state = to]
<1>1. items[k] \in RowShape /\ items' = [items EXCEPT ![k] = r]
  BY DEF SetItemState
<1>2. to \in States /\ to # "absent"
  BY DEF UnlessWrittenOff, States
<1>3. r \in RowShape /\ r.held = items[k].held /\ r.state # "absent"
  <2> HIDE DEF to
  <2> QED BY <1>1, <1>2 DEF RowShape
<1> HIDE DEF r
<1> QED BY <1>1, <1>3, OneRowKeepsFiles

LEMMA FailureKeepsFiles ==
    ASSUME items \in [Keys -> RowShape], RecordsInv, NEW k \in Keys, MarkFailed(k)
    PROVE  FilesStay
<1> DEFINE to == UnlessWrittenOff(items[k], "failed")
           more == items[k].fails + 1
           r == [items[k] EXCEPT !.state = to, !.fails = more]
<1>1. items[k] \in RowShape /\ items' = [items EXCEPT ![k] = r]
  BY DEF MarkFailed
<1>2. to \in States /\ to # "absent"
  BY DEF UnlessWrittenOff, States
<1>3. more \in Nat
  BY <1>1 DEF RowShape
<1>4. r \in RowShape /\ r.held = items[k].held /\ r.state # "absent"
  <2> HIDE DEF to, more
  <2> QED BY <1>1, <1>2, <1>3 DEF RowShape
<1> HIDE DEF r
<1> QED BY <1>1, <1>4, OneRowKeepsFiles

LEMMA ReconcileKeepsFiles ==
    ASSUME items \in [Keys -> RowShape], RecordsInv, NEW a, NEW departed, Reconcile(a, departed)
    PROVE  FilesStay
<1> DEFINE gone == GoneFromGoogle(a, departed)
<1>1. PICK order : ReconcileInOrder(a, departed, order)
  BY DEF Reconcile
<1> DEFINE flagged == AskedAbout(gone, order)
           Off(k) == [items[k] EXCEPT !.state = "missing_upstream", !.missing = TRUE, !.review = (k \in flagged)]
<1>2. items' = [k \in Keys |-> IF k \in gone THEN Off(k) ELSE items[k]]
  BY <1>1 DEF ReconcileInOrder
<1>3. \A k \in Keys : Off(k) \in RowShape /\ Off(k).held = items[k].held /\ Off(k).state = "missing_upstream"
  <2> TAKE k \in Keys
  <2> DEFINE flag == k \in flagged
  <2>1. flag \in BOOLEAN /\ items[k] \in RowShape /\ Off(k) = [items[k] EXCEPT !.state = "missing_upstream",
                                                                             !.missing = TRUE, !.review = flag]
    OBVIOUS
  <2> HIDE DEF flag, Off
  <2> QED BY <2>1 DEF RowShape, States
<1> HIDE DEF Off, gone
<1>4. items' \in [Keys -> RowShape]
  BY <1>2, <1>3
<1>5. \A k \in Keys : (items'[k].held <=> items[k].held) /\ (items'[k].held => HasRow(k)')
  BY <1>2, <1>3 DEF HasRow, RecordsInv
<1> QED BY <1>4, <1>5 DEF FilesStay

LEMMA RowsAsTheyAre == ASSUME items \in [Keys -> RowShape], RecordsInv, UNCHANGED items PROVE FilesStay
BY DEF FilesStay, RecordsInv, HasRow

(* The rest of the bookkeeping: what no file, worker or pass notices. *)
RowStep == UNCHANGED <<part, pool, durable, body, rec, fetch, linking, pass>>

LEMMA SpentLeft ==
    ASSUME left \in [runs : Nat, faults : Nat, listings : Nat]
    PROVE  /\ left.runs > 0 => [left EXCEPT !.runs = @ - 1] \in [runs : Nat, faults : Nat, listings : Nat]
           /\ left.listings > 0 => [left EXCEPT !.listings = @ - 1] \in [runs : Nat, faults : Nat, listings : Nat]
           /\ left.faults > 0 => [left EXCEPT !.faults = @ - 1] \in [runs : Nat, faults : Nat, listings : Nat]
OBVIOUS

Bookkeeping ==
    \/ StartRun \/ Sweeper \/ Quiet
    \/ \E k \in Keys : ReclaimVanishedFile(k) \/ Relist(k)
    \/ \E a \in Albums, k \in Keys : Relink(a, k) \/ FindGone(a, k)

LEMMA BookkeepingFields ==
    ASSUME DiskInv, Bookkeeping
    PROVE  RowStep /\ FilesStay /\ left' \in [runs : Nat, faults : Nat, listings : Nat]
<1> DEFINE Goal == RowStep /\ FilesStay /\ left' \in [runs : Nat, faults : Nat, listings : Nat]
<1>0. items \in [Keys -> RowShape] /\ RecordsInv /\ left \in [runs : Nat, faults : Nat, listings : Nat]
  BY DEF DiskInv, PoolTypes
<1>1. CASE StartRun \/ SweepStarts
  <2>1. RowStep /\ UNCHANGED items /\ left.runs > 0 /\ left' = [left EXCEPT !.runs = @ - 1]
    BY <1>1 DEF StartRun, SweepStarts, RowStep, diskVars, storeVars
  <2> QED BY <1>0, <2>1, SpentLeft, RowsAsTheyAre
<1>2. CASE SweepEnds \/ \E k \in Keys : SweepReads(k)
  <2>1. RowStep /\ UNCHANGED <<items, left>>
    BY <1>2 DEF SweepEnds, SweepReads, RowStep, diskVars, storeVars
  <2> QED BY <1>0, <2>1, RowsAsTheyAre
<1>3. CASE Quiet
  <2>1. RowStep /\ UNCHANGED <<items, left>>
    BY <1>3 DEF Quiet, RowStep, vars, poolVars, diskVars, actorVars, storeVars
  <2> QED BY <1>0, <2>1, RowsAsTheyAre
<1>4. ASSUME NEW k \in Keys, Requeue(k) \/ ReclaimVanishedFile(k) PROVE Goal
  <2>1. RowStep /\ UNCHANGED left
    BY <1>4 DEF Requeue, ReclaimVanishedFile, RowStep, diskVars
  <2>2. SetItemState(k, "discovered") \/ UNCHANGED items
    BY <1>4 DEF Requeue, ReclaimVanishedFile, storeVars
  <2> QED BY <1>0, <2>1, <2>2, StateKeepsFiles, RowsAsTheyAre
<1>5. ASSUME NEW k \in Keys, Relist(k) PROVE Goal
  <2>1. RowStep /\ UpsertItem(k) /\ left.listings > 0 /\ left' = [left EXCEPT !.listings = @ - 1]
    BY <1>5 DEF Relist, RowStep, diskVars, actorVars
  <2> QED BY <1>0, <2>1, UpsertKeepsFiles, SpentLeft
<1>6. ASSUME NEW a \in Albums, NEW k \in Keys, Relink(a, k) PROVE Goal
  <2>1. RowStep /\ UNCHANGED <<items, left>>
    BY <1>6 DEF Relink, LinkItemToAlbum, RowStep, poolVars, diskVars, actorVars
  <2> QED BY <1>0, <2>1, RowsAsTheyAre
<1>7. ASSUME NEW a \in Albums, NEW k \in Keys, FindGone(a, k) PROVE Goal
  <2>1. RowStep /\ Reconcile(a, {k}) /\ left.listings > 0 /\ left' = [left EXCEPT !.listings = @ - 1]
    BY <1>7 DEF FindGone, RowStep, diskVars, actorVars
  <2> QED BY <1>0, <2>1, ReconcileKeepsFiles, SpentLeft
<1> QED BY <1>1, <1>2, <1>3, <1>4, <1>5, <1>6, <1>7, Zenon DEF Bookkeeping, Sweeper

-----------------------------------------------------------------------------
(* Inodes. *)

(* A commit finds an inode nobody uses: it stages no link itself. *)
LEMMA FreshIsNew ==
    ASSUME PoolTypes, NEW k \in Keys, fetch[k].staged = 0
    PROVE  FreshInode \in Inodes /\ FreshInode \notin InUse
<1> DEFINE n == Cardinality(Keys)
           Pools == {pool[j] : j \in Keys}
           Durables == {durable[j] : j \in Keys}
           Staged == {fetch[j].staged : j \in Keys}
           Used == (Pools \union Durables) \union (Staged \union {linking.staged})
<1>1. IsFiniteSet(Keys) /\ n \in Nat
  BY PoolConstants, FS_CardinalityType
<1>2. /\ IsFiniteSet(Pools) /\ Cardinality(Pools) <= n
      /\ IsFiniteSet(Durables) /\ Cardinality(Durables) <= n
      /\ IsFiniteSet(Staged) /\ Cardinality(Staged) <= n
  <2>1. IsFiniteSet(Pools) /\ Cardinality(Pools) <= n
    <3> DEFINE f == [j \in Keys |-> pool[j]]
    <3>1. f \in Surjection(Keys, Pools)
      BY DEF Surjection
    <3> HIDE DEF f, Pools
    <3> QED BY <1>1, <3>1, FS_Surjection
  <2>2. IsFiniteSet(Durables) /\ Cardinality(Durables) <= n
    <3> DEFINE f == [j \in Keys |-> durable[j]]
    <3>1. f \in Surjection(Keys, Durables)
      BY DEF Surjection
    <3> HIDE DEF f, Durables
    <3> QED BY <1>1, <3>1, FS_Surjection
  <2>3. IsFiniteSet(Staged) /\ Cardinality(Staged) <= n
    <3> DEFINE f == [j \in Keys |-> fetch[j].staged]
    <3>1. f \in Surjection(Keys, Staged)
      BY DEF Surjection
    <3> HIDE DEF f, Staged
    <3> QED BY <1>1, <3>1, FS_Surjection
  <2> QED BY <2>1, <2>2, <2>3
<1>3. IsFiniteSet({linking.staged}) /\ Cardinality({linking.staged}) = 1
  BY FS_Singleton
<1>4. InUse = Used /\ 0 \in Staged
  BY DEF InUse
<1> HIDE DEF Pools, Durables, Staged
<1>5. IsFiniteSet(Pools \union Durables) /\ Cardinality(Pools \union Durables) <= 2 * n
      /\ Cardinality(Pools \union Durables) \in Nat
  <2>1. /\ Cardinality(Pools \union Durables) = Cardinality(Pools) + Cardinality(Durables)
                                                - Cardinality(Pools \intersect Durables)
        /\ IsFiniteSet(Pools \union Durables)
    BY <1>2, FS_Union
  <2>2. Cardinality(Pools \intersect Durables) \in Nat /\ Cardinality(Pools) \in Nat /\ Cardinality(Durables) \in Nat
    BY <1>2, FS_Subset, FS_CardinalityType
  <2> QED BY <1>1, <1>2, <2>1, <2>2, FS_CardinalityType
<1>6. IsFiniteSet(Staged \union {linking.staged}) /\ Cardinality(Staged \union {linking.staged}) <= n + 1
      /\ Cardinality(Staged \union {linking.staged}) \in Nat
  <2>1. Cardinality(Staged) \in Nat
    BY <1>2, FS_CardinalityType
  <2>2. /\ IsFiniteSet(Staged \union {linking.staged})
        /\ Cardinality(Staged \union {linking.staged}) =
              IF linking.staged \in Staged THEN Cardinality(Staged) ELSE Cardinality(Staged) + 1
    BY <1>2, FS_AddElement
  <2> QED BY <1>1, <1>2, <2>1, <2>2
<1>7. IsFiniteSet(Used) /\ Cardinality(Used) <= 3 * n + 1
  <2>1. /\ IsFiniteSet(Used)
        /\ Cardinality(Used) = Cardinality(Pools \union Durables) + Cardinality(Staged \union {linking.staged})
              - Cardinality((Pools \union Durables) \intersect (Staged \union {linking.staged}))
    BY <1>5, <1>6, FS_Union
  <2>2. Cardinality((Pools \union Durables) \intersect (Staged \union {linking.staged})) \in Nat
    BY <1>5, FS_Subset, FS_CardinalityType
  <2> QED BY <1>1, <1>5, <1>6, <2>1, <2>2
<1>8. IsFiniteSet(Inodes) /\ Cardinality(Inodes) = 3 * n + 1 /\ 0 \notin Inodes
  <2>1. Inodes = 1..(3 * n + 1)
    BY DEF Inodes
  <2> QED BY <1>1, <2>1, FS_Interval
<1>9. ASSUME Inodes \subseteq Used PROVE FALSE
  <2>1. Inodes \subseteq Used \ {0} /\ 0 \in Used
    BY <1>4, <1>8, <1>9
  <2>2. IsFiniteSet(Used \ {0}) /\ Cardinality(Used \ {0}) = Cardinality(Used) - 1
    <3> HIDE DEF Used
    <3> QED BY <1>7, <2>1, FS_RemoveElement
  <2> HIDE DEF Used
  <2>3. Cardinality(Inodes) <= Cardinality(Used \ {0})
    BY <2>1, <2>2, FS_Subset
  <2>4. Cardinality(Used) \in Nat
    BY <1>7, FS_CardinalityType
  <2> QED BY <1>1, <1>7, <1>8, <2>2, <2>3, <2>4
<1>10. \E i \in Inodes \ InUse : TRUE
  BY <1>4, <1>9
<1> QED BY <1>10 DEF FreshInode

(* No name and no staged link leads to it. *)
LEMMA NobodyUsesFresh ==
    ASSUME PoolTypes, NEW k \in Keys, fetch[k].staged = 0
    PROVE  /\ FreshInode \in Inodes /\ FreshInode # 0 /\ linking.staged # FreshInode
           /\ \A j \in Keys : pool[j] # FreshInode /\ durable[j] # FreshInode /\ fetch[j].staged # FreshInode
<1>1. FreshInode \in Inodes /\ FreshInode \notin InUse
  BY FreshIsNew
<1>2. 0 \notin Inodes
  BY PoolConstants, FS_CardinalityType DEF Inodes
<1> QED BY <1>1, <1>2 DEF InUse

-----------------------------------------------------------------------------
(* What a step of a worker makes of its record and its .part. *)

WorkerMoves(k) ==
    /\ fetch' \in [Keys -> FetchRecord] /\ part' \in [Keys -> PartRecord]
    /\ \A j \in Keys \ {k} : fetch'[j] = fetch[j] /\ part'[j] = part[j]
    /\ Progress(fetch'[k], part'[k], Size[k])
    /\ UNCHANGED <<linking, pass, left>>

LEMMA Moves ==
    ASSUME PoolTypes, NEW k \in Keys, NEW f \in FetchRecord, NEW p \in PartRecord, Progress(f, p, Size[k]),
           fetch' = [fetch EXCEPT ![k] = f], part' = [part EXCEPT ![k] = p], UNCHANGED <<linking, pass, left>>
    PROVE  WorkerMoves(k) /\ fetch'[k] = f /\ part'[k] = p
<1>1. fetch' \in [Keys -> FetchRecord] /\ part' \in [Keys -> PartRecord] /\ fetch'[k] = f /\ part'[k] = p
      /\ \A j \in Keys \ {k} : fetch'[j] = fetch[j] /\ part'[j] = part[j]
  BY DEF PoolTypes
<1> QED BY <1>1 DEF WorkerMoves

LEMMA MovesOn ==
    ASSUME PoolTypes, NEW k \in Keys, NEW f \in FetchRecord, Progress(f, part[k], Size[k]),
           fetch' = [fetch EXCEPT ![k] = f], UNCHANGED <<part, linking, pass, left>>
    PROVE  WorkerMoves(k) /\ fetch'[k] = f /\ part'[k] = part[k]
<1>1. fetch' \in [Keys -> FetchRecord] /\ part' \in [Keys -> PartRecord] /\ fetch'[k] = f /\ part'[k] = part[k]
      /\ \A j \in Keys \ {k} : fetch'[j] = fetch[j] /\ part'[j] = part[j]
  BY DEF PoolTypes
<1> QED BY <1>1 DEF WorkerMoves

LEMMA Idle ==
    /\ NoFetch \in FetchRecord /\ NoFetch.pc = "idle" /\ NoFetch.staged = 0
    /\ NoPart \in PartRecord /\ NoPart.sound /\ NoPart.len = 0 /\ ~NoPart.on
    /\ NoLinking \in LinkingRecord /\ NoLinking.pc = "idle" /\ NoLinking.staged = 0 /\ NoLinking.todo = {}
    /\ NoPass \in PassRecord /\ NoPass.pc = "idle" /\ NoPass.todo = {} /\ NoPass.good = {}
BY DEF NoFetch, FetchRecord, NoPart, PartRecord, NoLinking, LinkingRecord, NoPass, PassRecord, Names

(* The record as it stands, and one gone back to resume. *)
LEMMA WorkerTypes ==
    ASSUME DiskInv, NEW k \in Keys
    PROVE  /\ fetch[k] \in FetchRecord /\ part[k] \in PartRecord /\ Progress(fetch[k], part[k], Size[k])
           /\ Size[k] \in Nat /\ PoolTypes /\ RecordsInv /\ items \in [Keys -> RowShape]
           /\ left \in [runs : Nat, faults : Nat, listings : Nat]
BY ConstantFunctions DEF DiskInv, PoolTypes, WriteInv

Unwritten == UNCHANGED <<pool, durable, body, rec>>

(* The steps that change no name, no inode and no record. *)
QuietWork(k) ==
    \/ Take(k) \/ ResumeFrom(k) \/ Answer(k) \/ Receive(k) \/ AttemptFails(k) \/ Cancelled(k) \/ Flush(k)
    \/ ShareHeldCopy(k) \/ StageLink(k) \/ DropPart(k)

QuietResult(k) ==
    /\ WorkerMoves(k) /\ Unwritten /\ FilesStay
    /\ fetch'[k].pc # "syncdir"
    /\ fetch'[k].pc = "link" => Intact(fetch'[k].held)
    /\ fetch'[k].pc = "rename" => fetch[k].pc = "link" /\ fetch'[k].staged = pool[fetch[k].held]
    /\ fetch'[k].pc \in {"drop", "record"} => fetch[k].pc = "drop"

LEMMA TakeFields == ASSUME DiskInv, NEW k \in Keys, Take(k) PROVE QuietResult(k)
<1> DEFINE f == [fetch[k] EXCEPT !.pc = "resume"]
<1>1. /\ fetch[k].pc = "idle" /\ SetItemState(k, "downloading") /\ fetch' = [fetch EXCEPT ![k] = f]
      /\ UNCHANGED <<part, linking, pass, left>> /\ Unwritten
  BY DEF Take, At, Goto, diskVars, Unwritten
<1>2. f \in FetchRecord /\ f.pc = "resume" /\ f.staged = fetch[k].staged
  BY WorkerTypes DEF FetchRecord
<1> HIDE DEF f
<1>3. Progress(f, part[k], Size[k])
  BY <1>1, <1>2, WorkerTypes DEF Progress
<1> QED BY <1>1, <1>2, <1>3, WorkerTypes, MovesOn, StateKeepsFiles DEF QuietResult

LEMMA ResumeFields == ASSUME DiskInv, NEW k \in Keys, ResumeFrom(k) PROVE QuietResult(k)
<1> DEFINE n == part[k].len
           f == [NoFetch EXCEPT !.pc = "ask", !.offset = n, !.pos = n, !.hashed = n]
           p == [part[k] EXCEPT !.on = TRUE]
<1>1. /\ fetch' = [fetch EXCEPT ![k] = f] /\ part' = [part EXCEPT ![k] = p]
      /\ UNCHANGED <<linking, pass, left, items>> /\ Unwritten
  BY DEF ResumeFrom, OnlyDisk, storeVars, Unwritten
<1>2. n \in Nat
  BY WorkerTypes DEF PartRecord
<1>3. p \in PartRecord /\ p.len = n /\ p.sound = part[k].sound
  BY WorkerTypes DEF PartRecord
<1>4. f \in FetchRecord /\ f.pc = "ask" /\ f.pos = n /\ f.hashed = n /\ f.staged = 0
  <2> HIDE DEF n
  <2> QED BY <1>2 DEF NoFetch, FetchRecord, Names
<1>5. part[k].sound /\ n <= Size[k]
  BY WorkerTypes DEF Progress
<1> HIDE DEF f, p, n
<1>6. Progress(f, p, Size[k])
  BY <1>3, <1>4, <1>5 DEF Progress
<1> QED BY <1>1, <1>3, <1>4, <1>6, WorkerTypes, Moves, RowsAsTheyAre DEF QuietResult

(* Nothing is charged but to a row. *)
LEMMA RefusedKeepsFiles == ASSUME DiskInv, NEW k \in Keys, Refused(k) PROVE FilesStay
BY WorkerTypes, FailureKeepsFiles, RowsAsTheyAre DEF Refused, storeVars

LEMMA StopFields ==
    ASSUME DiskInv, NEW k \in Keys, fetch' = [fetch EXCEPT ![k] = NoFetch],
           UNCHANGED <<part, linking, pass, left>>, Unwritten, FilesStay
    PROVE  QuietResult(k)
<1>1. Progress(NoFetch, part[k], Size[k])
  BY WorkerTypes, Idle DEF Progress
<1> QED BY <1>1, Idle, WorkerTypes, MovesOn DEF QuietResult

LEMMA AgainFields ==
    ASSUME DiskInv, NEW k \in Keys, NEW pc \in {"resume", "body", "commit", "record"}, Goto(k, pc),
           NEW p \in PartRecord, p.sound, p.len <= Size[k],
           part' = [part EXCEPT ![k] = p] \/ (UNCHANGED part /\ p = part[k]),
           fetch[k].staged = 0,
           pc = "body" => fetch[k].pc = "ask" /\ p.len = fetch[k].pos,
           pc = "commit" => fetch[k].pc \in {"share", "link"} /\ p = part[k],
           pc = "record" => fetch[k].pc = "drop",
           UNCHANGED <<linking, pass, left>>, Unwritten, FilesStay
    PROVE  QuietResult(k)
<1> DEFINE f == [fetch[k] EXCEPT !.pc = pc]
<1>1. fetch' = [fetch EXCEPT ![k] = f]
  BY DEF Goto
<1>2. /\ f \in FetchRecord /\ f.pc = pc /\ f.staged = 0 /\ f.pos = fetch[k].pos /\ f.hashed = fetch[k].hashed
      /\ f.digest = fetch[k].digest
  BY WorkerTypes DEF FetchRecord
<1> HIDE DEF f
<1>3. Progress(f, p, Size[k])
  BY <1>2, WorkerTypes DEF Progress
<1>4. WorkerMoves(k) /\ fetch'[k] = f
  <2>1. CASE part' = [part EXCEPT ![k] = p]
    BY <1>1, <1>2, <1>3, <2>1, WorkerTypes, Moves
  <2>2. CASE UNCHANGED part /\ p = part[k]
    BY <1>1, <1>2, <1>3, <2>2, WorkerTypes, MovesOn
  <2> QED BY <2>1, <2>2
<1> QED BY <1>2, <1>4 DEF QuietResult

LEMMA AnswerFields == ASSUME DiskInv, NEW k \in Keys, Answer(k) PROVE QuietResult(k)
<1>1. fetch[k].pc = "ask" /\ UNCHANGED <<linking, pass, left>> /\ Unwritten
  BY DEF Answer, At, Unwritten
<1>2. /\ fetch[k].staged = 0 /\ part[k].len = fetch[k].pos /\ part[k].sound /\ part[k].len <= Size[k]
      /\ part[k] \in PartRecord
  BY <1>1, WorkerTypes DEF Progress
<1>3. CASE Goto(k, "body") /\ UNCHANGED <<storeVars, part>>
  <2>1. FilesStay /\ UNCHANGED part
    BY <1>3, WorkerTypes, RowsAsTheyAre DEF storeVars
  <2> QED BY <1>1, <1>2, <1>3, <2>1, AgainFields
<1>4. CASE RangeIgnored(k)
  <2>1. part' = [part EXCEPT ![k] = NoPart] /\ Goto(k, "resume") /\ FilesStay
    BY <1>4, WorkerTypes, RowsAsTheyAre DEF RangeIgnored, storeVars
  <2>2. NoPart \in PartRecord /\ NoPart.sound /\ NoPart.len <= Size[k]
    BY Idle, WorkerTypes
  <2> QED BY <1>1, <1>2, <2>1, <2>2, AgainFields
<1>5. CASE Refused(k) /\ fetch' = [fetch EXCEPT ![k] = NoFetch] /\ UNCHANGED part
  BY <1>1, <1>5, RefusedKeepsFiles, StopFields
<1> QED BY <1>3, <1>4, <1>5 DEF Answer

LEMMA ReceiveFields == ASSUME DiskInv, NEW k \in Keys, Receive(k) PROVE QuietResult(k)
<1> DEFINE here == part[k].len = fetch[k].pos
           n == part[k].len + 1
           good == part[k].sound /\ here
           p == [part[k] EXCEPT !.len = n, !.synced = FALSE, !.sound = good]
           pos == fetch[k].pos + 1
           hashed == fetch[k].hashed + 1
           f == [fetch[k] EXCEPT !.pos = pos, !.hashed = hashed]
<1>1. fetch[k].pc = "body" /\ fetch[k].pos < Size[k] /\ UNCHANGED <<items, linking, pass, left>> /\ Unwritten
  BY DEF Receive, At, OnlyDisk, storeVars, Unwritten
<1>2. part' = [part EXCEPT ![k] = p]
  BY WorkerTypes DEF Receive, PoolTypes, PartRecord
<1>3. fetch' = [fetch EXCEPT ![k] = f]
  BY WorkerTypes DEF Receive, PoolTypes
<1>4. here /\ part[k].sound /\ fetch[k].hashed = fetch[k].pos /\ fetch[k].staged = 0
  BY <1>1, WorkerTypes DEF Progress
<1>5. n \in Nat /\ pos \in Nat /\ hashed \in Nat /\ n = pos /\ hashed = pos /\ n <= Size[k] /\ good = TRUE
  BY <1>1, <1>4, WorkerTypes DEF PartRecord, FetchRecord
<1> HIDE DEF n, pos, hashed, good, here
<1>6. p \in PartRecord /\ p.len = n /\ p.sound
  BY <1>5, WorkerTypes DEF PartRecord
<1>7. f \in FetchRecord /\ f.pc = "body" /\ f.pos = pos /\ f.hashed = hashed /\ f.staged = 0
  <2>1. fetch[k] \in FetchRecord
    BY WorkerTypes, Zenon
  <2> QED BY <1>1, <1>4, <1>5, <2>1 DEF FetchRecord
<1> HIDE DEF p, f
<1>8. Progress(f, p, Size[k])
  BY <1>5, <1>6, <1>7 DEF Progress
<1> QED BY <1>1, <1>2, <1>3, <1>6, <1>7, <1>8, WorkerTypes, Moves, RowsAsTheyAre DEF QuietResult

LEMMA FailsFields == ASSUME DiskInv, NEW k \in Keys, AttemptFails(k) \/ Cancelled(k) PROVE QuietResult(k)
<1>1. fetch[k].pc \in {"resume", "ask", "body", "commit"} /\ UNCHANGED <<part, linking, pass, left>> /\ Unwritten
  BY DEF AttemptFails, Cancelled, diskVars, Unwritten
<1>2. fetch[k].staged = 0 /\ part[k].sound /\ part[k].len <= Size[k] /\ part[k] \in PartRecord
  BY <1>1, WorkerTypes DEF Progress
<1>3. CASE Goto(k, "resume") /\ UNCHANGED storeVars
  <2>1. FilesStay
    BY <1>3, WorkerTypes, RowsAsTheyAre DEF storeVars
  <2> QED BY <1>1, <1>2, <1>3, <2>1, AgainFields
<1>4. CASE fetch' = [fetch EXCEPT ![k] = NoFetch] /\ FilesStay
  BY <1>1, <1>4, StopFields
<1> QED BY <1>3, <1>4, WorkerTypes, RefusedKeepsFiles, RowsAsTheyAre DEF AttemptFails, Cancelled, storeVars

(* What is flushed is the whole file, and so is what was hashed. *)
LEMMA FlushFields == ASSUME DiskInv, NEW k \in Keys, Flush(k) PROVE QuietResult(k)
<1> DEFINE digest == Hashed(k)
           f == [fetch[k] EXCEPT !.pc = "share", !.digest = digest]
           p == [part[k] EXCEPT !.synced = TRUE]
<1>1. fetch[k].pc = "body" /\ fetch[k].pos = Size[k] /\ UNCHANGED <<items, linking, pass, left>> /\ Unwritten
  BY DEF Flush, At, OnlyDisk, storeVars, Unwritten
<1>2. part' = [part EXCEPT ![k] = p]
  BY WorkerTypes DEF Flush, PoolTypes
<1>3. fetch' = [fetch EXCEPT ![k] = f]
  BY WorkerTypes DEF Flush, PoolTypes
<1>4. fetch[k].hashed = Size[k] /\ part[k].len = Size[k] /\ part[k].sound /\ fetch[k].staged = 0
  BY <1>1, WorkerTypes DEF Progress
<1>5. digest = "whole"
  BY <1>4 DEF Hashed
<1> HIDE DEF digest
<1>6. p \in PartRecord /\ p.len = Size[k] /\ p.sound /\ p.synced
  BY <1>4, WorkerTypes DEF PartRecord
<1>7. f \in FetchRecord /\ f.pc = "share" /\ f.digest = "whole" /\ f.staged = 0
  <2>1. fetch[k] \in FetchRecord
    BY WorkerTypes, Zenon
  <2> QED BY <1>4, <1>5, <2>1 DEF FetchRecord
<1> HIDE DEF p, f
<1>8. Progress(f, p, Size[k])
  BY <1>6, <1>7, WorkerTypes DEF Progress
<1> QED BY <1>1, <1>2, <1>3, <1>6, <1>7, <1>8, WorkerTypes, Moves, RowsAsTheyAre DEF QuietResult

LEMMA ShareFields == ASSUME DiskInv, NEW k \in Keys, ShareHeldCopy(k) PROVE QuietResult(k)
<1>1. fetch[k].pc = "share" /\ UNCHANGED <<items, part, linking, pass, left>> /\ Unwritten
  BY DEF ShareHeldCopy, At, OnlyDisk, storeVars, diskVars, Unwritten
<1>2. fetch[k].staged = 0 /\ part[k].sound /\ part[k].len <= Size[k] /\ part[k] \in PartRecord /\ FilesStay
  BY <1>1, WorkerTypes, RowsAsTheyAre DEF Progress
<1>3. CASE Goto(k, "commit")
  BY <1>1, <1>2, <1>3, AgainFields
<1>4. ASSUME NEW c \in HeldCopies(k), Intact(c), fetch' = [fetch EXCEPT ![k].pc = "link", ![k].held = c]
      PROVE  QuietResult(k)
  <2> DEFINE f == [fetch[k] EXCEPT !.pc = "link", !.held = c]
  <2>1. c \in Keys
    BY DEF HeldCopies
  <2>2. fetch' = [fetch EXCEPT ![k] = f]
    BY <1>4, WorkerTypes DEF PoolTypes
  <2>3. f \in FetchRecord /\ f.pc = "link" /\ f.held = c /\ f.digest = fetch[k].digest /\ f.staged = 0
    <3>1. fetch[k] \in FetchRecord
      BY WorkerTypes, Zenon
    <3> QED BY <1>2, <2>1, <3>1 DEF FetchRecord
  <2> HIDE DEF f
  <2>4. Progress(f, part[k], Size[k])
    BY <1>1, <2>1, <2>3, WorkerTypes DEF Progress
  <2> QED BY <1>1, <1>2, <1>4, <2>2, <2>3, <2>4, WorkerTypes, MovesOn DEF QuietResult
<1> QED BY <1>3, <1>4 DEF ShareHeldCopy

LEMMA StageFields == ASSUME DiskInv, NEW k \in Keys, StageLink(k) PROVE QuietResult(k)
<1>1. fetch[k].pc = "link" /\ UNCHANGED <<items, part, linking, pass, left>> /\ Unwritten
  BY DEF StageLink, At, OnlyDisk, storeVars, diskVars, Unwritten
<1>2. /\ fetch[k].staged = 0 /\ part[k].sound /\ part[k].len <= Size[k] /\ part[k] \in PartRecord /\ FilesStay
      /\ fetch[k].held \in Keys
  BY <1>1, WorkerTypes, RowsAsTheyAre DEF Progress
<1>3. CASE Goto(k, "commit")
  BY <1>1, <1>2, <1>3, AgainFields
<1>4. CASE /\ pool[fetch[k].held] # 0
           /\ fetch' = [fetch EXCEPT ![k].pc = "rename", ![k].staged = pool[fetch[k].held]]
  <2> DEFINE i == pool[fetch[k].held]
             f == [fetch[k] EXCEPT !.pc = "rename", !.staged = i]
  <2>1. i \in Names /\ i # 0
    BY <1>2, <1>4, WorkerTypes DEF PoolTypes
  <2>2. fetch' = [fetch EXCEPT ![k] = f]
    BY <1>4, WorkerTypes DEF PoolTypes
  <2>3. f \in FetchRecord /\ f.pc = "rename" /\ f.held = fetch[k].held /\ f.digest = fetch[k].digest /\ f.staged = i
    <3> HIDE DEF i
    <3> QED BY <2>1, WorkerTypes DEF FetchRecord
  <2> HIDE DEF f
  <2>4. Progress(f, part[k], Size[k])
    BY <1>1, <1>2, <2>1, <2>3, WorkerTypes DEF Progress
  <2> QED BY <1>1, <1>2, <2>2, <2>3, <2>4, WorkerTypes, MovesOn DEF QuietResult
<1> QED BY <1>3, <1>4 DEF StageLink

LEMMA DropFields == ASSUME DiskInv, NEW k \in Keys, DropPart(k) PROVE QuietResult(k)
<1>1. /\ fetch[k].pc = "drop" /\ part' = [part EXCEPT ![k] = NoPart] /\ Goto(k, "record")
      /\ UNCHANGED <<items, linking, pass, left>> /\ Unwritten
  BY DEF DropPart, At, OnlyDisk, storeVars, Unwritten
<1>2. fetch[k].staged = 0 /\ NoPart \in PartRecord /\ NoPart.sound /\ NoPart.len <= Size[k] /\ FilesStay
  BY <1>1, Idle, WorkerTypes, RowsAsTheyAre DEF Progress
<1> QED BY <1>1, <1>2, AgainFields

LEMMA QuietFields == ASSUME DiskInv, NEW k \in Keys, QuietWork(k) PROVE QuietResult(k)
BY TakeFields, ResumeFields, AnswerFields, ReceiveFields, FailsFields, FlushFields, ShareFields, StageFields,
   DropFields, Zenon DEF QuietWork

-----------------------------------------------------------------------------
(* The steps of a worker that change a name or a record. *)

(* One name changes hands; nothing else of the disk does, but what a commit
   writes to an inode nobody used. *)
Named(k, i) ==
    /\ pool' = [pool EXCEPT ![k] = i] /\ UNCHANGED <<durable, rec>>
    /\ i \in Inodes

Fresh(i) ==
    /\ i # linking.staged
    /\ \A j \in Keys : pool[j] # i /\ durable[j] # i /\ fetch[j].staged # i
    /\ body' = [body EXCEPT ![i] = "whole"]

LEMMA RenameFields ==
    ASSUME DiskInv, NEW k \in Keys, RenameLink(k)
    PROVE  /\ WorkerMoves(k) /\ FilesStay /\ fetch'[k].pc = "syncdir" /\ fetch[k].pc = "rename"
           /\ Named(k, fetch[k].staged) /\ UNCHANGED body
<1> DEFINE f == [fetch[k] EXCEPT !.pc = "syncdir", !.staged = 0]
<1>1. /\ fetch[k].pc = "rename" /\ UNCHANGED <<items, part, linking, pass, left, durable, body, rec>>
      /\ pool' = [pool EXCEPT ![k] = fetch[k].staged]
  BY DEF RenameLink, At, OnlyDisk, storeVars
<1>2. fetch' = [fetch EXCEPT ![k] = f]
  BY WorkerTypes DEF RenameLink, PoolTypes
<1>3. fetch[k].staged \in Inodes
  BY <1>1, WorkerTypes DEF Progress, FetchRecord, Names
<1>4. f \in FetchRecord /\ f.pc = "syncdir" /\ f.staged = 0 /\ f.digest = fetch[k].digest
  BY WorkerTypes DEF FetchRecord, Names
<1> HIDE DEF f
<1>5. Progress(f, part[k], Size[k])
  BY <1>1, <1>4, WorkerTypes DEF Progress
<1> QED BY <1>1, <1>2, <1>3, <1>4, <1>5, WorkerTypes, MovesOn, RowsAsTheyAre DEF Named

(* What is committed is all there and flushed. *)
LEMMA CommitFields ==
    ASSUME DiskInv, NEW k \in Keys, Commit(k)
    PROVE  /\ WorkerMoves(k) /\ FilesStay /\ fetch'[k].pc = "syncdir"
           /\ \E i \in Inodes : Named(k, i) /\ Fresh(i)
<1> DEFINE f == [fetch[k] EXCEPT !.pc = "syncdir"]
<1>1. /\ fetch[k].pc = "commit" /\ UNCHANGED <<items, linking, pass, left, durable, rec>>
      /\ pool' = [pool EXCEPT ![k] = FreshInode] /\ part' = [part EXCEPT ![k] = NoPart]
      /\ fetch' = [fetch EXCEPT ![k] = f]
  BY DEF Commit, At, Goto, OnlyDisk, storeVars
<1>2. /\ fetch[k].staged = 0 /\ part[k].len = Size[k] /\ part[k].sound /\ part[k].synced
      /\ fetch[k].digest = "whole"
  BY <1>1, WorkerTypes DEF Progress
<1>3. body' = [body EXCEPT ![FreshInode] = "whole"]
  BY <1>2 DEF Commit
<1>4. Named(k, FreshInode) /\ Fresh(FreshInode) /\ FreshInode \in Inodes
  BY <1>1, <1>2, <1>3, WorkerTypes, NobodyUsesFresh DEF Named, Fresh
<1>5. f \in FetchRecord /\ f.pc = "syncdir" /\ f.staged = 0 /\ f.digest = fetch[k].digest
  BY <1>2, WorkerTypes DEF FetchRecord
<1> HIDE DEF f
<1>6. Progress(f, NoPart, Size[k])
  BY <1>2, <1>5, Idle, WorkerTypes DEF Progress
<1>7. WorkerMoves(k) /\ fetch'[k] = f
  BY <1>1, <1>5, <1>6, Idle, WorkerTypes, Moves
<1>8. FilesStay
  BY <1>1, WorkerTypes, RowsAsTheyAre
<1> QED BY <1>4, <1>5, <1>7, <1>8

LEMMA SyncFields ==
    ASSUME DiskInv, NEW k \in Keys, SyncDir(k)
    PROVE  /\ WorkerMoves(k) /\ FilesStay /\ fetch'[k].pc \in {"drop", "record"} /\ fetch[k].pc = "syncdir"
           /\ durable' = [durable EXCEPT ![k] = pool[k]] /\ UNCHANGED <<pool, body, rec>>
<1> DEFINE pc == IF part[k].on THEN "drop" ELSE "record"
           f == [fetch[k] EXCEPT !.pc = pc]
<1>1. /\ fetch[k].pc = "syncdir" /\ UNCHANGED <<items, part, linking, pass, left, pool, body, rec>>
      /\ durable' = [durable EXCEPT ![k] = pool[k]] /\ fetch' = [fetch EXCEPT ![k] = f]
  BY DEF SyncDir, At, Goto, OnlyDisk, storeVars
<1>2. pc \in {"drop", "record"}
  OBVIOUS
<1> HIDE DEF pc
<1>3. f \in FetchRecord /\ f.pc = pc /\ f.staged = fetch[k].staged /\ f.digest = fetch[k].digest
  BY <1>2, WorkerTypes DEF FetchRecord
<1> HIDE DEF f
<1>4. Progress(f, part[k], Size[k])
  BY <1>1, <1>2, <1>3, WorkerTypes DEF Progress
<1> QED BY <1>1, <1>2, <1>3, <1>4, WorkerTypes, MovesOn, RowsAsTheyAre

(* The record follows the file. *)
Recorded(k) ==
    /\ items' \in [Keys -> RowShape] /\ rec' \in [Keys -> {"none", "whole"}]
    /\ \A j \in Keys \ {k} : items'[j] = items[j] /\ rec'[j] = rec[j]
    /\ items'[k].held <=> rec'[k] = "whole"
    /\ items'[k].held => HasRow(k)'
    /\ items[k].held => items'[k].held

LEMMA RecordFields ==
    ASSUME DiskInv, NEW k \in Keys, RecordSuccess(k)
    PROVE  /\ WorkerMoves(k) /\ Recorded(k) /\ fetch'[k] = NoFetch /\ fetch[k].pc = "record"
           /\ UNCHANGED <<pool, durable, body>>
<1>1. /\ fetch[k].pc = "record" /\ UNCHANGED <<part, linking, pass, left, pool, durable, body>>
      /\ fetch' = [fetch EXCEPT ![k] = NoFetch]
  BY DEF RecordSuccess, At
<1>2. Progress(NoFetch, part[k], Size[k]) /\ fetch[k].digest = "whole"
  BY <1>1, Idle, WorkerTypes DEF Progress
<1>3. WorkerMoves(k) /\ fetch'[k] = NoFetch
  BY <1>1, <1>2, Idle, WorkerTypes, MovesOn
<1>4. CASE HasRow(k)
  <2> DEFINE to == UnlessWrittenOff(items[k], "done")
             r == [items[k] EXCEPT !.state = to, !.held = TRUE, !.fails = 0]
  <2>1. items' = [items EXCEPT ![k] = r] /\ rec' = [rec EXCEPT ![k] = "whole"]
    BY <1>2, <1>4 DEF RecordSuccess, MarkDownloaded
  <2>2. to \in States /\ to # "absent"
    BY DEF UnlessWrittenOff, States
  <2>3. r \in RowShape /\ r.held /\ r.state = to
    <3> HIDE DEF to
    <3> QED BY <2>2, WorkerTypes DEF RowShape
  <2> HIDE DEF r, to
  <2>4. Recorded(k)
    BY <2>1, <2>2, <2>3, WorkerTypes DEF Recorded, PoolTypes, HasRow
  <2> QED BY <1>1, <1>3, <2>4
<1>5. CASE ~HasRow(k)
  <2>1. UNCHANGED <<items, rec>>
    BY <1>5 DEF RecordSuccess, storeVars
  <2>2. Recorded(k)
    BY <2>1, WorkerTypes DEF Recorded, PoolTypes, RecordsInv, HasRow
  <2> QED BY <1>1, <1>3, <2>2
<1> QED BY <1>4, <1>5
-----------------------------------------------------------------------------
(* The linking pass. *)

QuietLinks ==
    \/ CheckKept \/ LinkCopy \/ LinkingEnds
    \/ \E c \in Keys : StartLinking(c) \/ CheckCopy(c)

LinkerMoves ==
    /\ UNCHANGED <<items, part, body, rec, fetch, pass>>
    /\ left' \in [runs : Nat, faults : Nat, listings : Nat]
    /\ linking' \in LinkingRecord /\ LinkingProgress'

(* A pass that links goes by a kept copy it has read. *)
Linking(l) == l.pc = "link" \/ (l.pc \in {"next", "rename", "syncdir"} /\ l.todo # {})

QuietLinksResult ==
    /\ LinkerMoves /\ UNCHANGED <<pool, durable>>
    /\ linking'.pc # "syncdir"
    /\ linking'.pc = "rename" => linking.pc = "link" /\ linking'.staged = pool[linking.kept]
    /\ Linking(linking') => linking'.kept = linking.kept /\ (Linking(linking) \/ Intact(linking.kept))

LEMMA LinkerTypes ==
    ASSUME DiskInv
    PROVE  /\ linking \in LinkingRecord /\ LinkingProgress /\ PoolTypes
           /\ left \in [runs : Nat, faults : Nat, listings : Nat]
BY DEF DiskInv, PoolTypes, WriteInv

LEMMA CheckKeptFields == ASSUME DiskInv, CheckKept PROVE QuietLinksResult
<1>1. /\ linking.pc = "kept" /\ UNCHANGED <<items, part, body, rec, fetch, pass, pool, durable, left>>
      /\ linking.kept \in Keys /\ linking.staged = 0
  BY LinkerTypes DEF CheckKept, OnlyLinking, storeVars, LinkingProgress
<1> DEFINE yes == [linking EXCEPT !.pc = "next"]
           no == [linking EXCEPT !.pc = "next", !.todo = {}]
<1>2. /\ yes \in LinkingRecord /\ yes.pc = "next" /\ yes.kept = linking.kept /\ yes.staged = linking.staged
      /\ no \in LinkingRecord /\ no.pc = "next" /\ no.kept = linking.kept /\ no.staged = linking.staged /\ no.todo = {}
  BY LinkerTypes DEF LinkingRecord
<1>3. (linking' = yes /\ Intact(linking.kept)) \/ linking' = no
  BY DEF CheckKept
<1> HIDE DEF yes, no
<1>4. /\ linking' \in LinkingRecord /\ linking'.pc = "next" /\ linking'.kept = linking.kept /\ linking'.staged = 0
      /\ linking'.todo # {} => Intact(linking.kept)
  BY <1>1, <1>2, <1>3
<1>5. LinkingProgress'
  BY <1>1, <1>4 DEF LinkingProgress
<1> QED BY <1>1, <1>4, <1>5, LinkerTypes DEF QuietLinksResult, LinkerMoves, Linking

LEMMA CheckCopyFields == ASSUME DiskInv, NEW c \in Keys, CheckCopy(c) PROVE QuietLinksResult
<1> DEFINE pc == IF Intact(c) THEN "link" ELSE "next"
           rest == linking.todo \ {c}
           l == [linking EXCEPT !.todo = rest, !.copy = c, !.pc = pc]
<1>1. /\ linking.pc = "next" /\ UNCHANGED <<items, part, body, rec, fetch, pass, pool, durable, left>>
      /\ linking.kept \in Keys /\ linking.staged = 0 /\ c \in linking.todo /\ linking' = l
  BY LinkerTypes DEF CheckCopy, OnlyLinking, storeVars, LinkingProgress
<1>2. pc \in {"link", "next"} /\ rest \in SUBSET Keys
  BY LinkerTypes DEF LinkingRecord
<1> HIDE DEF pc, rest
<1>3. /\ l \in LinkingRecord /\ l.pc = pc /\ l.kept = linking.kept /\ l.staged = linking.staged
      /\ l.copy = c
  BY <1>2, LinkerTypes DEF LinkingRecord
<1> HIDE DEF l
<1>4. LinkingProgress'
  BY <1>1, <1>2, <1>3 DEF LinkingProgress
<1> QED BY <1>1, <1>2, <1>3, <1>4, LinkerTypes DEF QuietLinksResult, LinkerMoves, Linking

LEMMA LinkCopyFields == ASSUME DiskInv, LinkCopy PROVE QuietLinksResult
<1> DEFINE i == pool[linking.kept]
           none == [linking EXCEPT !.pc = "next"]
           some == [linking EXCEPT !.pc = "rename", !.staged = i]
<1>1. /\ linking.pc = "link" /\ UNCHANGED <<items, part, body, rec, fetch, pass, pool, durable, left>>
      /\ linking.kept \in Keys /\ linking.copy \in Keys /\ linking.staged = 0
      /\ (i = 0 /\ linking' = none) \/ (i # 0 /\ linking' = some)
  BY LinkerTypes DEF LinkCopy, OnlyLinking, storeVars, LinkingProgress
<1>2. i \in Names
  BY <1>1, LinkerTypes DEF PoolTypes
<1>3. i = pool[linking.kept]
  OBVIOUS
<1> HIDE DEF i
<1>4. /\ none \in LinkingRecord /\ none.pc = "next" /\ none.kept = linking.kept /\ none.staged = linking.staged
      /\ some \in LinkingRecord /\ some.pc = "rename" /\ some.kept = linking.kept /\ some.staged = i
      /\ some.copy = linking.copy
  BY <1>2, LinkerTypes DEF LinkingRecord
<1> HIDE DEF none, some
<1>5. LinkingProgress'
  BY <1>1, <1>4 DEF LinkingProgress
<1> QED BY <1>1, <1>3, <1>4, <1>5, LinkerTypes DEF QuietLinksResult, LinkerMoves, Linking

LEMMA StartAndEndFields ==
    ASSUME DiskInv, LinkingEnds \/ \E c \in Keys : StartLinking(c)
    PROVE  QuietLinksResult
<1>1. /\ UNCHANGED <<items, part, body, rec, fetch, pass, pool, durable>>
      /\ left' = left \/ (left.runs > 0 /\ left' = [left EXCEPT !.runs = @ - 1])
      /\ linking' = NoLinking
         \/ \E c \in Keys : linking' = [NoLinking EXCEPT !.pc = "kept", !.kept = c, !.todo = Separate(c)]
  BY DEF LinkingEnds, StartLinking, OnlyLinking, storeVars, diskVars
<1>2. left' \in [runs : Nat, faults : Nat, listings : Nat]
  BY <1>1, LinkerTypes, SpentLeft
<1>3. CASE linking' = NoLinking
  <2>1. LinkingProgress'
    BY <1>3, Idle DEF LinkingProgress
  <2> QED BY <1>1, <1>2, <1>3, <2>1, Idle DEF QuietLinksResult, LinkerMoves, Linking
<1>4. ASSUME NEW c \in Keys, linking' = [NoLinking EXCEPT !.pc = "kept", !.kept = c, !.todo = Separate(c)]
      PROVE  QuietLinksResult
  <2> DEFINE todo == Separate(c)
             l == [NoLinking EXCEPT !.pc = "kept", !.kept = c, !.todo = todo]
  <2>1. todo \in SUBSET Keys
    BY DEF Separate, SameBytesGroup
  <2> HIDE DEF todo
  <2>2. l \in LinkingRecord /\ l.pc = "kept" /\ l.kept = c /\ l.staged = 0
    BY <2>1 DEF NoLinking, LinkingRecord, Names
  <2>3. linking' = l
    BY <1>4 DEF todo
  <2> HIDE DEF l
  <2>4. LinkingProgress'
    BY <2>2, <2>3 DEF LinkingProgress
  <2> QED BY <1>1, <1>2, <2>2, <2>3, <2>4 DEF QuietLinksResult, LinkerMoves, Linking
<1> QED BY <1>1, <1>3, <1>4

LEMMA QuietLinksFields == ASSUME DiskInv, QuietLinks PROVE QuietLinksResult
BY CheckKeptFields, CheckCopyFields, LinkCopyFields, StartAndEndFields, Zenon DEF QuietLinks

LEMMA RenameCopyFields ==
    ASSUME DiskInv, RenameCopy
    PROVE  /\ LinkerMoves /\ linking.copy \in Keys /\ linking.pc = "rename" /\ Named(linking.copy, linking.staged)
           /\ linking'.pc = "syncdir" /\ linking'.copy = linking.copy
           /\ linking'.kept = linking.kept /\ linking'.todo = linking.todo
<1> DEFINE l == [linking EXCEPT !.pc = "syncdir", !.staged = 0]
<1>1. /\ linking.pc = "rename" /\ UNCHANGED <<items, part, body, rec, fetch, pass, durable, left>>
      /\ linking.kept \in Keys /\ linking.copy \in Keys /\ linking.staged # 0 /\ linking' = l
      /\ pool' = [pool EXCEPT ![linking.copy] = linking.staged]
  BY LinkerTypes DEF RenameCopy, OnlyLinking, storeVars, LinkingProgress
<1>2. l \in LinkingRecord /\ l.pc = "syncdir" /\ l.kept = linking.kept /\ l.copy = linking.copy /\ l.staged = 0
      /\ l.todo = linking.todo
  BY LinkerTypes DEF LinkingRecord, Names
<1>3. linking.staged \in Inodes
  BY <1>1, LinkerTypes DEF LinkingRecord, Names
<1> HIDE DEF l
<1>4. LinkingProgress'
  BY <1>1, <1>2 DEF LinkingProgress
<1> QED BY <1>1, <1>2, <1>3, <1>4, LinkerTypes DEF LinkerMoves, Named

LEMMA SyncCopyFields ==
    ASSUME DiskInv, SyncCopy
    PROVE  /\ LinkerMoves /\ linking.copy \in Keys /\ linking.pc = "syncdir" /\ UNCHANGED pool
           /\ durable' = [durable EXCEPT ![linking.copy] = pool[linking.copy]]
           /\ linking'.pc = "next" /\ linking'.kept = linking.kept /\ linking'.todo = linking.todo
<1> DEFINE l == [linking EXCEPT !.pc = "next"]
<1>1. /\ linking.pc = "syncdir" /\ UNCHANGED <<items, part, body, rec, fetch, pass, pool, left>>
      /\ linking.kept \in Keys /\ linking.copy \in Keys /\ linking.staged = 0 /\ linking' = l
      /\ durable' = [durable EXCEPT ![linking.copy] = pool[linking.copy]]
  BY LinkerTypes DEF SyncCopy, OnlyLinking, storeVars, LinkingProgress
<1>2. l \in LinkingRecord /\ l.pc = "next" /\ l.kept = linking.kept /\ l.staged = linking.staged
      /\ l.todo = linking.todo
  BY LinkerTypes DEF LinkingRecord
<1> HIDE DEF l
<1>3. LinkingProgress'
  BY <1>1, <1>2 DEF LinkingProgress
<1> QED BY <1>1, <1>2, <1>3, LinkerTypes DEF LinkerMoves
-----------------------------------------------------------------------------
(* A pass of RemoveTwins. *)

PassMoves(p) ==
    /\ pass' \in [Passes -> PassRecord]
    /\ \A q \in Passes \ {p} : pass'[q] = pass[q]
    /\ left' \in [runs : Nat, faults : Nat, listings : Nat]
    /\ UNCHANGED <<part, durable, body, fetch, linking>>

LEMMA PassTypes ==
    ASSUME DiskInv, NEW p \in Passes
    PROVE  /\ pass \in [Passes -> PassRecord] /\ pass[p] \in PassRecord
           /\ left \in [runs : Nat, faults : Nat, listings : Nat]
BY DEF DiskInv, PoolTypes

LEMMA PassMoved ==
    ASSUME DiskInv, NEW p \in Passes, NEW r \in PassRecord, pass' = [pass EXCEPT ![p] = r],
           left' \in [runs : Nat, faults : Nat, listings : Nat], UNCHANGED <<part, durable, body, fetch, linking>>
    PROVE  PassMoves(p) /\ pass'[p] = r
BY PassTypes DEF PassMoves

LEMMA PassStartsFields ==
    ASSUME DiskInv, NEW p \in Passes, PassStarts(p)
    PROVE  /\ PassMoves(p) /\ UNCHANGED <<items, rec, pool>>
           /\ pass'[p].pc = "next" /\ pass'[p].good = {}
           /\ \E f \in Pairings : pass'[p].todo = {<<k, f[k]>> : k \in DOMAIN f}
<1>1. /\ left.runs > 0 /\ left' = [left EXCEPT !.runs = @ - 1]
      /\ UNCHANGED <<items, rec, pool, part, durable, body, fetch, linking>>
  BY DEF PassStarts, storeVars, diskVars
<1>2. PICK f \in Pairings :
        pass' = [pass EXCEPT ![p] = [NoPass EXCEPT !.pc = "next", !.todo = {<<k, f[k]>> : k \in DOMAIN f}]]
  BY DEF PassStarts
<1> DEFINE todo == {<<k, f[k]>> : k \in DOMAIN f}
           r == [NoPass EXCEPT !.pc = "next", !.todo = todo]
<1>3. todo \in SUBSET (Keys \X Keys)
  BY DEF Pairings
<1>4. todo = {<<k, f[k]>> : k \in DOMAIN f} /\ pass' = [pass EXCEPT ![p] = r]
  BY <1>2
<1> HIDE DEF todo
<1>5. r \in PassRecord /\ r.pc = "next" /\ r.good = {} /\ r.todo = todo
  BY <1>3 DEF NoPass, PassRecord
<1> HIDE DEF r
<1>6. PassMoves(p) /\ pass'[p] = r
  BY <1>1, <1>4, <1>5, PassTypes, PassMoved, SpentLeft
<1> QED BY <1>1, <1>4, <1>5, <1>6

LEMMA CheckTwinFields ==
    ASSUME DiskInv, NEW p \in Passes, NEW t \in Keys \X Keys, CheckTwin(p, t)
    PROVE  /\ PassMoves(p) /\ UNCHANGED <<items, rec, pool>>
           /\ pass[p].pc = "next" /\ t \in pass[p].todo
           /\ pass'[p].pc \in {"next", "unlink"} /\ pass'[p].twin = t /\ pass'[p].todo = pass[p].todo \ {t}
           /\ pass'[p].pc = "unlink" => t[2] \in pass'[p].good
           /\ pass'[p].good \subseteq pass[p].good \union {t[2]}
           /\ t[2] \in pass'[p].good => t[2] \in pass[p].good \/ Intact(t[2])
<1> DEFINE me == pass[p]
           fine == t[2] \in me.good \/ (t[2] \notin me.bad /\ Intact(t[2]))
           rest == me.todo \ {t}
           pc == IF fine THEN "unlink" ELSE "next"
           good == IF fine THEN me.good \union {t[2]} ELSE me.good
           bad == IF fine THEN me.bad ELSE me.bad \union {t[2]}
           r == [me EXCEPT !.todo = rest, !.twin = t, !.pc = pc, !.good = good, !.bad = bad]
<1>1. /\ me.pc = "next" /\ t \in me.todo
      /\ UNCHANGED <<items, rec, pool, part, durable, body, fetch, linking, left>>
  BY DEF CheckTwin, storeVars, diskVars
<1>2. pass' = [pass EXCEPT ![p] = r]
  BY Zenon DEF CheckTwin
<1>3. me \in PassRecord /\ t[2] \in Keys
  BY PassTypes
<1>4. /\ rest \in SUBSET (Keys \X Keys) /\ pc \in {"next", "unlink"} /\ good \in SUBSET Keys /\ bad \in SUBSET Keys
      /\ pc = "unlink" => t[2] \in good
      /\ good \subseteq me.good \union {t[2]}
      /\ t[2] \in good => t[2] \in me.good \/ Intact(t[2])
  <2> HIDE DEF me
  <2> QED BY <1>3 DEF PassRecord
<1>5. rest = pass[p].todo \ {t} /\ me = pass[p]
  OBVIOUS
<1> HIDE DEF me, fine, rest, pc, good, bad
<1>6. r \in PassRecord /\ r.pc = pc /\ r.good = good /\ r.todo = rest /\ r.twin = t
  BY <1>3, <1>4 DEF PassRecord
<1> HIDE DEF r
<1>7. PassMoves(p) /\ pass'[p] = r
  BY <1>1, <1>2, <1>6, PassTypes, PassMoved
<1> QED BY <1>1, <1>4, <1>5, <1>6, <1>7

LEMMA UnlinkFields ==
    ASSUME DiskInv, NEW p \in Passes, Unlink(p)
    PROVE  /\ PassMoves(p) /\ UNCHANGED <<items, rec>> /\ pool' = [pool EXCEPT ![pass[p].twin[1]] = 0]
           /\ pass[p].pc = "unlink" /\ pass'[p].pc = "forget" /\ pass'[p].twin = pass[p].twin
           /\ pass'[p].todo = pass[p].todo /\ pass'[p].good = pass[p].good
<1> DEFINE r == [pass[p] EXCEPT !.pc = "forget"]
<1>1. /\ pass[p].pc = "unlink" /\ UNCHANGED <<items, rec, part, durable, body, fetch, linking, left>>
      /\ pool' = [pool EXCEPT ![pass[p].twin[1]] = 0] /\ pass' = [pass EXCEPT ![p] = r]
  BY DEF Unlink, storeVars
<1>2. /\ r \in PassRecord /\ r.pc = "forget" /\ r.twin = pass[p].twin /\ r.todo = pass[p].todo
      /\ r.good = pass[p].good
  BY PassTypes DEF PassRecord
<1> HIDE DEF r
<1> QED BY <1>1, <1>2, PassTypes, PassMoved

LEMMA ForgetFields ==
    ASSUME DiskInv, NEW p \in Passes, ForgetTwin(p)
    PROVE  /\ PassMoves(p) /\ UNCHANGED pool
           /\ items' = [items EXCEPT ![pass[p].twin[1]] = NoRow]
           /\ rec' = [rec EXCEPT ![pass[p].twin[1]] = "none"]
           /\ pass[p].pc = "forget" /\ pass'[p].pc = "next"
           /\ pass'[p].todo = pass[p].todo /\ pass'[p].good = pass[p].good
<1> DEFINE r == [pass[p] EXCEPT !.pc = "next"]
<1>1. /\ pass[p].pc = "forget" /\ UNCHANGED <<pool, part, durable, body, fetch, linking, left>>
      /\ items' = [items EXCEPT ![pass[p].twin[1]] = NoRow]
      /\ rec' = [rec EXCEPT ![pass[p].twin[1]] = "none"] /\ pass' = [pass EXCEPT ![p] = r]
  BY DEF ForgetTwin, Forget
<1>2. r \in PassRecord /\ r.pc = "next" /\ r.todo = pass[p].todo /\ r.good = pass[p].good
  BY PassTypes DEF PassRecord
<1> HIDE DEF r
<1> QED BY <1>1, <1>2, PassTypes, PassMoved

LEMMA PassEndsFields ==
    ASSUME DiskInv, NEW p \in Passes, PassEnds(p)
    PROVE  PassMoves(p) /\ UNCHANGED <<items, rec, pool>> /\ pass'[p] = NoPass
<1>1. /\ UNCHANGED <<items, rec, pool, part, durable, body, fetch, linking, left>>
      /\ pass' = [pass EXCEPT ![p] = NoPass]
  BY DEF PassEnds, storeVars, diskVars
<1> QED BY <1>1, Idle, PassTypes, PassMoved

-----------------------------------------------------------------------------
(* The end of a run and the faults. *)

LEMMA TidyFields ==
    ASSUME DiskInv, Tidy
    PROVE  /\ UNCHANGED <<items, pool, durable, body, rec, fetch, linking, pass, left>>
           /\ part' \in [Keys -> PartRecord]
           /\ \A k \in Keys : Progress(fetch[k], part'[k], Size[k])
<1>1. /\ UNCHANGED <<items, pool, durable, body, rec, fetch, linking, pass, left>>
      /\ \A k \in Keys : fetch[k].pc = "idle"
  BY DEF Tidy, storeVars
<1>2. PICK keep : part' = [k \in Keys |-> IF k \in keep THEN part[k] ELSE NoPart]
  BY DEF Tidy
<1>3. ASSUME NEW k \in Keys PROVE part'[k] \in PartRecord /\ Progress(fetch[k], part'[k], Size[k])
  <2>1. part'[k] = part[k] \/ part'[k] = NoPart
    BY <1>2
  <2> QED BY <1>1, <2>1, Idle, WorkerTypes DEF Progress
<1> QED BY <1>1, <1>2, <1>3

LEMMA CrashFields ==
    ASSUME DiskInv, Crash
    PROVE  /\ UNCHANGED <<items, part, pool, durable, body, rec, pass>> /\ DiskFault
           /\ left' \in [runs : Nat, faults : Nat, listings : Nat]
           /\ fetch' = [k \in Keys |-> NoFetch] /\ linking' = NoLinking
<1>1. /\ UNCHANGED <<items, part, pool, durable, body, rec, pass>>
      /\ left.faults > 0 /\ left' = [left EXCEPT !.faults = @ - 1]
      /\ fetch' = [k \in Keys |-> NoFetch] /\ linking' = NoLinking
  BY DEF Crash, Spend, storeVars, diskVars
<1>2. left \in [runs : Nat, faults : Nat, listings : Nat]
  BY LinkerTypes
<1> QED BY <1>1, <1>2, SpentLeft DEF DiskFault

(* Nothing anybody flushed is lost, and what a power cut brings back is whole. *)
LEMMA PowerFields ==
    ASSUME DiskInv, PowerCut
    PROVE  /\ UNCHANGED <<items, body, rec>> /\ DiskFault
           /\ left' \in [runs : Nat, faults : Nat, listings : Nat]
           /\ fetch' = [k \in Keys |-> NoFetch] /\ linking' = NoLinking /\ pass' = [p \in Passes |-> NoPass]
           /\ pool' \in [Keys -> Names] /\ durable' = pool'
           /\ \A k \in Keys : pool'[k] \in {pool[k], durable[k]}
           /\ part' \in [Keys -> PartRecord]
           /\ \A k \in Keys : part'[k].sound /\ part'[k].len <= Size[k]
<1>1. /\ UNCHANGED <<items, rec>>
      /\ left.faults > 0 /\ left' = [left EXCEPT !.faults = @ - 1]
      /\ fetch' = [k \in Keys |-> NoFetch] /\ linking' = NoLinking /\ pass' = [p \in Passes |-> NoPass]
      /\ body' = [i \in Inodes |-> IF body[i] = "unflushed" THEN "other" ELSE body[i]]
  BY DEF PowerCut, Spend, storeVars
<1>2. left' \in [runs : Nat, faults : Nat, listings : Nat] /\ DiskFault
  <2>1. left \in [runs : Nat, faults : Nat, listings : Nat]
    BY LinkerTypes
  <2> QED BY <1>1, <2>1, SpentLeft DEF DiskFault
<1>3. UNCHANGED body
  BY <1>1, LinkerTypes DEF PoolTypes
<1>4. PICK undone \in SUBSET {k \in Keys : durable[k] # pool[k]}, kept \in [Keys -> Lengths] :
        /\ \A k \in Keys : kept[k] <= part[k].len /\ (part[k].synced => kept[k] = part[k].len)
        /\ pool' = [k \in Keys |-> IF k \in undone THEN durable[k] ELSE pool[k]]
        /\ durable' = pool'
        /\ part' = [k \in Keys |->
                IF k \in undone /\ At(k, "syncdir") /\ ~part[k].on
                THEN [on |-> TRUE, len |-> Size[k], sound |-> pool[k] # 0 => body[pool[k]] # "other",
                      synced |-> TRUE]
                ELSE [part[k] EXCEPT !.len = kept[k], !.synced = TRUE]]
  BY Zenon DEF PowerCut
<1>5. pool' \in [Keys -> Names] /\ \A k \in Keys : pool'[k] \in {pool[k], durable[k]}
  BY <1>4, LinkerTypes DEF PoolTypes
<1>6. \A k \in Keys : kept[k] \in Nat
  <2>1. Lengths \subseteq Nat
    BY ConstantFunctions DEF Lengths
  <2> QED BY <1>4, <2>1
<1>7. ASSUME NEW k \in Keys PROVE part'[k] \in PartRecord /\ part'[k].sound /\ part'[k].len <= Size[k]
  <2> DEFINE whole == pool[k] # 0 => body[pool[k]] # "other"
             back == [on |-> TRUE, len |-> Size[k], sound |-> whole, synced |-> TRUE]
             n == kept[k]
             stays == [part[k] EXCEPT !.len = n, !.synced = TRUE]
  <2>1. part'[k] = back \/ part'[k] = stays
    BY <1>4
  <2>2. whole = TRUE
    BY LinkerTypes DEF PoolTypes, Names
  <2>3. n \in Nat /\ n <= part[k].len
    BY <1>4, <1>6
  <2> HIDE DEF whole, n
  <2>4. back \in PartRecord /\ back.sound /\ back.len <= Size[k]
    BY <2>2, WorkerTypes DEF PartRecord
  <2>5. stays \in PartRecord /\ stays.sound = part[k].sound /\ stays.len = n
    BY <2>3, WorkerTypes DEF PartRecord
  <2> HIDE DEF back, stays
  <2>6. n <= Size[k] /\ part[k].sound
    BY <2>3, WorkerTypes DEF Progress, PartRecord
  <2> QED BY <2>1, <2>4, <2>5, <2>6
<1>8. part' \in [Keys -> PartRecord]
  <2>1. DOMAIN part' = Keys /\ part' = [k \in DOMAIN part' |-> part'[k]]
    BY <1>4
  <2> QED BY <1>7, <2>1
<1> QED BY <1>1, <1>2, <1>3, <1>4, <1>5, <1>7, <1>8

LEMMA RotFields ==
    ASSUME DiskInv, NEW i \in Inodes, Rot(i)
    PROVE  /\ UNCHANGED <<items, part, pool, durable, rec, fetch, linking, pass>> /\ DiskFault /\ NobodyRelies
           /\ left' \in [runs : Nat, faults : Nat, listings : Nat]
           /\ body' = [body EXCEPT ![i] = "rot"]
<1>1. /\ UNCHANGED <<items, part, pool, durable, rec, fetch, linking, pass>> /\ NobodyRelies
      /\ left.faults > 0 /\ left' = [left EXCEPT !.faults = @ - 1]
      /\ body' = [body EXCEPT ![i] = "rot"]
  BY DEF Rot, Spend, storeVars, actorVars
<1>2. left \in [runs : Nat, faults : Nat, listings : Nat]
  BY LinkerTypes
<1> QED BY <1>1, <1>2, SpentLeft DEF DiskFault

LEMMA VanishFields ==
    ASSUME DiskInv, NEW k \in Keys, Vanish(k)
    PROVE  /\ UNCHANGED <<items, part, body, rec, fetch, linking, pass>> /\ DiskFault /\ NobodyRelies
           /\ left' \in [runs : Nat, faults : Nat, listings : Nat]
           /\ pool' = [pool EXCEPT ![k] = 0] /\ durable' = [durable EXCEPT ![k] = 0]
           /\ "vanish" \in PoolFaults
<1>1. /\ UNCHANGED <<items, part, body, rec, fetch, linking, pass>> /\ NobodyRelies
      /\ left.faults > 0 /\ left' = [left EXCEPT !.faults = @ - 1]
      /\ pool' = [pool EXCEPT ![k] = 0] /\ durable' = [durable EXCEPT ![k] = 0] /\ "vanish" \in PoolFaults
  BY DEF Vanish, Spend, storeVars, actorVars
<1>2. left \in [runs : Nat, faults : Nat, listings : Nat]
  BY LinkerTypes
<1> QED BY <1>1, <1>2, SpentLeft DEF DiskFault
-----------------------------------------------------------------------------
(* No name in the pool ever leads to anything but the whole file, and no hash
   is recorded but that of the whole file. *)

LEMMA StepsSorted ==
    ASSUME PoolNext
    PROVE  \/ Bookkeeping \/ QuietLinks \/ RenameCopy \/ SyncCopy \/ Tidy \/ Crash \/ PowerCut
           \/ \E k \in Keys : QuietWork(k) \/ RenameLink(k) \/ Commit(k) \/ SyncDir(k) \/ RecordSuccess(k) \/ Vanish(k)
           \/ \E p \in Passes : Remover(p)
           \/ \E i \in Inodes : Rot(i)
BY Zenon DEF PoolNext, Worker, Linker, QuietWork, QuietLinks, Bookkeeping

LEMMA RecordsStay == ASSUME RecordsInv, FilesStay, UNCHANGED rec PROVE RecordsInv'
BY DEF RecordsInv, FilesStay

LEMMA WorkersProgress ==
    ASSUME DiskInv, NEW k \in Keys, WorkerMoves(k)
    PROVE  WriteInv'
BY DEF DiskInv, WriteInv, WorkerMoves, LinkingProgress

(* What PoolInit says, in two parts. *)
LEMMA Backed ==
    ASSUME PoolInit
    PROVE  \E done \in SUBSET Keys, number \in [Keys -> 1..Cardinality(Keys)] :
        /\ items = [k \in Keys |-> [NoRow EXCEPT !.state = IF k \in done THEN "done" ELSE "discovered",
                                                 !.held = (k \in done)]]
        /\ pool = [k \in Keys |-> IF k \in done THEN number[k] ELSE 0]
        /\ rec = [k \in Keys |-> IF k \in done THEN "whole" ELSE "none"]
BY ZenonT(60) DEF PoolInit

LEMMA AtRest ==
    ASSUME PoolInit
    PROVE  /\ part = [k \in Keys |-> NoPart] /\ durable = pool /\ body = [i \in Inodes |-> "whole"]
           /\ fetch = [k \in Keys |-> NoFetch] /\ linking = NoLinking /\ pass = [p \in Passes |-> NoPass]
           /\ left = [runs |-> MaxRuns, faults |-> MaxFaults, listings |-> MaxListings]
BY ZenonT(60) DEF PoolInit

LEMMA DiskInit == PoolInit => DiskInv
<1> SUFFICES ASSUME PoolInit PROVE DiskInv
  OBVIOUS
<1>1. PICK done \in SUBSET Keys, number \in [Keys -> 1..Cardinality(Keys)] :
        /\ items = [k \in Keys |-> [NoRow EXCEPT !.state = IF k \in done THEN "done" ELSE "discovered",
                                                 !.held = (k \in done)]]
        /\ pool = [k \in Keys |-> IF k \in done THEN number[k] ELSE 0]
        /\ rec = [k \in Keys |-> IF k \in done THEN "whole" ELSE "none"]
  BY Backed
<1>2. /\ part = [k \in Keys |-> NoPart] /\ durable = pool /\ body = [i \in Inodes |-> "whole"]
      /\ fetch = [k \in Keys |-> NoFetch] /\ linking = NoLinking /\ pass = [p \in Passes |-> NoPass]
      /\ left = [runs |-> MaxRuns, faults |-> MaxFaults, listings |-> MaxListings]
  BY AtRest
<1>3. ASSUME NEW k \in Keys
      PROVE  items[k] \in RowShape /\ (items[k].held <=> rec[k] = "whole") /\ (items[k].held => HasRow(k))
             /\ rec[k] \in {"none", "whole"}
  <2> DEFINE s == IF k \in done THEN "done" ELSE "discovered"
             h == k \in done
             r == [NoRow EXCEPT !.state = s, !.held = h]
  <2>1. items[k] = r
    BY <1>1, Zenon
  <2>2. s \in States /\ s # "absent" /\ h \in BOOLEAN
    BY DEF States
  <2>3. rec[k] \in {"none", "whole"} /\ (rec[k] = "whole" <=> h)
    BY <1>1
  <2>4. NoRow \in RowShape
    BY DEF NoRow, RowShape, States
  <2> HIDE DEF s, h
  <2>5. r \in RowShape /\ (r.held <=> h) /\ r.state = s
    BY <2>2, <2>4 DEF RowShape
  <2> HIDE DEF r
  <2> QED BY <2>1, <2>2, <2>3, <2>5 DEF HasRow
<1>4. items \in [Keys -> RowShape] /\ rec \in [Keys -> {"none", "whole"}] /\ RecordsInv
  <2>1. DOMAIN items = Keys /\ DOMAIN rec = Keys
    BY <1>1
  <2>2. items = [k \in Keys |-> items[k]] /\ rec = [k \in Keys |-> rec[k]]
    BY <1>1
  <2>3. items \in [Keys -> RowShape] /\ rec \in [Keys -> {"none", "whole"}]
    BY <1>3, <2>2, Zenon
  <2> QED BY <1>3, <2>3 DEF RecordsInv
<1>5. pool \in [Keys -> Names]
  <2>1. Cardinality(Keys) \in Nat
    BY PoolConstants, FS_CardinalityType
  <2>2. 1..Cardinality(Keys) \subseteq Names /\ 0 \in Names
    BY <2>1 DEF Names, Inodes
  <2> QED BY <1>1, <2>2
<1>6. left \in [runs : Nat, faults : Nat, listings : Nat]
  BY <1>2, PoolConstants
<1>7. PoolTypes
  BY <1>2, <1>4, <1>5, <1>6, Idle DEF PoolTypes
<1>8. WriteInv
  BY <1>2, Idle, ConstantFunctions DEF WriteInv, Progress, LinkingProgress
<1> QED BY <1>4, <1>7, <1>8 DEF DiskInv

LEMMA DiskWork ==
    ASSUME DiskInv, NEW k \in Keys,
           QuietWork(k) \/ RenameLink(k) \/ Commit(k) \/ SyncDir(k) \/ RecordSuccess(k)
    PROVE  DiskInv'
<1> USE SameRecords
<1>1. PoolTypes /\ RecordsInv
  BY WorkerTypes
<1>2. CASE QuietWork(k)
  <2>1. WorkerMoves(k) /\ Unwritten /\ FilesStay
    BY <1>2, QuietFields DEF QuietResult
  <2>2. PoolTypes'
    BY <1>1, <2>1 DEF PoolTypes, WorkerMoves, Unwritten, FilesStay
  <2> QED BY <1>1, <2>1, <2>2, RecordsStay, WorkersProgress DEF DiskInv, Unwritten
<1>3. CASE RenameLink(k)
  <2>1. WorkerMoves(k) /\ FilesStay /\ Named(k, fetch[k].staged) /\ UNCHANGED body
    BY <1>3, RenameFields
  <2>2. PoolTypes'
    BY <1>1, <2>1 DEF PoolTypes, WorkerMoves, Named, FilesStay, Names
  <2> QED BY <1>1, <2>1, <2>2, RecordsStay, WorkersProgress DEF DiskInv, Named
<1>4. CASE Commit(k)
  <2>1. PICK i \in Inodes : WorkerMoves(k) /\ FilesStay /\ Named(k, i) /\ Fresh(i)
    BY <1>4, CommitFields
  <2>2. PoolTypes'
    BY <1>1, <2>1 DEF PoolTypes, WorkerMoves, Named, Fresh, FilesStay, Names
  <2> QED BY <1>1, <2>1, <2>2, RecordsStay, WorkersProgress DEF DiskInv, Named
<1>5. CASE SyncDir(k)
  <2>1. /\ WorkerMoves(k) /\ FilesStay
        /\ durable' = [durable EXCEPT ![k] = pool[k]] /\ UNCHANGED <<pool, body, rec>>
    BY <1>5, SyncFields
  <2>2. PoolTypes'
    BY <1>1, <2>1 DEF PoolTypes, WorkerMoves, FilesStay
  <2> QED BY <1>1, <2>1, <2>2, RecordsStay, WorkersProgress DEF DiskInv
<1>6. CASE RecordSuccess(k)
  <2>1. WorkerMoves(k) /\ Recorded(k) /\ UNCHANGED <<pool, durable, body>>
    BY <1>6, RecordFields
  <2>2. PoolTypes'
    BY <1>1, <2>1 DEF PoolTypes, WorkerMoves, Recorded
  <2>3. RecordsInv'
    BY <1>1, <2>1 DEF RecordsInv, Recorded, HasRow
  <2> QED BY <2>1, <2>2, <2>3, WorkersProgress DEF DiskInv
<1> QED BY <1>2, <1>3, <1>4, <1>5, <1>6

LEMMA DiskLinks ==
    ASSUME DiskInv, QuietLinks \/ RenameCopy \/ SyncCopy
    PROVE  DiskInv'
<1> USE SameRecords
<1>1. PoolTypes /\ RecordsInv /\ WriteInv
  BY DEF DiskInv
<1>2. /\ LinkerMoves
      /\ pool' \in [Keys -> Names] /\ durable' \in [Keys -> Names]
  <2>1. CASE QuietLinks
    BY <1>1, <2>1, QuietLinksFields DEF QuietLinksResult, PoolTypes
  <2>2. CASE RenameCopy
    BY <1>1, <2>2, RenameCopyFields DEF Named, PoolTypes, Names
  <2>3. CASE SyncCopy
    BY <1>1, <2>3, SyncCopyFields DEF PoolTypes
  <2> QED BY <2>1, <2>2, <2>3
<1>3. PoolTypes'
  BY <1>1, <1>2 DEF PoolTypes, LinkerMoves
<1>4. RecordsInv' /\ WriteInv'
  BY <1>1, <1>2 DEF RecordsInv, WriteInv, LinkerMoves, HasRow
<1> QED BY <1>3, <1>4 DEF DiskInv

LEMMA DiskRemoval == ASSUME DiskInv, NEW p \in Passes, Remover(p) PROVE DiskInv'
<1> USE SameRecords
<1>1. PoolTypes /\ RecordsInv /\ WriteInv
  BY DEF DiskInv
<1>2. PassMoves(p)
  BY PassStartsFields, CheckTwinFields, UnlinkFields, ForgetFields, PassEndsFields DEF Remover
<1>3. items' \in [Keys -> RowShape] /\ rec' \in [Keys -> {"none", "whole"}] /\ pool' \in [Keys -> Names] /\ RecordsInv'
  <2>1. CASE UNCHANGED <<items, rec, pool>>
    BY <1>1, <2>1 DEF PoolTypes, RecordsInv, HasRow
  <2>2. CASE Unlink(p)
    <3>1. UNCHANGED <<items, rec>> /\ pool' = [pool EXCEPT ![pass[p].twin[1]] = 0]
      BY <2>2, UnlinkFields
    <3> QED BY <1>1, <3>1 DEF PoolTypes, RecordsInv, HasRow, Names
  <2>3. CASE ForgetTwin(p)
    <3> DEFINE k == pass[p].twin[1]
    <3>1. UNCHANGED pool /\ items' = [items EXCEPT ![k] = NoRow] /\ rec' = [rec EXCEPT ![k] = "none"]
      BY <2>3, ForgetFields
    <3>2. NoRow \in RowShape /\ ~NoRow.held
      BY DEF NoRow, RowShape, States
    <3> HIDE DEF k
    <3> QED BY <1>1, <3>1, <3>2 DEF PoolTypes, RecordsInv, HasRow
  <2> QED BY <2>1, <2>2, <2>3, PassStartsFields, CheckTwinFields, PassEndsFields DEF Remover
<1>4. PoolTypes'
  BY <1>1, <1>2, <1>3 DEF PoolTypes, PassMoves
<1>5. WriteInv'
  BY <1>1, <1>2 DEF WriteInv, PassMoves, LinkingProgress
<1> QED BY <1>3, <1>4, <1>5 DEF DiskInv

LEMMA DiskFaults ==
    ASSUME DiskInv, Tidy \/ Crash \/ PowerCut \/ (\E k \in Keys : Vanish(k)) \/ \E i \in Inodes : Rot(i)
    PROVE  DiskInv'
<1> USE SameRecords
<1>1. PoolTypes /\ RecordsInv /\ WriteInv
  BY DEF DiskInv
<1>2. CASE Tidy
  <2>1. PoolTypes'
    BY <1>1, <1>2, TidyFields DEF PoolTypes
  <2>2. RecordsInv' /\ WriteInv'
    BY <1>1, <1>2, TidyFields DEF RecordsInv, WriteInv, LinkingProgress, HasRow
  <2> QED BY <2>1, <2>2 DEF DiskInv
<1>3. CASE Crash \/ PowerCut
  <2>1. /\ UNCHANGED <<items, body, rec>> /\ left' \in [runs : Nat, faults : Nat, listings : Nat]
        /\ fetch' = [k \in Keys |-> NoFetch] /\ linking' = NoLinking /\ pass' \in [Passes -> PassRecord]
        /\ pool' \in [Keys -> Names] /\ durable' \in [Keys -> Names] /\ part' \in [Keys -> PartRecord]
        /\ \A k \in Keys : part'[k].sound /\ part'[k].len <= Size[k]
    <3>1. CASE Crash
      BY <1>1, <3>1, CrashFields DEF PoolTypes, WriteInv, Progress
    <3>2. CASE PowerCut
      BY <1>1, <3>2, PowerFields, Idle DEF PoolTypes
    <3> QED BY <1>3, <3>1, <3>2
  <2>2. PoolTypes'
    BY <1>1, <2>1, Idle DEF PoolTypes
  <2>3. RecordsInv'
    BY <1>1, <2>1 DEF RecordsInv, HasRow
  <2>4. WriteInv'
    BY <2>1, Idle DEF WriteInv, Progress, LinkingProgress
  <2> QED BY <2>2, <2>3, <2>4 DEF DiskInv
<1>4. ASSUME NEW k \in Keys, Vanish(k) PROVE DiskInv'
  <2>1. PoolTypes'
    BY <1>1, <1>4, VanishFields DEF PoolTypes, Names
  <2>2. RecordsInv' /\ WriteInv'
    BY <1>1, <1>4, VanishFields DEF RecordsInv, WriteInv, LinkingProgress, HasRow
  <2> QED BY <2>1, <2>2 DEF DiskInv
<1>5. ASSUME NEW i \in Inodes, Rot(i) PROVE DiskInv'
  <2>1. PoolTypes'
    BY <1>1, <1>5, RotFields DEF PoolTypes
  <2>2. RecordsInv' /\ WriteInv'
    BY <1>1, <1>5, RotFields DEF RecordsInv, WriteInv, LinkingProgress, HasRow
  <2> QED BY <2>1, <2>2 DEF DiskInv
<1> QED BY <1>2, <1>3, <1>4, <1>5

LEMMA DiskStep == DiskInv /\ [PoolNext]_vars => DiskInv'
<1> SUFFICES ASSUME DiskInv, [PoolNext]_vars PROVE DiskInv'
  OBVIOUS
<1> USE SameRecords
<1>1. PoolTypes /\ RecordsInv /\ WriteInv
  BY DEF DiskInv
<1>2. CASE Bookkeeping
  <2>1. RowStep /\ FilesStay /\ left' \in [runs : Nat, faults : Nat, listings : Nat]
    BY <1>2, BookkeepingFields
  <2>2. PoolTypes'
    BY <1>1, <2>1 DEF PoolTypes, RowStep, FilesStay
  <2>3. WriteInv'
    BY <1>1, <2>1 DEF WriteInv, RowStep, LinkingProgress
  <2> QED BY <1>1, <2>1, <2>2, <2>3, RecordsStay DEF DiskInv, RowStep
<1>3. CASE UNCHANGED vars
  <2>1. UNCHANGED <<items, part, pool, durable, body, rec, fetch, linking, pass, left>>
    BY <1>3 DEF vars, storeVars, poolVars, diskVars, actorVars
  <2>2. PoolTypes'
    BY <1>1, <2>1 DEF PoolTypes
  <2>3. RecordsInv' /\ WriteInv'
    BY <1>1, <2>1 DEF RecordsInv, WriteInv, LinkingProgress, HasRow
  <2> QED BY <2>2, <2>3 DEF DiskInv
<1>4. CASE PoolNext
  BY <1>2, <1>4, StepsSorted, DiskWork, DiskLinks, DiskRemoval, DiskFaults
<1> QED BY <1>3, <1>4

(* Whatever is stopped, killed, cut from power, rotted or removed: the state
   has its types, a row holds a file exactly while its hash is recorded, and
   each download and the linking pass have written as much of their file, and
   flushed it, as the step they are at needs (syncer.download's order of
   write, flush, rename and record). *)
THEOREM DiskSafety == PoolSpec => []DiskInv
BY DiskInit, DiskStep, PTL DEF PoolSpec

(* A name in the pool leads to the whole file or to what the disk has since
   made of it, whatever is cut short, killed or loses power. *)
THEOREM WholeSafety == PoolSpec => []PoolFilesAreWhole
<1>1. DiskInv => PoolFilesAreWhole
  BY DEF DiskInv, PoolTypes, PoolFilesAreWhole, Names
<1> QED BY <1>1, DiskSafety, PTL

(* A recorded hash is that of the whole file, however many attempts, runs and
   restarts the download took. *)
THEOREM HashSafety == PoolSpec => []HashIsHonest
<1>1. DiskInv => HashIsHonest
  BY DEF DiskInv, PoolTypes, HashIsHonest
<1> QED BY <1>1, DiskSafety, PTL
-----------------------------------------------------------------------------
(* While nobody removes files: no pass of RemoveTwins, and nobody from outside. *)

NobodyRemoves == Passes = {} /\ "vanish" \notin PoolFaults

LEMMA NoInodeIsZero == 0 \notin Inodes
BY PoolConstants, FS_CardinalityType DEF Inodes

LEMMA HeldInit == PoolInit => HeldInv
<1> SUFFICES ASSUME PoolInit PROVE HeldInv
  OBVIOUS
<1>1. PICK done \in SUBSET Keys, number \in [Keys -> 1..Cardinality(Keys)] :
        /\ items = [k \in Keys |-> [NoRow EXCEPT !.state = IF k \in done THEN "done" ELSE "discovered",
                                                 !.held = (k \in done)]]
        /\ pool = [k \in Keys |-> IF k \in done THEN number[k] ELSE 0]
        /\ rec = [k \in Keys |-> IF k \in done THEN "whole" ELSE "none"]
  BY Backed
<1>2. durable = pool /\ fetch = [k \in Keys |-> NoFetch] /\ linking = NoLinking
  BY AtRest
<1>3. ASSUME NEW k \in Keys PROVE items[k].held => pool[k] # 0
  <2>1. items[k].held <=> rec[k] = "whole"
    BY DiskInit DEF DiskInv, RecordsInv
  <2>2. Cardinality(Keys) \in Nat
    BY PoolConstants, FS_CardinalityType
  <2>3. number[k] # 0
    BY <2>2
  <2> QED BY <1>1, <2>1, <2>3
<1> QED BY <1>2, <1>3, Idle DEF HeldInv

LEMMA HeldWork ==
    ASSUME DiskInv, HeldInv, NEW k \in Keys,
           QuietWork(k) \/ RenameLink(k) \/ Commit(k) \/ SyncDir(k) \/ RecordSuccess(k)
    PROVE  HeldInv'
<1>1. PoolTypes
  BY WorkerTypes
<1>2. CASE QuietWork(k)
  <2>1. /\ WorkerMoves(k) /\ Unwritten /\ FilesStay /\ fetch'[k].pc # "syncdir"
        /\ fetch'[k].pc \in {"drop", "record"} => fetch[k].pc = "drop"
    BY <1>2, QuietFields DEF QuietResult
  <2> QED BY <2>1 DEF HeldInv, WorkerMoves, Unwritten, FilesStay
<1>3. CASE RenameLink(k) \/ Commit(k)
  <2>1. PICK i \in Inodes : /\ WorkerMoves(k) /\ FilesStay /\ fetch'[k].pc = "syncdir" /\ Named(k, i)
    <3>1. CASE RenameLink(k)
      BY <3>1, RenameFields DEF Named
    <3>2. CASE Commit(k)
      BY <3>2, CommitFields
    <3> QED BY <1>3, <3>1, <3>2
  <2>2. i # 0
    BY NoInodeIsZero
  <2> QED BY <1>1, <2>1, <2>2 DEF HeldInv, WorkerMoves, Named, FilesStay, PoolTypes
<1>4. CASE SyncDir(k)
  <2>1. /\ WorkerMoves(k) /\ FilesStay /\ fetch'[k].pc \in {"drop", "record"} /\ fetch[k].pc = "syncdir"
        /\ durable' = [durable EXCEPT ![k] = pool[k]] /\ UNCHANGED pool
    BY <1>4, SyncFields
  <2> QED BY <1>1, <2>1 DEF HeldInv, WorkerMoves, FilesStay, PoolTypes
<1>5. CASE RecordSuccess(k)
  <2>1. /\ WorkerMoves(k) /\ Recorded(k) /\ fetch'[k].pc = "idle" /\ fetch[k].pc = "record"
        /\ UNCHANGED <<pool, durable>>
    BY <1>5, RecordFields, Idle
  <2> QED BY <2>1 DEF HeldInv, WorkerMoves, Recorded
<1> QED BY <1>2, <1>3, <1>4, <1>5

LEMMA HeldLinks ==
    ASSUME DiskInv, HeldInv, QuietLinks \/ RenameCopy \/ SyncCopy
    PROVE  HeldInv'
<1>1. PoolTypes
  BY DEF DiskInv
<1>2. CASE QuietLinks
  <2>1. LinkerMoves /\ UNCHANGED <<pool, durable>> /\ linking'.pc # "syncdir"
    BY <1>2, QuietLinksFields DEF QuietLinksResult
  <2> QED BY <2>1 DEF HeldInv, LinkerMoves
<1>3. CASE RenameCopy
  <2>1. /\ LinkerMoves /\ linking.copy \in Keys /\ Named(linking.copy, linking.staged)
        /\ linking'.copy = linking.copy
    BY <1>3, RenameCopyFields
  <2>2. linking.staged # 0
    BY <2>1, NoInodeIsZero DEF Named
  <2> QED BY <1>1, <2>1, <2>2 DEF HeldInv, LinkerMoves, Named, PoolTypes
<1>4. CASE SyncCopy
  <2>1. /\ LinkerMoves /\ linking.copy \in Keys /\ linking.pc = "syncdir" /\ UNCHANGED pool
        /\ durable' = [durable EXCEPT ![linking.copy] = pool[linking.copy]] /\ linking'.pc = "next"
    BY <1>4, SyncCopyFields
  <2> QED BY <1>1, <2>1 DEF HeldInv, LinkerMoves, PoolTypes
<1> QED BY <1>2, <1>3, <1>4

LEMMA HeldFaults == ASSUME DiskInv, HeldInv, Tidy \/ Crash \/ PowerCut \/ \E i \in Inodes : Rot(i) PROVE HeldInv'
<1>1. CASE Tidy \/ \E i \in Inodes : Rot(i)
  <2>1. UNCHANGED <<items, pool, durable, fetch, linking>>
    BY <1>1, TidyFields, RotFields
  <2> QED BY <2>1 DEF HeldInv
<1>2. CASE Crash
  <2>1. /\ UNCHANGED <<items, pool, durable>>
        /\ \A k \in Keys : fetch'[k].pc = "idle"
        /\ linking'.pc = "idle"
    BY <1>2, CrashFields, Idle
  <2> QED BY <2>1 DEF HeldInv
<1>3. CASE PowerCut
  <2>1. /\ UNCHANGED items /\ durable' = pool' /\ \A k \in Keys : pool'[k] \in {pool[k], durable[k]}
        /\ \A k \in Keys : fetch'[k].pc = "idle"
        /\ linking'.pc = "idle"
    BY <1>3, PowerFields, Idle
  <2> QED BY <2>1 DEF HeldInv
<1> QED BY <1>1, <1>2, <1>3

LEMMA HeldStep == NobodyRemoves /\ DiskInv /\ HeldInv /\ [PoolNext]_vars => HeldInv'
<1> SUFFICES ASSUME NobodyRemoves, DiskInv, HeldInv, [PoolNext]_vars PROVE HeldInv'
  OBVIOUS
<1>1. CASE Bookkeeping
  <2>1. RowStep /\ FilesStay
    BY <1>1, BookkeepingFields
  <2> QED BY <2>1 DEF HeldInv, RowStep, FilesStay
<1>2. CASE UNCHANGED vars
  <2>1. UNCHANGED <<items, pool, durable, fetch, linking>>
    BY <1>2 DEF vars, storeVars, poolVars, diskVars, actorVars
  <2> QED BY <2>1 DEF HeldInv
<1>3. \A k \in Keys : ~Vanish(k)
  BY DEF Vanish, NobodyRemoves
<1>4. CASE PoolNext
  BY <1>1, <1>3, <1>4, StepsSorted, HeldWork, HeldLinks, HeldFaults DEF NobodyRemoves
<1> QED BY <1>2, <1>4

(* While no pass removes twins and nobody takes files from outside, a row that
   records a file has one on the disk, and has it still after a power cut. *)
THEOREM HeldSafety == NobodyRemoves /\ PoolSpec => []HeldIsOnDisk
<1>1. PoolInit => HeldInv
  BY HeldInit
<1>2. HeldInv => HeldIsOnDisk
  BY DEF HeldInv, HeldIsOnDisk
<1>3. NobodyRemoves /\ PoolSpec => []HeldInv
  <2> SUFFICES ASSUME NobodyRemoves PROVE PoolSpec => []HeldInv
    OBVIOUS
  <2>1. DiskInv /\ HeldInv /\ [PoolNext]_vars => HeldInv'
    BY HeldStep
  <2> QED BY <1>1, <2>1, DiskSafety, PTL DEF PoolSpec
<1> QED BY <1>2, <1>3, PTL
-----------------------------------------------------------------------------
(* With one pass of RemoveTwins at a time, no photograph's last good recorded
   file is taken away. *)

OnePass == \A p, q \in Passes : p = q

LastInv == LinksInv /\ TwinsInv

WholeStill(k) == pool'[k] = 0 \/ body'[pool'[k]] = "whole"

(* What is good stays good. *)
Undisturbed ==
    /\ \A k \in Keys : /\ items[k].held => items'[k].held
                       /\ WholeOrGone(k) => WholeStill(k)
                       /\ Kept(k) => Kept(k)'
    /\ \A i \in Inodes : body[i] = "whole" => body'[i] = "whole"

LEMMA SameNamesUndisturbed ==
    ASSUME \A k \in Keys : items[k].held => items'[k].held, UNCHANGED <<pool, body>>
    PROVE  Undisturbed
BY DEF Undisturbed, WholeOrGone, WholeStill, Kept

LEMMA OneNameUndisturbed ==
    ASSUME DiskInv, NEW k \in Keys, NEW i \in Inodes, FilesStay, Named(k, i), body'[i] = "whole",
           UNCHANGED body \/ body' = [body EXCEPT ![i] = "whole"]
    PROVE  Undisturbed
<1>1. /\ pool \in [Keys -> Names] /\ body \in [Inodes -> {"whole", "rot"}]
      /\ pool' = [pool EXCEPT ![k] = i] /\ i # 0
  BY NoInodeIsZero DEF DiskInv, PoolTypes, Named
<1>2. \A j \in Inodes : body[j] = "whole" => body'[j] = "whole"
  BY <1>1
<1>3. ASSUME NEW c \in Keys
      PROVE  /\ items[c].held => items'[c].held
             /\ WholeOrGone(c) => WholeStill(c)
             /\ Kept(c) => Kept(c)'
  <2>1. items[c].held <=> items'[c].held
    BY DEF FilesStay
  <2>2. CASE c = k
    BY <1>1, <2>1, <2>2 DEF WholeOrGone, WholeStill, Kept
  <2>3. CASE c # k
    <3>1. pool'[c] = pool[c] /\ (pool[c] = 0 \/ pool[c] \in Inodes)
      BY <1>1, <2>3 DEF Names
    <3> QED BY <1>2, <2>1, <3>1 DEF WholeOrGone, WholeStill, Kept
  <2> QED BY <2>2, <2>3
<1> QED BY <1>2, <1>3 DEF Undisturbed

LEMMA WorkUndisturbed ==
    ASSUME DiskInv, LinksInv, NEW k \in Keys,
           QuietWork(k) \/ RenameLink(k) \/ Commit(k) \/ SyncDir(k) \/ RecordSuccess(k)
    PROVE  Undisturbed
<1>1. CASE QuietWork(k) \/ SyncDir(k)
  <2>1. FilesStay /\ UNCHANGED <<pool, body>>
    BY <1>1, QuietFields, SyncFields DEF QuietResult, Unwritten
  <2> QED BY <2>1, SameNamesUndisturbed DEF FilesStay
<1>2. CASE RenameLink(k)
  <2>1. FilesStay /\ Named(k, fetch[k].staged) /\ UNCHANGED body /\ fetch[k].staged \in Inodes
        /\ body[fetch[k].staged] = "whole"
    BY <1>2, RenameFields DEF LinksInv, Named
  <2> QED BY <2>1, OneNameUndisturbed
<1>3. CASE Commit(k)
  <2>1. PICK i \in Inodes : FilesStay /\ Named(k, i) /\ body' = [body EXCEPT ![i] = "whole"]
    BY <1>3, CommitFields DEF Fresh
  <2>2. body'[i] = "whole"
    BY <2>1, WorkerTypes DEF PoolTypes
  <2> QED BY <2>1, <2>2, OneNameUndisturbed
<1>4. CASE RecordSuccess(k)
  <2>1. Recorded(k) /\ UNCHANGED <<pool, body>>
    BY <1>4, RecordFields
  <2> QED BY <2>1, SameNamesUndisturbed DEF Recorded
<1> QED BY <1>1, <1>2, <1>3, <1>4

LEMMA LinksUndisturbed ==
    ASSUME DiskInv, LinksInv, QuietLinks \/ RenameCopy \/ SyncCopy
    PROVE  Undisturbed
<1>1. CASE QuietLinks \/ SyncCopy
  <2>1. UNCHANGED <<items, pool, body>>
    BY <1>1, QuietLinksFields, SyncCopyFields DEF QuietLinksResult, LinkerMoves
  <2> QED BY <2>1, SameNamesUndisturbed
<1>2. CASE RenameCopy
  <2>1. /\ UNCHANGED <<items, body>> /\ linking.copy \in Keys /\ Named(linking.copy, linking.staged)
        /\ linking.staged \in Inodes /\ body[linking.staged] = "whole"
    BY <1>2, RenameCopyFields DEF LinkerMoves, LinksInv, Named
  <2>2. FilesStay
    BY <2>1, LinkerTypes, RowsAsTheyAre DEF DiskInv, PoolTypes
  <2> QED BY <2>1, <2>2, OneNameUndisturbed
<1> QED BY <1>1, <1>2

LEMMA OthersUndisturbed ==
    ASSUME DiskInv, Bookkeeping \/ Tidy
    PROVE  Undisturbed /\ UNCHANGED <<fetch, linking, pass>>
<1>1. CASE Bookkeeping
  <2>1. RowStep /\ FilesStay
    BY <1>1, BookkeepingFields
  <2> QED BY <2>1, SameNamesUndisturbed DEF RowStep, FilesStay
<1>2. CASE Tidy
  BY <1>2, TidyFields, SameNamesUndisturbed
<1> QED BY <1>1, <1>2

(* What was read is whole: the hash it had to have is that of the whole file. *)
LEMMA IntactIsWhole ==
    ASSUME DiskInv, NEW k \in Keys, Intact(k)
    PROVE  WholeOrGone(k) /\ (items[k].held => Kept(k))
BY DEF DiskInv, PoolTypes, RecordsInv, Intact, WholeOrGone, Kept, Names

-----------------------------------------------------------------------------
(* Links are made to files that were read. *)

LEMMA LinksIdle ==
    ASSUME \A k \in Keys : fetch'[k].pc \notin {"link", "rename"}, linking'.pc \in {"idle", "kept"}
    PROVE  LinksInv'
BY DEF LinksInv

LEMMA LinksKept == ASSUME DiskInv, LinksInv, Undisturbed, UNCHANGED <<fetch, linking>> PROVE LinksInv'
<1>1. ASSUME NEW k \in Keys
      PROVE  /\ fetch'[k].pc = "link" => WholeStill(fetch'[k].held)
             /\ fetch'[k].pc = "rename" => body'[fetch'[k].staged] = "whole"
  BY WorkerTypes DEF LinksInv, Undisturbed, Progress, FetchRecord, Names
<1>2. /\ Linking(linking) => WholeStill(linking.kept)
      /\ linking.pc = "rename" => body'[linking.staged] = "whole"
  BY LinkerTypes DEF LinksInv, Undisturbed, Linking, LinkingProgress, LinkingRecord, Names
<1> QED BY <1>1, <1>2 DEF LinksInv, Linking, WholeOrGone, WholeStill

LEMMA LinksWork ==
    ASSUME DiskInv, DiskInv', LinksInv, NEW k \in Keys,
           QuietWork(k) \/ RenameLink(k) \/ Commit(k) \/ SyncDir(k) \/ RecordSuccess(k)
    PROVE  LinksInv'
<1>1. Undisturbed
  BY WorkUndisturbed
<1>2. WorkerMoves(k)
  BY QuietFields, RenameFields, CommitFields, SyncFields, RecordFields DEF QuietResult
<1>3. ASSUME NEW j \in Keys \ {k}
      PROVE  /\ fetch'[j].pc = "link" => WholeStill(fetch'[j].held)
             /\ fetch'[j].pc = "rename" => body'[fetch'[j].staged] = "whole"
  <2>1. fetch'[j] = fetch[j]
    BY <1>2 DEF WorkerMoves
  <2> QED BY <1>1, <2>1, WorkerTypes DEF LinksInv, Undisturbed, Progress, FetchRecord, Names
<1>4. /\ fetch'[k].pc = "link" => WholeStill(fetch'[k].held)
      /\ fetch'[k].pc = "rename" => body'[fetch'[k].staged] = "whole"
  <2>1. CASE QuietWork(k)
    <3>1. /\ UNCHANGED <<pool, body>>
          /\ fetch'[k].pc = "link" => Intact(fetch'[k].held)
          /\ fetch'[k].pc = "rename" => fetch[k].pc = "link" /\ fetch'[k].staged = pool[fetch[k].held]
      BY <2>1, QuietFields DEF QuietResult, Unwritten
    <3>2. fetch'[k].pc \in {"link", "rename"} => fetch'[k].held \in Keys
      BY <1>2 DEF WorkerMoves, Progress
    <3>3. fetch'[k].pc = "rename" => fetch'[k].staged # 0
      BY <1>2 DEF WorkerMoves, Progress
    <3>4. fetch'[k].pc = "link" => WholeOrGone(fetch'[k].held)
      BY <3>1, <3>2, IntactIsWhole
    <3>5. fetch'[k].pc = "rename" => body[fetch'[k].staged] = "whole"
      BY <3>1, <3>3 DEF LinksInv, WholeOrGone
    <3> QED BY <3>1, <3>4, <3>5 DEF WholeOrGone, WholeStill
  <2>2. CASE RenameLink(k) \/ Commit(k) \/ SyncDir(k) \/ RecordSuccess(k)
    <3>1. fetch'[k].pc \in {"syncdir", "drop", "record", "idle"}
      BY <2>2, RenameFields, CommitFields, SyncFields, RecordFields, Idle
    <3> QED BY <3>1
  <2> QED BY <2>1, <2>2
<1>5. /\ Linking(linking) => WholeStill(linking.kept)
      /\ linking.pc = "rename" => body'[linking.staged] = "whole"
  BY <1>1, LinkerTypes DEF LinksInv, Undisturbed, Linking, LinkingProgress, LinkingRecord, Names
<1>6. UNCHANGED linking
  BY <1>2 DEF WorkerMoves
<1> QED BY <1>3, <1>4, <1>5, <1>6 DEF LinksInv, Linking, WholeOrGone, WholeStill

LEMMA LinksLinks ==
    ASSUME DiskInv, LinksInv, QuietLinks \/ RenameCopy \/ SyncCopy
    PROVE  LinksInv'
<1>1. Undisturbed
  BY LinksUndisturbed
<1>2. UNCHANGED fetch
  BY QuietLinksFields, RenameCopyFields, SyncCopyFields DEF QuietLinksResult, LinkerMoves
<1>3. ASSUME NEW k \in Keys
      PROVE  /\ fetch'[k].pc = "link" => WholeStill(fetch'[k].held)
             /\ fetch'[k].pc = "rename" => body'[fetch'[k].staged] = "whole"
  BY <1>1, <1>2, WorkerTypes DEF LinksInv, Undisturbed, Progress, FetchRecord, Names
<1>4. /\ linking.pc # "idle" => linking.kept \in Keys
      /\ linking.pc \in {"rename", "syncdir"} => linking.copy \in Keys
      /\ Linking(linking) => WholeOrGone(linking.kept)
  BY LinkerTypes DEF LinksInv, LinkingProgress, Linking
<1>5. /\ Linking(linking') => WholeStill(linking'.kept)
      /\ linking'.pc = "rename" => body'[linking'.staged] = "whole"
  <2>1. CASE QuietLinks
    <3>1. /\ UNCHANGED <<pool, body>>
          /\ linking'.pc = "rename" => linking.pc = "link" /\ linking'.staged = pool[linking.kept]
          /\ Linking(linking') => linking'.kept = linking.kept /\ (Linking(linking) \/ Intact(linking.kept))
          /\ linking'.pc # "idle" => linking'.kept \in Keys
          /\ linking'.pc = "rename" => linking'.staged # 0
      BY <2>1, QuietLinksFields DEF QuietLinksResult, LinkerMoves, LinkingProgress
    <3>2. Linking(linking') => linking'.pc # "idle"
      BY DEF Linking
    <3>3. Linking(linking') => WholeOrGone(linking.kept) /\ linking'.kept = linking.kept
      BY <1>4, <3>1, <3>2, IntactIsWhole
    <3>4. linking'.pc = "rename" => body[linking'.staged] = "whole"
      BY <1>4, <3>1 DEF WholeOrGone, Linking
    <3> QED BY <3>1, <3>3, <3>4 DEF WholeOrGone, WholeStill
  <2>2. CASE RenameCopy \/ SyncCopy
    <3>1. /\ linking.pc \in {"rename", "syncdir"} /\ linking'.pc \in {"syncdir", "next"}
          /\ linking'.kept = linking.kept /\ linking'.todo = linking.todo
      BY <2>2, RenameCopyFields, SyncCopyFields
    <3>2. Linking(linking') => Linking(linking) /\ linking.kept \in Keys
      BY <1>4, <3>1 DEF Linking
    <3> QED BY <1>1, <1>4, <3>1, <3>2 DEF Undisturbed
  <2> QED BY <2>1, <2>2
<1> QED BY <1>3, <1>5 DEF LinksInv, Linking, WholeOrGone, WholeStill
-----------------------------------------------------------------------------
(* A pass keeps what it has read good, and removes nothing that it keeps. *)

LEMMA TwinsKept ==
    ASSUME DiskInv, TwinsInv, NEW p \in Passes, pass'[p] = pass[p],
           \A k \in Keys : items[k].held => items'[k].held,
           \A k \in pass[p].good : Kept(k)'
    PROVE  TwinsOf(p)'
<1>1. Pairs(p)' = Pairs(p)
  BY DEF Pairs
<1>2. TwinsOf(p)
  BY DEF TwinsInv
<1>3. \A t \in Pairs(p) : items'[t[2]].held
  BY <1>2 DEF TwinsOf
<1> QED BY <1>1, <1>2, <1>3 DEF TwinsOf

LEMMA TwinsUndisturbed ==
    ASSUME DiskInv, TwinsInv, Undisturbed, UNCHANGED pass
    PROVE  TwinsInv'
<1>1. \A p \in Passes : \A k \in pass[p].good : k \in Keys /\ Kept(k)'
  BY PassTypes DEF TwinsInv, TwinsOf, Undisturbed, PassRecord
<1>2. \A p \in Passes : TwinsOf(p)'
  BY <1>1, TwinsKept DEF Undisturbed
<1> QED BY <1>2 DEF TwinsInv, TwinsOf

LEMMA TwinsUnread ==
    ASSUME DiskInv, TwinsInv, UNCHANGED <<pass, items>>, \A p \in Passes : pass[p].good = {}
    PROVE  TwinsInv'
<1>1. \A p \in Passes : TwinsOf(p)'
  BY TwinsKept
<1> QED BY <1>1 DEF TwinsInv, TwinsOf

(* Equal bytes, or an equal name in the same second, are the same photograph;
   and what is written off is not what is backed up. *)
LEMMA PairingsPair ==
    ASSUME DiskInv, NEW f \in Pairings, NEW todo, todo = {<<k, f[k]>> : k \in DOMAIN f}
    PROVE  /\ todo \subseteq Keys \X Keys
           /\ \A t \in todo : /\ Photo[t[1]] = Photo[t[2]] /\ items[t[2]].held
                              /\ \A s \in todo : s[1] # t[2]
<1>1. \A k \in DOMAIN f : k \in Keys /\ f[k] \in Keys /\ WrittenOff(k) /\ IsCopy(f[k], k)
  BY DEF Pairings, IsTwin
<1>2. \A k \in DOMAIN f : /\ Photo[f[k]] = Photo[k] /\ items[f[k]].held
                          /\ \A j \in DOMAIN f : j # f[k]
  BY <1>1, CopiesArePhotographs DEF IsCopy, WrittenOff
<1> QED BY <1>1, <1>2

LEMMA StartingTwins == ASSUME DiskInv, NEW p \in Passes, PassStarts(p) PROVE TwinsOf(p)'
<1>1. /\ UNCHANGED items /\ pass'[p].pc = "next" /\ pass'[p].good = {}
      /\ \E f \in Pairings : pass'[p].todo = {<<k, f[k]>> : k \in DOMAIN f}
  BY PassStartsFields
<1>2. Pairs(p)' = pass'[p].todo
  BY <1>1 DEF Pairs
<1>3. /\ pass'[p].todo \subseteq Keys \X Keys
      /\ \A t \in pass'[p].todo : /\ Photo[t[1]] = Photo[t[2]] /\ items[t[2]].held
                                  /\ \A s \in pass'[p].todo : s[1] # t[2]
  BY <1>1, PairingsPair
<1> QED BY <1>1, <1>2, <1>3 DEF TwinsOf

LEMMA CheckingTwins ==
    ASSUME DiskInv, TwinsInv, NEW p \in Passes, NEW t \in Keys \X Keys, CheckTwin(p, t)
    PROVE  TwinsOf(p)'
<1>1. /\ UNCHANGED <<items, pool, body>> /\ pass[p].pc = "next" /\ t \in pass[p].todo
      /\ pass'[p].pc \in {"next", "unlink"} /\ pass'[p].twin = t /\ pass'[p].todo = pass[p].todo \ {t}
      /\ pass'[p].pc = "unlink" => t[2] \in pass'[p].good
      /\ pass'[p].good \subseteq pass[p].good \union {t[2]}
      /\ t[2] \in pass'[p].good => t[2] \in pass[p].good \/ Intact(t[2])
  BY CheckTwinFields DEF PassMoves
<1>2. Pairs(p) = pass[p].todo /\ Pairs(p)' \subseteq pass[p].todo
  BY <1>1 DEF Pairs
<1>3. TwinsOf(p)
  BY DEF TwinsInv
<1>4. items[t[2]].held /\ t[2] \in Keys /\ \A s \in pass[p].todo : s[1] # t[2] /\ s[1] \notin pass[p].good
  BY <1>1, <1>2, <1>3 DEF TwinsOf
<1>5. \A k \in pass'[p].good : Kept(k)
  BY <1>1, <1>3, <1>4, IntactIsWhole DEF TwinsOf
<1>6. \A k \in pass'[p].good : Kept(k)'
  BY <1>1, <1>5 DEF Kept
<1>7. \A s \in pass[p].todo : s[1] \notin pass'[p].good
  BY <1>1, <1>4
<1>8. /\ pass[p].todo \subseteq Keys \X Keys
      /\ \A u \in pass[p].todo : /\ Photo[u[1]] = Photo[u[2]] /\ items[u[2]].held
                                 /\ \A s \in pass[p].todo : s[1] # u[2]
  BY <1>2, <1>3 DEF TwinsOf
<1> QED BY <1>1, <1>2, <1>6, <1>7, <1>8 DEF TwinsOf

(* The twin in hand: its copy is good, and is another key of its photograph. *)
LEMMA InHand ==
    ASSUME TwinsInv, NEW p \in Passes, pass[p].pc \in {"unlink", "forget"}
    PROVE  LET t == pass[p].twin
           IN  /\ t \in Pairs(p) /\ t[1] \in Keys /\ t[2] \in Keys /\ t[1] # t[2] /\ Photo[t[1]] = Photo[t[2]]
               /\ Kept(t[2]) /\ t[1] \notin pass[p].good
               /\ \A s \in Pairs(p) : s[2] # t[1]
<1> DEFINE t == pass[p].twin
<1>1. t \in Pairs(p)
  BY DEF Pairs
<1>2. TwinsOf(p)
  BY DEF TwinsInv
<1> HIDE DEF t
<1>3. t \in Keys \X Keys /\ t[2] \in pass[p].good
  BY <1>1, <1>2 DEF TwinsOf, t
<1> QED BY <1>1, <1>2, <1>3 DEF TwinsOf, t

LEMMA UnlinkingTwins == ASSUME DiskInv, TwinsInv, NEW p \in Passes, Unlink(p) PROVE TwinsOf(p)'
<1> DEFINE u == pass[p].twin[1]
<1>1. /\ UNCHANGED <<items, body>> /\ pool' = [pool EXCEPT ![u] = 0]
      /\ pass[p].pc = "unlink" /\ pass'[p].pc = "forget" /\ pass'[p].twin = pass[p].twin
      /\ pass'[p].todo = pass[p].todo /\ pass'[p].good = pass[p].good
  BY UnlinkFields DEF PassMoves
<1>2. u \in Keys /\ u \notin pass[p].good
  BY <1>1, InHand
<1>3. Pairs(p)' = Pairs(p)
  BY <1>1 DEF Pairs
<1>4. TwinsOf(p)
  BY DEF TwinsInv
<1> HIDE DEF u
<1>5. \A k \in pass[p].good : Kept(k)'
  BY <1>1, <1>2, <1>4 DEF TwinsOf, Kept, DiskInv, PoolTypes
<1> QED BY <1>1, <1>3, <1>4, <1>5 DEF TwinsOf

LEMMA ForgettingTwins == ASSUME DiskInv, TwinsInv, NEW p \in Passes, ForgetTwin(p) PROVE TwinsOf(p)'
<1> DEFINE u == pass[p].twin[1]
<1>1. /\ UNCHANGED <<pool, body>> /\ items' = [items EXCEPT ![u] = NoRow]
      /\ pass[p].pc = "forget" /\ pass'[p].pc = "next"
      /\ pass'[p].todo = pass[p].todo /\ pass'[p].good = pass[p].good
  BY ForgetFields DEF PassMoves
<1>2. u \in Keys /\ u \notin pass[p].good /\ \A s \in Pairs(p) : s[2] # u
  BY <1>1, InHand
<1>3. Pairs(p)' \subseteq Pairs(p)
  BY <1>1 DEF Pairs
<1>4. TwinsOf(p)
  BY DEF TwinsInv
<1> HIDE DEF u
<1>5. \A k \in Keys \ {u} : items'[k] = items[k]
  BY <1>1
<1>6. \A k \in pass[p].good : Kept(k)'
  BY <1>1, <1>2, <1>4, <1>5, PassTypes DEF TwinsOf, Kept, PassRecord
<1>7. \A t \in Pairs(p) : items'[t[2]].held
  BY <1>2, <1>4, <1>5 DEF TwinsOf
<1> QED BY <1>1, <1>3, <1>4, <1>6, <1>7 DEF TwinsOf

LEMMA EndingTwins == ASSUME DiskInv, NEW p \in Passes, PassEnds(p) PROVE TwinsOf(p)'
<1>1. pass'[p].pc = "idle" /\ pass'[p].todo = {} /\ pass'[p].good = {}
  BY PassEndsFields, Idle
<1> QED BY <1>1 DEF TwinsOf, Pairs

LEMMA RemovalKeeps ==
    ASSUME OnePass, DiskInv, LastInv, NEW p \in Passes, Remover(p)
    PROVE  LastInv'
<1>1. DiskInv /\ TwinsInv /\ LinksInv
  BY DEF LastInv
<1>2. TwinsOf(p)'
  BY <1>1, StartingTwins, CheckingTwins, UnlinkingTwins, ForgettingTwins, EndingTwins DEF Remover
<1>3. TwinsInv'
  BY <1>2 DEF OnePass, TwinsInv, TwinsOf
<1>4. UNCHANGED <<fetch, linking, body>> /\ (UNCHANGED pool \/ pool' = [pool EXCEPT ![pass[p].twin[1]] = 0])
  BY <1>1, PassStartsFields, CheckTwinFields, UnlinkFields, ForgetFields, PassEndsFields DEF Remover, PassMoves
<1>5. \A k \in Keys : WholeOrGone(k) => WholeStill(k)
  BY <1>1, <1>4 DEF WholeOrGone, WholeStill, DiskInv, PoolTypes
<1>6. \A k \in Keys : fetch[k].pc = "link" => fetch[k].held \in Keys
  BY WorkerTypes DEF Progress
<1>7. Linking(linking) => linking.kept \in Keys
  BY LinkerTypes DEF Linking, LinkingProgress
<1>8. LinksInv'
  BY <1>1, <1>4, <1>5, <1>6, <1>7 DEF LinksInv, Linking, WholeOrGone, WholeStill
<1> QED BY <1>3, <1>8 DEF LastInv

LEMMA FaultsKeep ==
    ASSUME DiskInv, LastInv, Crash \/ PowerCut \/ (\E k \in Keys : Vanish(k)) \/ \E i \in Inodes : Rot(i)
    PROVE  LastInv'
<1>1. CASE Crash
  <2>1. /\ UNCHANGED <<items, pool, body, pass>>
        /\ \A k \in Keys : fetch'[k].pc = "idle"
        /\ linking'.pc = "idle"
    BY <1>1, CrashFields, Idle
  <2>2. Undisturbed
    BY <2>1, SameNamesUndisturbed
  <2> QED BY <2>1, <2>2, LinksIdle, TwinsUndisturbed DEF LastInv
<1>2. CASE PowerCut
  <2>1. /\ \A k \in Keys : fetch'[k].pc = "idle"
        /\ linking'.pc = "idle"
        /\ \A p \in Passes : pass'[p].pc = "idle" /\ pass'[p].todo = {} /\ pass'[p].good = {}
    BY <1>2, PowerFields, Idle
  <2>2. TwinsInv'
    BY <2>1 DEF TwinsInv, TwinsOf, Pairs
  <2> QED BY <2>1, <2>2, LinksIdle DEF LastInv
<1>3. CASE (\E k \in Keys : Vanish(k)) \/ \E i \in Inodes : Rot(i)
  <2>1. UNCHANGED <<items, fetch, linking, pass>> /\ NobodyRelies
    BY <1>3, VanishFields, RotFields
  <2>2. LinksInv'
    BY <2>1, LinksIdle DEF NobodyRelies
  <2> QED BY <2>1, <2>2, TwinsUnread DEF LastInv, NobodyRelies
<1> QED BY <1>1, <1>2, <1>3

LEMMA LastInit == PoolInit => LastInv
<1> SUFFICES ASSUME PoolInit PROVE LastInv
  OBVIOUS
<1>1. /\ fetch = [k \in Keys |-> NoFetch] /\ linking = NoLinking /\ pass = [p \in Passes |-> NoPass]
  BY AtRest
<1> QED BY <1>1, Idle DEF LastInv, LinksInv, TwinsInv, TwinsOf, Pairs

LEMMA StutterUndisturbed ==
    ASSUME UNCHANGED vars
    PROVE  Undisturbed /\ UNCHANGED <<fetch, linking, pass>>
<1>1. UNCHANGED <<items, pool, body, fetch, linking, pass>>
  BY DEF vars, storeVars, poolVars, diskVars, actorVars
<1> QED BY <1>1, SameNamesUndisturbed

LEMMA LastStep == OnePass /\ DiskInv /\ DiskInv' /\ LastInv /\ [PoolNext]_vars => LastInv'
<1> SUFFICES ASSUME OnePass, DiskInv, DiskInv', LastInv, [PoolNext]_vars PROVE LastInv'
  OBVIOUS
<1>1. LinksInv /\ TwinsInv
  BY DEF LastInv
<1>2. CASE Bookkeeping \/ Tidy \/ UNCHANGED vars
  <2>1. Undisturbed /\ UNCHANGED <<fetch, linking, pass>>
    BY <1>2, OthersUndisturbed, StutterUndisturbed
  <2> QED BY <1>1, <2>1, LinksKept, TwinsUndisturbed DEF LastInv
<1>3. ASSUME NEW k \in Keys, QuietWork(k) \/ RenameLink(k) \/ Commit(k) \/ SyncDir(k) \/ RecordSuccess(k)
      PROVE  LastInv'
  <2>1. UNCHANGED pass
    BY <1>3, QuietFields, RenameFields, CommitFields, SyncFields, RecordFields DEF QuietResult, WorkerMoves
  <2> QED BY <1>1, <1>3, <2>1, WorkUndisturbed, LinksWork, TwinsUndisturbed DEF LastInv
<1>4. CASE QuietLinks \/ RenameCopy \/ SyncCopy
  <2>1. UNCHANGED pass
    BY <1>4, QuietLinksFields, RenameCopyFields, SyncCopyFields DEF QuietLinksResult, LinkerMoves
  <2> QED BY <1>1, <1>4, <2>1, LinksUndisturbed, LinksLinks, TwinsUndisturbed DEF LastInv
<1>5. CASE PoolNext
  BY <1>2, <1>3, <1>4, <1>5, StepsSorted, RemovalKeeps, FaultsKeep
<1> QED BY <1>2, <1>5

(* What a step takes away. *)
LastCopyStep == ~DiskFault => \A k \in Keys : Kept(k) => \E c \in Keys : Photo[c] = Photo[k] /\ Kept(c)'

LEMMA RemovalTakes == ASSUME DiskInv, LastInv, NEW p \in Passes, Remover(p) PROVE LastCopyStep
<1>1. TwinsInv
  BY DEF LastInv
<1>2. CASE UNCHANGED <<items, pool>>
  <2>1. UNCHANGED body
    BY PassStartsFields, CheckTwinFields, UnlinkFields, ForgetFields, PassEndsFields DEF Remover, PassMoves
  <2> QED BY <1>2, <2>1 DEF LastCopyStep, Kept
<1>3. CASE Unlink(p) \/ ForgetTwin(p)
  <2> DEFINE u == pass[p].twin[1]
             c == pass[p].twin[2]
  <2>1. /\ pass[p].pc \in {"unlink", "forget"} /\ UNCHANGED body
        /\ UNCHANGED pool \/ pool' = [pool EXCEPT ![u] = 0]
        /\ UNCHANGED items \/ items' = [items EXCEPT ![u] = NoRow]
    BY <1>3, UnlinkFields, ForgetFields DEF PassMoves
  <2>2. u \in Keys /\ c \in Keys /\ u # c /\ Photo[u] = Photo[c] /\ Kept(c)
    BY <1>1, <2>1, InHand
  <2> HIDE DEF u, c
  <2>3. \A k \in Keys \ {u} : Kept(k) => Kept(k)'
    BY <2>1 DEF Kept, DiskInv, PoolTypes
  <2> QED BY <2>2, <2>3 DEF LastCopyStep
<1> QED BY <1>2, <1>3, PassStartsFields, CheckTwinFields, PassEndsFields DEF Remover

LEMMA UndisturbedTakesNothing == ASSUME Undisturbed PROVE LastCopyStep
BY DEF Undisturbed, LastCopyStep

LEMMA NothingLastGoes == DiskInv /\ LastInv /\ [PoolNext]_vars => LastCopyStep
<1> SUFFICES ASSUME DiskInv, LastInv, [PoolNext]_vars PROVE LastCopyStep
  OBVIOUS
<1>1. LinksInv
  BY DEF LastInv
<1>2. CASE Crash \/ PowerCut \/ (\E k \in Keys : Vanish(k)) \/ \E i \in Inodes : Rot(i)
  BY <1>2, CrashFields, PowerFields, VanishFields, RotFields DEF LastCopyStep
<1>3. CASE PoolNext
  BY <1>1, <1>2, <1>3, StepsSorted, OthersUndisturbed, WorkUndisturbed, LinksUndisturbed, RemovalTakes,
     UndisturbedTakesNothing
<1> QED BY <1>3, StutterUndisturbed, UndisturbedTakesNothing

(* While at most one pass of RemoveTwins is under way at a time, no step of
   the program takes a photograph's last good recorded file: not a commit, not
   a link over it, not the removal of a written-off copy, whatever walks, runs
   and sweeps do to the rows meanwhile. *)
THEOREM LastCopySafety == OnePass /\ PoolSpec => LastCopySurvives
<1> SUFFICES ASSUME OnePass PROVE PoolSpec => LastCopySurvives
  OBVIOUS
<1>1. PoolInit => LastInv
  BY LastInit
<1>2. DiskInv /\ DiskInv' /\ LastInv /\ [PoolNext]_vars => LastInv'
  BY LastStep
<1>3. PoolSpec => []LastInv
  BY <1>1, <1>2, DiskSafety, PTL DEF PoolSpec
<1>4. DiskInv /\ LastInv /\ [PoolNext]_vars => [LastCopyStep]_vars
  BY NothingLastGoes
<1>5. PoolSpec => [][LastCopyStep]_vars
  BY <1>3, <1>4, DiskSafety, PTL DEF PoolSpec
<1> QED BY <1>5 DEF LastCopySurvives, LastCopyStep
-----------------------------------------------------------------------------
(* What verify queued again. *)

(* No statement about a row but a download's makes it done, unless it was
   written off. *)
NotDoneAnew == \A k \in Keys : items[k].state # "done" /\ items'[k].state = "done" => WrittenOff(k)

LEMMA SameStates == ASSUME UNCHANGED items PROVE NotDoneAnew
BY DEF NotDoneAnew

LEMMA OneRowNotDone ==
    ASSUME DiskInv, NEW k \in Keys, NEW r, items' = [items EXCEPT ![k] = r],
           r.state = "done" => items[k].state \in {"done", "missing_upstream"}
    PROVE  NotDoneAnew
BY DEF NotDoneAnew, WrittenOff, DiskInv, PoolTypes

LEMMA UpsertNotDone == ASSUME DiskInv, NEW k \in Keys, UpsertItem(k) PROVE NotDoneAnew
<1> DEFINE r == UpsertedRow(items[k])
<1>1. items[k] \in RowShape /\ items' = [items EXCEPT ![k] = r]
  BY WorkerTypes DEF UpsertItem
<1>2. r.state = "done" => items[k].state \in {"done", "missing_upstream"}
  <2>1. CASE items[k].state = "absent"
    BY <2>1 DEF UpsertedRow, NoRow
  <2>2. CASE items[k].state \notin {"absent", "missing_upstream"}
    <3>1. r = [items[k] EXCEPT !.missing = FALSE]
      BY <2>2 DEF UpsertedRow
    <3> QED BY <1>1, <3>1 DEF RowShape
  <2> QED BY <2>1, <2>2
<1> HIDE DEF r
<1> QED BY <1>1, <1>2, OneRowNotDone

LEMMA StateNotDone ==
    ASSUME DiskInv, NEW k \in Keys, NEW s \in {"discovered", "downloading"}, SetItemState(k, s)
    PROVE  NotDoneAnew
<1> DEFINE to == UnlessWrittenOff(items[k], s)
           r == [items[k] EXCEPT !.state = to]
<1>1. items[k] \in RowShape /\ items' = [items EXCEPT ![k] = r]
  BY WorkerTypes DEF SetItemState
<1>2. to # "done"
  BY DEF UnlessWrittenOff
<1>3. r.state = to
  <2> HIDE DEF to
  <2> QED BY <1>1 DEF RowShape
<1> HIDE DEF r, to
<1> QED BY <1>1, <1>2, <1>3, OneRowNotDone

LEMMA FailureNotDone == ASSUME DiskInv, NEW k \in Keys, MarkFailed(k) PROVE NotDoneAnew
<1> DEFINE to == UnlessWrittenOff(items[k], "failed")
           more == items[k].fails + 1
           r == [items[k] EXCEPT !.state = to, !.fails = more]
<1>1. items[k] \in RowShape /\ items' = [items EXCEPT ![k] = r]
  BY WorkerTypes DEF MarkFailed
<1>2. to # "done"
  BY DEF UnlessWrittenOff
<1>3. r.state = to
  <2> HIDE DEF to, more
  <2> QED BY <1>1 DEF RowShape
<1> HIDE DEF r, to, more
<1> QED BY <1>1, <1>2, <1>3, OneRowNotDone

LEMMA ReconcileNotDone == ASSUME DiskInv, NEW a, NEW departed, Reconcile(a, departed) PROVE NotDoneAnew
<1> DEFINE gone == GoneFromGoogle(a, departed)
<1>1. PICK order : ReconcileInOrder(a, departed, order)
  BY DEF Reconcile
<1> DEFINE flagged == AskedAbout(gone, order)
           Off(k) == [items[k] EXCEPT !.state = "missing_upstream", !.missing = TRUE, !.review = (k \in flagged)]
<1>2. items' = [k \in Keys |-> IF k \in gone THEN Off(k) ELSE items[k]]
  BY <1>1 DEF ReconcileInOrder
<1>3. \A k \in Keys : Off(k).state = "missing_upstream"
  <2> TAKE k \in Keys
  <2> DEFINE flag == k \in flagged
  <2>1. items[k] \in RowShape /\ Off(k) = [items[k] EXCEPT !.state = "missing_upstream", !.missing = TRUE,
                                                          !.review = flag]
    BY WorkerTypes
  <2> HIDE DEF flag, Off
  <2> QED BY <2>1 DEF RowShape
<1> HIDE DEF Off, gone
<1> QED BY <1>2, <1>3 DEF NotDoneAnew

LEMMA ForgetNotDone == ASSUME DiskInv, NEW k, items' = [items EXCEPT ![k] = NoRow] PROVE NotDoneAnew
<1>1. items \in [Keys -> RowShape] /\ NoRow.state = "absent"
  BY DEF DiskInv, PoolTypes, NoRow
<1> QED BY <1>1 DEF NotDoneAnew

RepairStep ==
    \A k \in owed \intersect owed' : items[k].state # "done" /\ items'[k].state = "done" => WrittenOff(k)

(* Only verify adds to what is owed. *)
OwedStep == owed' \subseteq owed \union Keys

Owing == OwedStep /\ (owed \subseteq Keys => RepairStep)

LEMMA OwedAsItWas == ASSUME UNCHANGED owed, NotDoneAnew PROVE Owing
BY DEF Owing, OwedStep, RepairStep, NotDoneAnew

LEMMA OwedByRows == ASSUME DiskInv, Bookkeeping PROVE Owing
<1>1. CASE StartRun \/ SweepStarts \/ SweepEnds \/ Quiet \/ \E k \in Keys : SweepReads(k)
  <2>1. UNCHANGED <<items, owed>>
    BY <1>1 DEF StartRun, SweepStarts, SweepEnds, Quiet, SweepReads, storeVars, vars, poolVars
  <2> QED BY <2>1, SameStates, OwedAsItWas
<1>2. ASSUME NEW k \in Keys, Requeue(k) PROVE Owing
  <2>1. SetItemState(k, "discovered") \/ UNCHANGED items
    BY <1>2 DEF Requeue, storeVars
  <2>2. owed' \subseteq owed \union {k}
    BY <1>2 DEF Requeue
  <2>3. NotDoneAnew
    BY <2>1, StateNotDone, SameStates
  <2> QED BY <2>2, <2>3 DEF Owing, OwedStep, RepairStep, NotDoneAnew
<1>3. ASSUME NEW k \in Keys, ReclaimVanishedFile(k) \/ Relist(k) PROVE Owing
  <2>1. UNCHANGED owed /\ (SetItemState(k, "discovered") \/ UpsertItem(k) \/ UNCHANGED items)
    BY <1>3 DEF ReclaimVanishedFile, Relist, storeVars
  <2> QED BY <2>1, StateNotDone, UpsertNotDone, SameStates, OwedAsItWas
<1>4. ASSUME NEW a \in Albums, NEW k \in Keys, Relink(a, k) \/ FindGone(a, k) PROVE Owing
  <2>1. UNCHANGED owed /\ (UNCHANGED items \/ Reconcile(a, {k}))
    BY <1>4 DEF Relink, LinkItemToAlbum, FindGone, poolVars
  <2> QED BY <2>1, ReconcileNotDone, SameStates, OwedAsItWas
<1> QED BY <1>1, <1>2, <1>3, <1>4, Zenon DEF Bookkeeping, Sweeper

LEMMA OwedByWork ==
    ASSUME DiskInv, NEW k \in Keys,
           QuietWork(k) \/ RenameLink(k) \/ Commit(k) \/ SyncDir(k) \/ RecordSuccess(k)
    PROVE  Owing
<1>1. CASE Take(k)
  <2>1. UNCHANGED owed /\ SetItemState(k, "downloading")
    BY <1>1 DEF Take
  <2> QED BY <2>1, StateNotDone, OwedAsItWas
<1>2. CASE Answer(k) \/ AttemptFails(k)
  <2>1. UNCHANGED owed /\ (UNCHANGED items \/ Refused(k))
    BY <1>2 DEF Answer, RangeIgnored, AttemptFails, storeVars
  <2>2. UNCHANGED items \/ MarkFailed(k)
    BY <2>1 DEF Refused, storeVars
  <2> QED BY <2>1, <2>2, FailureNotDone, SameStates, OwedAsItWas
<1>3. CASE \/ ResumeFrom(k) \/ Receive(k) \/ Cancelled(k) \/ Flush(k) \/ ShareHeldCopy(k) \/ StageLink(k)
           \/ DropPart(k) \/ RenameLink(k) \/ Commit(k) \/ SyncDir(k)
  <2>1. UNCHANGED <<items, owed>>
    BY <1>3, Zenon DEF ResumeFrom, Receive, Cancelled, Flush, ShareHeldCopy, StageLink, DropPart, RenameLink,
                       Commit, SyncDir, OnlyDisk, storeVars
  <2> QED BY <2>1, SameStates, OwedAsItWas
<1>4. CASE RecordSuccess(k)
  <2>1. owed' = owed \ {k} /\ \A j \in Keys \ {k} : items'[j] = items[j]
    BY <1>4, RecordFields DEF RecordSuccess, Recorded
  <2> QED BY <2>1 DEF Owing, OwedStep, RepairStep
<1> QED BY <1>1, <1>2, <1>3, <1>4, Zenon DEF QuietWork

LEMMA OwedByOthers ==
    ASSUME DiskInv,
           \/ QuietLinks \/ RenameCopy \/ SyncCopy \/ Tidy \/ Crash \/ PowerCut
           \/ \E k \in Keys : Vanish(k)
           \/ \E p \in Passes : Remover(p)
           \/ \E i \in Inodes : Rot(i)
    PROVE  Owing
<1>1. CASE QuietLinks \/ RenameCopy \/ SyncCopy
  <2>1. UNCHANGED <<items, owed>>
    BY <1>1, Zenon DEF QuietLinks, CheckKept, LinkCopy, LinkingEnds, StartLinking, CheckCopy, RenameCopy, SyncCopy,
                       OnlyLinking, storeVars
  <2> QED BY <2>1, SameStates, OwedAsItWas
<1>2. CASE Tidy \/ Crash \/ PowerCut \/ (\E k \in Keys : Vanish(k)) \/ \E i \in Inodes : Rot(i)
  <2>1. UNCHANGED <<items, owed>>
    BY <1>2 DEF Tidy, Crash, PowerCut, Vanish, Rot, storeVars
  <2> QED BY <2>1, SameStates, OwedAsItWas
<1>3. ASSUME NEW p \in Passes, Remover(p) PROVE Owing
  <2>1. CASE PassStarts(p) \/ Unlink(p) \/ PassEnds(p) \/ \E t \in Keys \X Keys : CheckTwin(p, t)
    <3>1. UNCHANGED <<items, owed>>
      BY <2>1 DEF PassStarts, Unlink, PassEnds, CheckTwin, storeVars
    <3> QED BY <3>1, SameStates, OwedAsItWas
  <2>2. CASE ForgetTwin(p)
    <3>1. owed' \subseteq owed
      BY <2>2 DEF ForgetTwin
    <3>2. NotDoneAnew
      BY <2>2, ForgetFields, ForgetNotDone
    <3> QED BY <3>1, <3>2 DEF Owing, OwedStep, RepairStep, NotDoneAnew
  <2> QED BY <1>3, <2>1, <2>2 DEF Remover
<1> QED BY <1>1, <1>2, <1>3

LEMMA OwedByAnyStep == DiskInv /\ [PoolNext]_vars => Owing
<1> SUFFICES ASSUME DiskInv, [PoolNext]_vars PROVE Owing
  OBVIOUS
<1>1. CASE PoolNext
  BY <1>1, StepsSorted, OwedByRows, OwedByWork, OwedByOthers
<1>2. CASE UNCHANGED vars
  <2>1. UNCHANGED <<items, owed>>
    BY <1>2 DEF vars, storeVars, poolVars
  <2> QED BY <2>1, SameStates, OwedAsItWas
<1> QED BY <1>1, <1>2

(* A row verify queued again says done only once its file has been fetched
   again, or it was written off and listed again. *)
THEOREM RepairSafety == PoolSpec => RepairStaysOwed
<1>1. PoolInit => owed \subseteq Keys
  BY ZenonT(60) DEF PoolInit
<1>2. DiskInv /\ owed \subseteq Keys /\ [PoolNext]_vars => (owed \subseteq Keys)'
  BY OwedByAnyStep DEF Owing, OwedStep
<1>3. DiskInv /\ owed \subseteq Keys /\ [PoolNext]_vars => [RepairStep]_vars
  BY OwedByAnyStep DEF Owing
<1>4. PoolSpec => [][RepairStep]_vars
  BY <1>1, <1>2, <1>3, DiskSafety, PTL DEF PoolSpec
<1> QED BY <1>4 DEF RepairStaysOwed, RepairStep
=============================================================================
