-------------------------------- MODULE Pool --------------------------------
(***************************************************************************)
(* The files: the staging directory's .part files, the pool, and everybody *)
(* who writes, links or removes one (internal/syncer download.go,          *)
(* copies.go, twins.go, verify.go).  The rows are ItemStore's.             *)
(*                                                                         *)
(* Each key has one .part and one name in the pool; a name leads to an     *)
(* inode, and two names may lead to the same one.  A step is one answer    *)
(* from the content host, one file operation or one store statement: the   *)
(* process may die, and the power fail, between any two.  A backup run and *)
(* a linking pass hold the run lock; verify and the removal of written-off *)
(* copies hold nothing.                                                    *)
(***************************************************************************)
EXTENDS ItemStore

CONSTANTS
    Passes,           \* passes of RemoveTwins: requests to the page, commands
    MaxItemsPerRun,   \* Options.MaxItemsPerRun
    PoolFaults,       \* what can go wrong: subset of PoolFaultKinds
    MaxRuns,          \* bound: backup runs and linking passes
    MaxFaults,        \* bound: crashes and disk faults
    MaxListings       \* bound: items listed or found gone by walks

PoolFaultKinds == {"cut", "ignored", "stop", "crash", "power", "rot", "vanish"}

ASSUME PoolConstants ==
    /\ IsFiniteSet(Keys) /\ \A k \in Keys : Size[k] > 0
    /\ MaxItemsPerRun \in Nat \ {0}
    /\ PoolFaults \subseteq PoolFaultKinds
    /\ MaxRuns \in Nat /\ MaxFaults \in Nat /\ MaxListings \in Nat

VARIABLES
    part,       \* [Keys -> the .part file]
    pool,       \* [Keys -> inode the key's pool name leads to, 0 for none]
    durable,    \* [Keys -> inode it would lead to after a power cut]
    body,       \* [Inodes -> what the inode holds]
    rec,        \* [Keys -> what the row's sha256 is the hash of]
    fetch,      \* [Keys -> the worker fetching the key]
    lock,       \* who holds the run lock: "none", "run", "link"
    reclaim,    \* done items the run has still to look for on disk
    linking,    \* the linking pass
    pass,       \* [Passes -> a pass of RemoveTwins]
    sweep,      \* `gpb verify --repair`
    left,       \* what is left of the bounds
    owed        \* history: keys verify queued again and no download has landed for

diskVars == <<part, pool, durable, body, rec>>
actorVars == <<fetch, lock, reclaim, linking, pass, sweep>>
poolVars == <<diskVars, actorVars, left, owed>>
vars == <<storeVars, poolVars>>

(* An inode holds "whole", the complete bytes Google serves; "unflushed", the
   same, not yet all on the disk; "other", anything else a download could
   leave; or "rot", bytes the disk has changed. *)
Inodes == 1..(3 * Cardinality(Keys) + 1)
NoPart == [on |-> FALSE, len |-> 0, sound |-> TRUE, synced |-> TRUE]
NoFetch == [pc |-> "idle", offset |-> 0, pos |-> 0, hashed |-> 0, digest |-> "none", held |-> "none", staged |-> 0]
NoLinking == [pc |-> "idle", kept |-> "none", todo |-> {}, copy |-> "none", staged |-> 0]
NoPass == [pc |-> "idle", todo |-> {}, twin |-> <<>>, good |-> {}, bad |-> {}]
NoSweep == [pc |-> "idle", todo |-> {}, faulty |-> {}]

Lengths == UNION {0..Size[k] : k \in Keys}

InUse == {pool[k] : k \in Keys} \union {durable[k] : k \in Keys} \union {fetch[k].staged : k \in Keys}
         \union {linking.staged}
FreshInode == CHOOSE i \in Inodes \ InUse : TRUE

(* keptCopyIsIntact: the name leads to a file that hashes to the record. *)
Intact(k) == pool[k] # 0 /\ body[pool[k]] = rec[k]

(* After a first walk of one followed album, and perhaps a first backup. *)
PoolInit ==
    \E done \in SUBSET Keys : \E number \in [Keys -> 1..Cardinality(Keys)] :
        /\ \A j, k \in Keys : j # k => number[j] # number[k]
        /\ items = [k \in Keys |-> [NoRow EXCEPT !.state = IF k \in done THEN "done" ELSE "discovered",
                                                 !.held = (k \in done)]]
        /\ links = Albums \X Keys
        /\ mode = [a \in Albums |-> "all"]
        /\ synced = Albums /\ selected = {} /\ asked = {}
        /\ part = [k \in Keys |-> NoPart]
        /\ pool = [k \in Keys |-> IF k \in done THEN number[k] ELSE 0]
        /\ durable = pool
        /\ body = [i \in Inodes |-> "whole"]
        /\ rec = [k \in Keys |-> IF k \in done THEN "whole" ELSE "none"]
        /\ fetch = [k \in Keys |-> NoFetch]
        /\ lock = "none" /\ reclaim = {} /\ linking = NoLinking
        /\ pass = [p \in Passes |-> NoPass]
        /\ sweep = NoSweep /\ owed = {}
        /\ left = [runs |-> MaxRuns, faults |-> MaxFaults, listings |-> MaxListings]

-----------------------------------------------------------------------------
(* The run: the lock, reclaimVanishedFiles, and tidyStagingDirectory. *)

StartRun ==
    /\ lock = "none" /\ left.runs > 0
    /\ lock' = "run" /\ reclaim' = DownloadedInSyncSet
    /\ left' = [left EXCEPT !.runs = @ - 1]
    /\ UNCHANGED <<storeVars, diskVars, fetch, linking, pass, sweep, owed>>

ReclaimVanishedFile(k) ==
    /\ k \in reclaim
    /\ reclaim' = reclaim \ {k}
    /\ IF pool[k] = 0 /\ HasRow(k) THEN SetItemState(k, "discovered") ELSE UNCHANGED storeVars
    /\ UNCHANGED <<diskVars, fetch, lock, linking, pass, sweep, left, owed>>

Running == lock = "run" /\ reclaim = {}

(* Pending with its LIMIT; the order decides which ones it answers. *)
Batches == {b \in SUBSET Pending : \/ b = Pending /\ Cardinality(b) <= MaxItemsPerRun
                                   \/ Cardinality(b) = MaxItemsPerRun}

(* The workers have stopped: what the work list does not name is litter. *)
Tidy ==
    /\ Running /\ \A k \in Keys : fetch[k].pc = "idle"
    /\ \E keep \in Batches : part' = [k \in Keys |-> IF k \in keep THEN part[k] ELSE NoPart]
    /\ lock' = "none"
    /\ UNCHANGED <<storeVars, pool, durable, body, rec, fetch, reclaim, linking, pass, sweep, left, owed>>

(* A walk lists an item, or finds it gone from its album. *)
Relist(k) ==
    /\ Running /\ left.listings > 0
    /\ UpsertItem(k)
    /\ left' = [left EXCEPT !.listings = @ - 1]
    /\ UNCHANGED <<diskVars, actorVars, owed>>

Relink(a, k) ==
    /\ Running /\ Live(k) /\ <<a, k>> \notin links
    /\ LinkItemToAlbum(a, k)
    /\ UNCHANGED poolVars

FindGone(a, k) ==
    /\ Running /\ left.listings > 0 /\ <<a, k>> \in links
    /\ Reconcile(a, {k})
    /\ left' = [left EXCEPT !.listings = @ - 1]
    /\ UNCHANGED <<diskVars, actorVars, owed>>

-----------------------------------------------------------------------------
(* A worker: fetch, stream, resumeFrom, commitSharingAHeldCopy, commit.  How
   often it tries again is SyncRun's business. *)

At(k, pc) == fetch[k].pc = pc
Goto(k, pc) == fetch' = [fetch EXCEPT ![k].pc = pc]
OnlyDisk == UNCHANGED <<storeVars, lock, reclaim, linking, pass, sweep, left, owed>>

Take(k) ==
    /\ Running /\ At(k, "idle") /\ k \in Pending
    /\ SetItemState(k, "downloading")
    /\ Goto(k, "resume")
    /\ UNCHANGED <<diskVars, lock, reclaim, linking, pass, sweep, left, owed>>

(* Faulty variant of ResumeFrom: the hash starts with the resumed bytes. *)
ResumeHashingTheRest(k) ==
    /\ At(k, "resume")
    /\ part' = [part EXCEPT ![k].on = TRUE]
    /\ fetch' = [fetch EXCEPT ![k] = [NoFetch EXCEPT !.pc = "ask", !.offset = part[k].len, !.pos = part[k].len]]
    /\ OnlyDisk /\ UNCHANGED <<pool, durable, body, rec>>

ResumeFrom(k) ==
    /\ At(k, "resume")
    /\ part' = [part EXCEPT ![k].on = TRUE]
    /\ fetch' = [fetch EXCEPT ![k] = [NoFetch EXCEPT !.pc = "ask", !.offset = part[k].len, !.pos = part[k].len,
                                                   !.hashed = part[k].len]]
    /\ OnlyDisk /\ UNCHANGED <<pool, durable, body, rec>>

Refused(k) == IF HasRow(k) THEN MarkFailed(k) ELSE UNCHANGED storeVars

(* A whole file in answer to a range cannot be appended: fetch discards the
   .part and streams once more, from zero. *)
RangeIgnored(k) ==
    /\ fetch[k].offset > 0 /\ "ignored" \in PoolFaults
    /\ part' = [part EXCEPT ![k] = NoPart]
    /\ Goto(k, "resume")
    /\ UNCHANGED storeVars

(* The content host answers the whole file to a plain request and the rest
   to a range; it may ignore a range, and has no rest to give of a file that
   is all there (416, which is not retried). *)
Answer(k) ==
    /\ At(k, "ask")
    /\ \/ /\ fetch[k].offset < Size[k]
          /\ Goto(k, "body")
          /\ UNCHANGED <<storeVars, part>>
       \/ RangeIgnored(k)
       \/ /\ fetch[k].offset = Size[k]
          /\ Refused(k)
          /\ fetch' = [fetch EXCEPT ![k] = NoFetch]
          /\ UNCHANGED part
    /\ UNCHANGED <<pool, durable, body, rec, lock, reclaim, linking, pass, sweep, left, owed>>

(* Byte pos of the file is appended to the .part and to the hash.  The .part
   is sound while it is a beginning of the file. *)
Receive(k) ==
    /\ At(k, "body") /\ fetch[k].pos < Size[k]
    /\ part' = [part EXCEPT ![k].len = @ + 1, ![k].synced = FALSE,
                            ![k].sound = @ /\ part[k].len = fetch[k].pos]
    /\ fetch' = [fetch EXCEPT ![k].pos = @ + 1, ![k].hashed = @ + 1]
    /\ OnlyDisk /\ UNCHANGED <<pool, durable, body, rec>>

(* The request fails, the body ends short, or the disk refuses a write: the
   attempt is over, and another is made or the item is charged. *)
AttemptFails(k) ==
    /\ fetch[k].pc \in {"ask", "body", "commit"} /\ "cut" \in PoolFaults
    /\ \/ Goto(k, "resume") /\ UNCHANGED storeVars
       \/ fetch' = [fetch EXCEPT ![k] = NoFetch] /\ Refused(k)
    /\ UNCHANGED <<diskVars, lock, reclaim, linking, pass, sweep, left, owed>>

(* The context is cancelled; nothing is charged. *)
Cancelled(k) ==
    /\ fetch[k].pc \in {"resume", "ask", "body"} /\ "stop" \in PoolFaults
    /\ fetch' = [fetch EXCEPT ![k] = NoFetch]
    /\ UNCHANGED <<storeVars, diskVars, lock, reclaim, linking, pass, sweep, left, owed>>

Hashed(k) == IF fetch[k].hashed = Size[k] /\ part[k].sound THEN "whole" ELSE "other"

(* Faulty variant of Flush: the staging file is closed without fsync. *)
FlushNothing(k) ==
    /\ At(k, "body") /\ fetch[k].pos = Size[k]
    /\ fetch' = [fetch EXCEPT ![k].pc = "share", ![k].digest = Hashed(k)]
    /\ OnlyDisk /\ UNCHANGED diskVars

Flush(k) ==
    /\ At(k, "body") /\ fetch[k].pos = Size[k]
    /\ part' = [part EXCEPT ![k].synced = TRUE]
    /\ fetch' = [fetch EXCEPT ![k].pc = "share", ![k].digest = Hashed(k)]
    /\ OnlyDisk /\ UNCHANGED <<pool, durable, body, rec>>

HeldCopies(k) ==
    {c \in Keys \ {k} : /\ items[c].state = "done" /\ items[c].held
                        /\ SameBytes(c, k) /\ rec[c] = fetch[k].digest}

ShareHeldCopy(k) ==
    /\ At(k, "share")
    /\ \/ HeldCopies(k) = {} /\ Goto(k, "commit")
       \/ \E c \in HeldCopies(k) :
            IF Intact(c) THEN fetch' = [fetch EXCEPT ![k].pc = "link", ![k].held = c]
            ELSE Goto(k, "commit")
    /\ OnlyDisk /\ UNCHANGED diskVars

(* linkOver: a link under a staged name, renamed over the pool's. *)
StageLink(k) ==
    /\ At(k, "link")
    /\ \/ pool[fetch[k].held] = 0 /\ Goto(k, "commit")
       \/ /\ pool[fetch[k].held] # 0
          /\ fetch' = [fetch EXCEPT ![k].pc = "rename", ![k].staged = pool[fetch[k].held]]
    /\ OnlyDisk /\ UNCHANGED diskVars

RenameLink(k) ==
    /\ At(k, "rename")
    /\ pool' = [pool EXCEPT ![k] = fetch[k].staged]
    /\ fetch' = [fetch EXCEPT ![k].pc = "syncdir", ![k].staged = 0]
    /\ OnlyDisk /\ UNCHANGED <<part, durable, body, rec>>

(* Faulty variant of Commit: nobody flushes the directory. *)
CommitInACacheOnly(k) ==
    /\ At(k, "commit")
    /\ pool' = [pool EXCEPT ![k] = FreshInode]
    /\ body' = [body EXCEPT ![FreshInode] = "whole"]
    /\ part' = [part EXCEPT ![k] = NoPart]
    /\ Goto(k, "record")
    /\ OnlyDisk /\ UNCHANGED <<durable, rec>>

Commit(k) ==
    /\ At(k, "commit")
    /\ pool' = [pool EXCEPT ![k] = FreshInode]
    /\ body' = [body EXCEPT ![FreshInode] =
                    IF part[k].len # Size[k] \/ ~part[k].sound THEN "other"
                    ELSE IF part[k].synced THEN "whole" ELSE "unflushed"]
    /\ part' = [part EXCEPT ![k] = NoPart]
    /\ Goto(k, "syncdir")
    /\ OnlyDisk /\ UNCHANGED <<durable, rec>>

(* A rename is durable once its directory is flushed; the bytes a link made
   unnecessary then go. *)
SyncDir(k) ==
    /\ At(k, "syncdir")
    /\ durable' = [durable EXCEPT ![k] = pool[k]]
    /\ Goto(k, IF part[k].on THEN "drop" ELSE "record")
    /\ OnlyDisk /\ UNCHANGED <<part, pool, body, rec>>

DropPart(k) ==
    /\ At(k, "drop")
    /\ part' = [part EXCEPT ![k] = NoPart]
    /\ Goto(k, "record")
    /\ OnlyDisk /\ UNCHANGED <<pool, durable, body, rec>>

(* A row forgotten meanwhile is not written, and the file has no row. *)
RecordSuccess(k) ==
    /\ At(k, "record")
    /\ IF HasRow(k)
       THEN MarkDownloaded(k) /\ rec' = [rec EXCEPT ![k] = fetch[k].digest]
       ELSE UNCHANGED <<storeVars, rec>>
    /\ fetch' = [fetch EXCEPT ![k] = NoFetch]
    /\ owed' = owed \ {k}
    /\ UNCHANGED <<part, pool, durable, body, lock, reclaim, linking, pass, sweep, left>>

Worker(k) ==
    \/ Take(k) \/ ResumeFrom(k) \/ Answer(k) \/ Receive(k) \/ AttemptFails(k) \/ Cancelled(k) \/ Flush(k)
    \/ ShareHeldCopy(k) \/ StageLink(k) \/ RenameLink(k) \/ DropPart(k) \/ Commit(k) \/ SyncDir(k)
    \/ RecordSuccess(k)

-----------------------------------------------------------------------------
(* LinkCopies, a group of equal files at a time. *)

SameBytesGroup(k) == {c \in Keys : /\ items[c].state = "done" /\ items[c].held
                                   /\ SameBytes(c, k) /\ rec[c] = rec[k]}

(* separateFiles: the copies that are not yet names for the kept one's file. *)
Separate(kept) == {c \in SameBytesGroup(kept) \ {kept} : pool[c] = 0 \/ pool[c] # pool[kept]}

(* The first downloaded of a group is kept; which one that is the rows say,
   and here it may be any of them. *)
StartLinking(kept) ==
    /\ lock = "none" /\ left.runs > 0
    /\ kept \in SameBytesGroup(kept) /\ Separate(kept) # {}
    /\ lock' = "link"
    /\ left' = [left EXCEPT !.runs = @ - 1]
    /\ linking' = [NoLinking EXCEPT !.pc = "kept", !.kept = kept, !.todo = Separate(kept)]
    /\ UNCHANGED <<storeVars, diskVars, fetch, reclaim, pass, sweep, owed>>

OnlyLinking == UNCHANGED <<storeVars, part, body, rec, fetch, reclaim, pass, sweep, left, owed>>

CheckKept ==
    /\ linking.pc = "kept"
    /\ linking' = IF Intact(linking.kept) THEN [linking EXCEPT !.pc = "next"]
                  ELSE [linking EXCEPT !.pc = "next", !.todo = {}]
    /\ OnlyLinking /\ UNCHANGED <<pool, durable, lock>>

CheckCopy(c) ==
    /\ linking.pc = "next" /\ c \in linking.todo
    /\ linking' = [linking EXCEPT !.todo = @ \ {c}, !.copy = c, !.pc = IF Intact(c) THEN "link" ELSE "next"]
    /\ OnlyLinking /\ UNCHANGED <<pool, durable, lock>>

LinkCopy ==
    /\ linking.pc = "link"
    /\ linking' = IF pool[linking.kept] = 0 THEN [linking EXCEPT !.pc = "next"]
                  ELSE [linking EXCEPT !.pc = "rename", !.staged = pool[linking.kept]]
    /\ OnlyLinking /\ UNCHANGED <<pool, durable, lock>>

RenameCopy ==
    /\ linking.pc = "rename"
    /\ pool' = [pool EXCEPT ![linking.copy] = linking.staged]
    /\ linking' = [linking EXCEPT !.pc = "syncdir", !.staged = 0]
    /\ OnlyLinking /\ UNCHANGED <<durable, lock>>

SyncCopy ==
    /\ linking.pc = "syncdir"
    /\ durable' = [durable EXCEPT ![linking.copy] = pool[linking.copy]]
    /\ linking' = [linking EXCEPT !.pc = "next"]
    /\ OnlyLinking /\ UNCHANGED <<pool, lock>>

LinkingEnds ==
    /\ linking.pc = "next" /\ linking.todo = {}
    /\ linking' = NoLinking /\ lock' = "none"
    /\ OnlyLinking /\ UNCHANGED <<pool, durable>>

Linker ==
    \/ CheckKept \/ LinkCopy \/ RenameCopy \/ SyncCopy \/ LinkingEnds
    \/ \E c \in Keys : StartLinking(c) \/ CheckCopy(c)

-----------------------------------------------------------------------------
(* RemoveTwins: the pairs are read once, each kept copy is hashed once. *)

(* WrittenOffTwins pairs a written-off file with one copy of it, equal bytes
   before an equal name. *)
Pairings ==
    {f \in [{k \in Keys : IsTwin(k)} -> Keys] :
        \A k \in DOMAIN f : /\ IsCopy(f[k], k)
                            /\ (\E c \in Keys : IsCopy(c, k) /\ SameBytes(c, k)) => SameBytes(f[k], k)}

PassStarts(p) ==
    /\ pass[p].pc = "idle" /\ left.runs > 0
    /\ \E f \in Pairings :
        pass' = [pass EXCEPT ![p] = [NoPass EXCEPT !.pc = "next", !.todo = {<<k, f[k]>> : k \in DOMAIN f}]]
    /\ left' = [left EXCEPT !.runs = @ - 1]
    /\ UNCHANGED <<storeVars, diskVars, fetch, lock, reclaim, linking, sweep, owed>>

(* Faulty variant of CheckTwin: the kept copy's record is believed. *)
CheckTwinByItsRow(p, t) ==
    LET me == pass[p]
    IN  /\ me.pc = "next" /\ t \in me.todo
        /\ pass' = [pass EXCEPT ![p] = [me EXCEPT !.todo = @ \ {t}, !.twin = t, !.pc = "unlink"]]
        /\ UNCHANGED <<storeVars, diskVars, fetch, lock, reclaim, linking, sweep, left, owed>>

CheckTwin(p, t) ==
    LET me == pass[p]
        fine == t[2] \in me.good \/ (t[2] \notin me.bad /\ Intact(t[2]))
    IN  /\ me.pc = "next" /\ t \in me.todo
        /\ pass' = [pass EXCEPT ![p] =
                        [me EXCEPT !.todo = @ \ {t}, !.twin = t,
                                   !.pc = IF fine THEN "unlink" ELSE "next",
                                   !.good = IF fine THEN @ \union {t[2]} ELSE @,
                                   !.bad = IF fine THEN @ ELSE @ \union {t[2]}]]
        /\ UNCHANGED <<storeVars, diskVars, fetch, lock, reclaim, linking, sweep, left, owed>>

Unlink(p) ==
    /\ pass[p].pc = "unlink"
    /\ pool' = [pool EXCEPT ![pass[p].twin[1]] = 0]
    /\ pass' = [pass EXCEPT ![p].pc = "forget"]
    /\ UNCHANGED <<storeVars, part, durable, body, rec, fetch, lock, reclaim, linking, sweep, left, owed>>

ForgetTwin(p) ==
    /\ pass[p].pc = "forget"
    /\ Forget(pass[p].twin[1])
    /\ rec' = [rec EXCEPT ![pass[p].twin[1]] = "none"]
    /\ pass' = [pass EXCEPT ![p].pc = "next"]
    /\ owed' = owed \ {pass[p].twin[1]}
    /\ UNCHANGED <<part, pool, durable, body, fetch, lock, reclaim, linking, sweep, left>>

PassEnds(p) ==
    /\ pass[p].pc = "next" /\ pass[p].todo = {}
    /\ pass' = [pass EXCEPT ![p] = NoPass]
    /\ UNCHANGED <<storeVars, diskVars, fetch, lock, reclaim, linking, sweep, left, owed>>

Remover(p) ==
    \/ PassStarts(p) \/ Unlink(p) \/ ForgetTwin(p) \/ PassEnds(p)
    \/ \E t \in Keys \X Keys : CheckTwin(p, t)

-----------------------------------------------------------------------------
(* Verify with repair set: every done file is re-read, and what is missing
   or corrupt is queued again once all have been. *)

SweepStarts ==
    /\ sweep.pc = "idle" /\ left.runs > 0
    /\ sweep' = [NoSweep EXCEPT !.pc = "read", !.todo = {k \in Keys : items[k].state = "done" /\ items[k].held}]
    /\ left' = [left EXCEPT !.runs = @ - 1]
    /\ UNCHANGED <<storeVars, diskVars, fetch, lock, reclaim, linking, pass, owed>>

SweepReads(k) ==
    /\ sweep.pc = "read" /\ k \in sweep.todo
    /\ sweep' = [sweep EXCEPT !.todo = @ \ {k}, !.faulty = IF Intact(k) THEN @ ELSE @ \union {k}]
    /\ UNCHANGED <<storeVars, diskVars, fetch, lock, reclaim, linking, pass, left, owed>>

Requeue(k) ==
    /\ sweep.pc = "read" /\ sweep.todo = {} /\ k \in sweep.faulty
    /\ IF HasRow(k) THEN SetItemState(k, "discovered") ELSE UNCHANGED storeVars
    /\ sweep' = [sweep EXCEPT !.faulty = @ \ {k}]
    /\ owed' = IF Live(k) THEN owed \union {k} ELSE owed
    /\ UNCHANGED <<diskVars, fetch, lock, reclaim, linking, pass, left>>

SweepEnds ==
    /\ sweep.pc = "read" /\ sweep.todo = {} /\ sweep.faulty = {}
    /\ sweep' = NoSweep
    /\ UNCHANGED <<storeVars, diskVars, fetch, lock, reclaim, linking, pass, left, owed>>

Sweeper == SweepStarts \/ SweepEnds \/ \E k \in Keys : SweepReads(k) \/ Requeue(k)

-----------------------------------------------------------------------------
(* The world. *)

Spend == left.faults > 0 /\ left' = [left EXCEPT !.faults = @ - 1]

(* The process dies; with the power, bytes and renames that were not flushed
   may go too. *)
Crash ==
    /\ lock # "none" /\ "crash" \in PoolFaults /\ Spend
    /\ fetch' = [k \in Keys |-> NoFetch]
    /\ lock' = "none" /\ reclaim' = {} /\ linking' = NoLinking
    /\ UNCHANGED <<storeVars, diskVars, pass, sweep, owed>>

PowerCut ==
    /\ lock # "none" /\ "power" \in PoolFaults /\ Spend
    /\ \E undone \in SUBSET {k \in Keys : durable[k] # pool[k]}, kept \in [Keys -> Lengths] :
        /\ \A k \in Keys : kept[k] <= part[k].len /\ (part[k].synced => kept[k] = part[k].len)
        /\ pool' = [k \in Keys |-> IF k \in undone THEN durable[k] ELSE pool[k]]
        /\ durable' = pool'
        /\ part' = [k \in Keys |->
                IF k \in undone /\ At(k, "syncdir") /\ ~part[k].on
                THEN [on |-> TRUE, len |-> Size[k], sound |-> pool[k] # 0 => body[pool[k]] # "other",
                      synced |-> TRUE]
                ELSE [part[k] EXCEPT !.len = kept[k], !.synced = TRUE]]
    /\ body' = [i \in Inodes |-> IF body[i] = "unflushed" THEN "other" ELSE body[i]]
    /\ fetch' = [k \in Keys |-> NoFetch]
    /\ lock' = "none" /\ reclaim' = {} /\ linking' = NoLinking
    /\ pass' = [p \in Passes |-> NoPass] /\ sweep' = NoSweep
    /\ UNCHANGED <<storeVars, rec, owed>>

(* A disk fault between a check and what rests on it is not the program's to
   prevent, and is left out. *)
NobodyRelies ==
    /\ \A k \in Keys : fetch[k].pc \notin {"link", "rename"}
    /\ linking.pc \in {"idle", "kept"}
    /\ \A p \in Passes : pass[p].good = {}

Rot(i) ==
    /\ "rot" \in PoolFaults /\ NobodyRelies /\ Spend
    /\ i \in {pool[k] : k \in Keys} \ {0} /\ body[i] = "whole"
    /\ body' = [body EXCEPT ![i] = "rot"]
    /\ UNCHANGED <<storeVars, part, pool, durable, rec, actorVars, owed>>

Vanish(k) ==
    /\ "vanish" \in PoolFaults /\ NobodyRelies /\ Spend
    /\ pool[k] # 0 /\ fetch[k].pc \notin {"syncdir", "drop", "record"}
    /\ pool' = [pool EXCEPT ![k] = 0] /\ durable' = [durable EXCEPT ![k] = 0]
    /\ UNCHANGED <<storeVars, part, body, rec, actorVars, owed>>

Quiet ==
    /\ lock = "none" /\ left.runs = 0
    /\ sweep.pc = "idle" /\ \A p \in Passes : pass[p].pc = "idle"
    /\ UNCHANGED vars

PoolNext ==
    \/ StartRun \/ Tidy \/ Linker \/ Sweeper \/ Crash \/ PowerCut \/ Quiet
    \/ \E k \in Keys : ReclaimVanishedFile(k) \/ Relist(k) \/ Worker(k) \/ Vanish(k)
    \/ \E a \in Albums, k \in Keys : Relink(a, k) \/ FindGone(a, k)
    \/ \E p \in Passes : Remover(p)
    \/ \E i \in Inodes : Rot(i)

PoolSpec == PoolInit /\ [][PoolNext]_vars

-----------------------------------------------------------------------------
(* Properties. *)

(* Whatever is cut short, killed or loses power, a name in the pool leads to
   the complete bytes, unless the disk has changed them since: the rename is
   the commit, and it follows the flush. *)
PoolFilesAreWhole == \A k \in Keys : pool[k] # 0 => body[pool[k]] # "other"

(* The hash a row records is the hash of the complete bytes, however many
   runs and restarts the download took. *)
HashIsHonest == \A k \in Keys : rec[k] \in {"none", "whole"}

(* While nobody removes files, a row that records one has one on the disk,
   before and after a power cut. *)
HeldIsOnDisk == \A k \in Keys : items[k].held => pool[k] # 0 /\ durable[k] # 0

Kept(k) == items[k].held /\ pool[k] # 0 /\ body[pool[k]] = "whole"
DiskFault == left'.faults < left.faults

(* No step of the program takes a photograph's last good recorded file away:
   not a commit over it, not a link over it to a rotted copy, not a pass
   removing written-off copies while walks and sweeps change the rows. *)
LastCopySurvives ==
    [][~DiskFault => \A k \in Keys : Kept(k) => \E c \in Keys : Photo[c] = Photo[k] /\ Kept(c)']_vars

(* A row verify queued again says done only once its file has been fetched
   again, whatever listings, runs and other sweeps come first; the one way
   past it is to be written off and then listed again, which restores a row
   by the file it records. *)
RepairStaysOwed ==
    [][\A k \in owed \intersect owed' :
          items[k].state # "done" /\ items'[k].state = "done" => WrittenOff(k)]_vars
=============================================================================
