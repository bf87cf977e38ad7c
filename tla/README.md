# gpb: a verification project

gpb copies a Google Photos account to a disk: a daemon makes one backup a day,
web pages say what it copies, a browser profile holds the Google session, and a
few commands (`gpb sync`, `gpb verify`, `gpb duplicates`) do parts of the same
from another process. The modules here model the parts that decide whether a
photo is backed up, and stays so. Paths below are relative to the repository
(`internal/...`, `cmd/gpb/...`).

## 1. Inventory

| Part | State | Operations | What makes it correct |
| --- | --- | --- | --- |
| Item and album store (`internal/store`) | rows of `media_items` (state, path, hash, failures, review flag, date of the write-off), memberships, selections, sync modes | one SQL statement or transaction each: upsert, link, reconcile, mark downloaded or failed, flag, settle, select, forget | rows agree with each other; a photo is not lost without a question or a copy |
| Backup run (`internal/syncer`: `syncer.go`, `queue.go`, `listing.go`, `report.go`) | a walker, a feeder, workers, a breaker, two contexts | list albums, write off, hand out, fetch, retry, give up, report | nothing is written off that was not seen to be gone; nothing listed is left behind; a run ends and says truly how |
| Pool and staging directory (`download.go`, `copies.go`, `twins.go`, `verify.go`) | `.part` files, pool files and the inodes they share, recorded hashes | resume, append, flush, rename, link copies, remove written-off copies, verify and requeue | a pool name leads to whole bytes; the last good copy stays |
| Library walk (`library.go`) | the date bound, "only what is new", the last whole walk | walk, stop at the bound or at held photos, reconcile what the walk vouches for | no write-off of what is there; new photos are found |
| Daemon, schedule, runner (`internal/daemon`, `internal/engine`) | the slot, the run lock, `sync_runs`, the schedule's goroutine | tick, claim, run, link copies, stop, restart | one run at a time; a run cut off is picked up or hidden by an attempt that says why; one attempt for each reason; Stop returns |
| Google session and login browser (`internal/auth`, `internal/web/reauth.go`) | the profile's flag and file lock, health, the running browser, its idle timer | warmup, keepalive, start, watch, close, check | one browser on the profile; a login is noticed; an idle browser is closed |
| Login guard and passwords (`internal/web/loginguard.go`, `login.go`, `config/password.go`) | failures, the lockout, one mutex for attempts | post, read the hash, compare, charge, lock out | wrong passwords are counted however many arrive at once; only the current password is accepted |
| Configuration file (`internal/config`, `web/settings.go`, `cmd/gpb/passwd.go`) | `config.toml`, its one temporary name, the copy the daemon started with | load, lay a form over it, save by write and rename | the file is whole after any stop; nobody's change is reverted |
| Home Assistant bridge (`internal/homeassistant`, `daemon/homeassistant.go`) | the connection, what was last published, the reload channel, the cached counts | dial, announce, publish, obey, say goodbye, reload | one client; the dashboard shows the truth or says "offline"; new settings that were read are dialled |
| Live updates (`internal/web/live.go`, `static/live.js`) | the hub, each socket's pending topics and wake, the page's timers and fetches | watch, publish, send, reconnect, pull, swap | a page comes to show what is sampled of its regions; nothing of a closed socket is left; a signed-out page leaves |
| Google protocol (`internal/gphotos`) | none | call, decode, fetch | each answer becomes the right one of four errors; fields are not modelled |
| Pages | none of their own | forms that change modes, picks and review answers; requests for a run | their statements are the store's, their requests the runner's; rendering is not modelled |
| Album view, thumbnails, sweep and database copy, places, TLS, reporting commands | links, cache files, copies | rebuild, fetch, copy, parse, print | not modelled (section 6) |

How the parts meet. The daemon's schedule and the pages ask the runner for a
job; the runner takes the run lock and makes a run. A run's goroutines, the
pages and the commands share the store, whose single connection makes each
statement atomic and nothing more. A run and a linking pass hold the run lock
on the pool; `verify` and the removal of written-off copies hold nothing. A run
and the keepalive warm the browser profile, which the login browser and another
process may hold. The settings page and `gpb passwd` rewrite the file that the
password forms read at every attempt and that the bridge reads at every dial.
The watcher of the live pages and the bridge sample the store and the runner;
neither is told of a change.

What is hard, and listed under `hazards` in `PROJECT.json`: the walk, the
feeder and the workers interleave over the same rows; a run may be stopped,
killed or lose power between any two file operations; Google may answer with an
error, with nothing, or with a page that does not decode, and changes while it
is walked; decisions are made from rows, hashes and timers that are old when
they are used; several processes rewrite one file from copies they read before;
a broker and a browser come and go, and messages to them are lost; and
everything that stops must stop although others wait for it.

## 2. Modules

Each module states at its head what a step is. `map` in `PROJECT.json` ties
every definition to its lines.

**ItemStore** is the abstract specification of the database. Each operator named
after a method of `store.Store` is one statement; `StoreNext` allows any of them
at any time with the arguments its callers pass. `Reconcile` keeps the one
subtle thing about its UPDATE: SQLite visits the rows one after another in no
promised order, and each row's review flag is computed from the rows as they are
by then. `Sha`, `Name`, `Size` and `Photo` say which keys are copies; the
assumption `CopiesArePhotographs` is the one the copy rule itself stands on
(equal bytes, or an equal name in the same second and a size at least as large,
is the same photograph). Picks are made by item, by a range of the grid
(`SelectRange`, over every order the grid may show) and by whole album. `asked`
is history. Left out: listing columns,
favourites, rows written before 0.4.2, and `MarkMissingUpstream`, which has no
caller.

**SyncRun** extends ItemStore with one process making runs. The walker
(`RefreshAlbums` ... `MarkSynced`), the feeder (`Offer`, `BatchOver`,
`WaitBeforeAskingAgain`, `SampleListing`, `AskAgain`) and the workers
(`TakeItem`, `FetchSucceeds`, `FetchFails`, `RecordFailure`) are goroutines of
one state machine; reads whose result is used later (the membership, the batch,
whether the listing was over) are kept in the goroutine that read them. The
breaker and the two cancellable contexts are `DownloadCancelled` and
`ListCancelled`. A statement that the store refuses a worker (`BookkeepingFails`)
ends its item uncharged and counts against the breaker; whether a repeated
failure is word for word the recorded one, which `BreakerAfter` depends on, is
left open. The library is walked whole here; where it may stop is
LibraryWalk's. Files are not modelled: a fetch succeeds or fails.

The faults of a run are answers of **Protocol**, a module of constants only: it
names what a request to Google can meet with and follows `Post`, `DecodeFrames`,
`PayloadFor`, `DownloadURL` and `Fetch` to the error each becomes, and
`Retryable` to the ones tried again. So SyncRun takes an expired signature for
transient and a page of HTML for a signed-out session because the client does.
Pages choose modes, pick and answer reviews while a run is on (`PageVisit`).

**Pool** extends ItemStore with the disk. Each key has one `.part` and one pool
name; a name leads to an inode, and `durable` is what it would lead to after a
power cut. A worker's download (`Take` ... `RecordSuccess`), the linking pass,
passes of `RemoveTwins` and `verify --repair` are processes; a step is one
answer, file operation or statement. A `.part` knows its length, whether it is a
beginning of the file, and whether it was flushed; bytes are not modelled
further. How often a worker retries is SyncRun's.

**LibraryWalk** models the decisions of `library.go` on their own, over a
timeline served a page at a time that is ordered by place, while dates may
differ from places by `Drift` (time zones); the code's `boundaryWobble` must
exceed twice that, the assumption `TimelineOrder`. Every key is in no other
album, so a departure is a write-off. `hist.buried` is history: photos a
new-only walk may not be asked to find, because they were uploaded with an old
date, or lie under a photo that was restored.

**Runner** models who starts a backup: the schedule's three steps (look at the
slot, read the last row, claim), requests served after the server stopped
listening, the job with its lock, row and linking pass, shutdown with its wait,
kills, and `gpb sync`. A run is the row it leaves, and the store may refuse a
row's opening or its closing or the query of the last one, while it is open (a
full disk) as well as after it is closed. `began` tells the row of a backup from
that of an attempt that never became one; `cutOff` and `tries` are history. An
attempt that could not begin leaves `cutOff` as it is. Time is the number of
scheduled moments passed.

**LoginBrowser** models the profile (flag and file lock), warmups, health, the
login browser under its mutex, the idle watcher, pages and logouts, each of
which decides first and stops after, another process's warmup, and Google
ending the session it knows (`SessionEnds`), which the next check finds.

**ConfigFile** models `config.toml` as an inode behind a name, and each of its
savers (the settings page, `gpb passwd`, a first start) as Load, edit, open the
temporary, write, rename. All use one temporary name, so two at once may write
into the same inode: `Written` allows the splice that a shorter text over a
longer one leaves. Of the settings, it keeps the password's hash and the broker.

**WebLogin** extends it with the two forms that take the password. A request
waits for the guard's mutex, reads the lockout, reads the hash from the file,
compares, and is charged a second later. **LoginLimit** is what that guard
promises, on its own and a page long: wrong passwords one after another, `Limit`
at most before a lockout, none during one. `LimitOf == INSTANCE LoginLimit WITH
tries <- Tries, lockedOut <- locked` is the refinement; `Tries` counts a wrong
password from the comparison, before the counter has it.

**Bridge** models `Run` and its attempts, the MQTT client (which reconnects by
itself and answers each connection with an announcing goroutine), the broker's
retained messages and will, the reload channel of capacity one, and the cached
counts. Which client is current, what was last published and what the settings
page reports are shared by the goroutines as in the code. A read of the
configuration that fails gives the settings of the start, a count that fails
gives zeros, and a lost connection is noted by a goroutine of its own
(`NoteLost`), before or after the client is back. Four variables are history:
`misread`, `overtaken` (a loss noted after the connection that followed it),
`unheard` (a later state was kept by the broker and acknowledged too late) and
`crossed` (a publication overlapped another, or a farewell). `AbsentSayOffline` asks of each
broker that still says "online" that the bridge is connected to it.

**Live** models both ends of a live page: the watcher's comparison of the values
it samples, the hub's publish under its mutex, each socket's `queue`, `take`,
`send` and read loop, and live.js's connect, settle, pull and swap, with a
restart of the daemon and a session that ends. `Parts` are the sampled fields,
`TopicOf` what each is published under, `Rendered` what the region is rendered
from and `Heard` the topics it answers to: a part that changes and changes back
between two samples is published to nobody, and so is, as far as the region
goes, one whose topic it does not answer to. A write may fail on a connection
that is still open, by its deadline; the writer then closes it. `missed` is
history: an answer failed, came too late, or was rendered in between two samples
that found the same, so that the page waits for the next topic.

`MC*` modules give the constants for TLC. `*Proofs` modules hold the theorems:
ItemStoreProofs, SyncRunProofs and PoolProofs (which extend it), LibraryWalkProofs,
RunnerProofs, LoginBrowserProofs, WebLoginProofs (ConfigFile's as well) and
BridgeProofs.
Definitions whose comment begins "Faulty variant" are bugs the code could have
had: each makes one property fail, which shows that the property can.

## 3. Runs

| Run | Checks | Shows |
| --- | --- | --- |
| `item_store` | `StoreTypeOK`, `RowsAgree`, `NeverLostInSilence`, `FileRecordsSurvive` | any order of statements keeps the rows consistent and loses no photo in silence |
| `sync_run_walk` | `OkMeansWalked`, `WriteOffWasObserved`, `StoreSpec` | a run refines the store; a write-off was observed; ok means walked |
| `sync_run_queue` | `OneWorkerPerItem`, `NothingLeftBehind`, `OnlyOwnFailuresAreCharged`, `RunEnds` | the feeder's protocol, the charging of failures, and termination |
| `pool_writes` | `PoolFilesAreWhole`, `HashIsHonest`, `HeldIsOnDisk` | the write protocol under crashes and power cuts |
| `pool_twins` | `LastCopySurvives`, `RepairStaysOwed` | one removal pass beside runs, links, sweeps, rot and lost files |
| `runner` | `CutOffIsOwed`, `NoRestartStorm`, `OneRunAtATime`, `OwedIsAttempted`, `StopReturns` | the schedule, the lock and the shutdown |
| `library_walk` | `WriteOffsAreTrue`, `DeletionsAreNoticed`, `NewPhotosAreFound` | where a walk may stop and what it may write off |
| `login_browser` | `HealthFitsTheSession`, `OneBrowserOnTheProfile`, `IdleBrowserIsClosed`, `LoginIsNoticed` | the profile, the login browser, the check after it |
| `web_access` | `ConfigIsWhole`, `PasswordStands`, `OnlyCurrentPasswords`, `LimitHolds` | the guard implements its limit; only current passwords; the file under stops and a full disk |
| `bridge` | `OneClientAtATime`, `StaleSettingsAreAskedFor`, `AbsentSayOffline`, `DashboardCatchesUp`, `StandingCatchesUp` | connections, retained messages and reloads |
| `live` | `RegionsCatchUp`, `SocketsAreReaped`, `SignedOutPagesLeave` | a page and its sockets, from change to screen |
| `sync_run_arrivals` | `ArrivalsAreFlagged` | a disagreement, section 5 |

`StoreSpec` in `sync_run_walk` is the refinement: the variables of ItemStore are
SyncRun's own, so the mapping is the identity: every step of a run is a
statement of the store, with the arguments the store's theorems assume, or
leaves the store alone. `LimitHolds` in `web_access` is the other refinement,
with a mapping. Both are proved as well (section 4), so what is proved of
`StoreSpec` holds of runs of any size.

Some properties say when they hold, because the code promises no more. Those of
the configuration file speak of savers that do not overlap (`apart`); two of the
bridge, of publications that did not cross. `StaleSettingsAreAskedFor` excepts a
file that could not be read, `StandingCatchesUp` a loss noted after the
reconnection, `CutOffIsOwed` a later attempt that says why it could not begin.
`RegionsCatchUp` speaks of what is sampled and heard, of hands off the region and
of answers that arrived; `RepairStaysOwed`, of rows not written off
meanwhile; `NewPhotosAreFound`, of walks not cut short. What happens outside of
these is in section 5.

### Bounds

- `item_store`: two keys that are copies of one another, two albums, one failure
  allowed. Two rows are what `Reconcile`'s order is about; the theorems take
  over for more. The constraint `FewPageVisits` freezes the second album's mode
  and the marks, which no property reads.
- `sync_run_walk`: one key, an album and the library, two runs, two changes of
  Google, an item limit of one, so the limit is reached. Two runs are what a
  write-off and its overturning take.
- `sync_run_queue`: one key and two workers, two runs, two attempts, a breaker
  that opens at one failure, one change of Google and one visit to the pages. Its
  item limit is never reached; that is `sync_run_walk`'s.
  The second worker is there to be handed the same item.
- `pool_writes`: two keys of the same bytes, two bytes long, two runs, two
  faults, and nobody who removes files, which is what `HeldIsOnDisk` is about.
  `pool_twins`: one removing pass, three runs or passes, three listings, one
  fault. More keys, sizes, runs and faults are the theorems'.
- `library_walk`: four photos of which one has no date and two are served out of
  date order, pages of one, two nights, three changes, no bound or one. Three
  changes are what a deletion, a restoration and a new photo take together; more
  photos and nights, and larger pages, are the theorems'.
- `runner`: two days, and four requests, commands, shutdowns, kills or rows the
  store refuses, which takes an attempt that the disk refuses and the ones that
  follow it.
- `login_browser`: one session, two login browsers one after the other, and one
  warmup, of the schedule or another process, or one end of the session by
  Google, beside the check after each browser. A sign-in checked, ended and
  checked again takes those.
  More sessions, browsers and warmups are the theorem's.
- `web_access`: two passwords, two requests, a limit of two and three posts, so
  the lockout is reached by either request after the other; one settings page
  beside `gpb passwd` and the daemon, three saves or starts, one stop or full
  disk. More requests and any limit are the theorem's.
- `bridge`: one broker or none, two clients, one announcement at a time beside
  the loop, one change of what there is to show, and two troubles in all: saves
  or redials, losses, late acknowledgements, files and counts that cannot be
  read. Two clients are what an attempt after a timed-out dial takes; two
  troubles, a lost acknowledgement in a connection that follows a lost one, or a
  save and a read that fails.
- `live`: one page, a socket that goes while another comes, two fetches, and two
  troubles in all: changes of a part, connections broken or stalled, fetches that
  fail, restarts, the end of the session. The region is the overview's: rendered
  from two parts, and answering to the topic of one. Two changes are what a value
  that goes and comes back takes.

Every passing run checks for deadlock: a step that only says that nothing is
left to do (`AllRunsMade`, `Quiet`, `AllNightsOver`, `NotFollowed`,
`NothingToDo`, `NobodyThere`, `Over`, `LoggedOut`) stands for a process that has ended or waits for tomorrow.

### Fairness

`FairRunSpec`: each goroutine of a run is weakly fair. A request to Google ends
because its client has a timeout, timers fire, and Go runs what can run. Nothing
is assumed of Google's contents, of the pages, or of the process surviving.
`FairRunnerSpec`: the ticker ticks, a job is bounded by its timeout, handlers
and a command return, Stop's steps are taken. Nobody has to ask for anything,
and the daemon need not be started. `FairLoginSpec`: children start or fail
within their bounded wait, tickers tick, idle time passes while nobody moves,
handlers and warmups run to their end. Nothing is assumed of the people.
`FairBridgeSpec`: the loop and the announcing goroutines run, the ticker ticks,
the counts grow old, and a page that saved goes on to ask. The end of serving is
strongly fair, since Go's `select` picks among the ready cases at random and
does not prefer the ticker for ever. A connection is owed to nobody: the broker
may stay away. `FairLiveSpec`: goroutines run, timers fire, handlers answer, the
browser delivers events, and a server going down goes; it need not come back,
and nobody has to look at the page.

## 4. Proofs

Every safety property of the passing runs is a theorem, for every value of the
constants that satisfies the assumptions its module names. TLC checks these
assumptions on each run; they are no stronger than the code's own (finite sets
of items and workers, limits of at least one, equal bytes are the same
photograph, dates and places that lie close). Each theorem goes by an inductive
invariant; action properties and refinements use the same invariants, step by
step.

**ItemStoreProofs** (assuming `ConstantFunctions` and `CopiesArePhotographs`).
`StoreTypeCorrect`: the types. `RowsAlwaysAgree`: `RowsAgree`, the conjunction of
`WriteOffIsDated`, `DoneHasAFile`, `NoDanglingRows` and `WrittenOffHasAnAlbum`.
`NothingIsLostInSilence`: `NeverLostInSilence`. `FileRecordsAreKept`: the action
property `FileRecordsSurvive`. The invariant `StoreInv` is these, the types, and
`NoRowNoFile` (a key without a row has no file record), which `UpsertItem`
needs. The one hard case is `NeverLostInSilence` under `Reconcile`, whose UPDATE
may visit the rows in any order: among the rows of one photograph that it writes
off, take the one visited last (`LastVisited`, by well-founded induction). When
that row was visited the others had gone already, so it was flagged unless a
copy stays, and the flag, or the copy, is what the invariant asks for.

**RunnerProofs** (assuming `RunnerConstants`). `RunnerTypeCorrect`: the types.
`PoolIsNotShared`, `CutOffStaysOwed` and `ScheduleIsQuiet`: `OneRunAtATime`,
`CutOffIsOwed` and `NoRestartStorm`. Their common invariant `RunnerInv` adds
`RowsAreOfThePast`, without which a row could look newer than the present day;
`BackupHasTheRow`, since the row a backup is recorded in is the last one only
while nobody else can begin a run, and while `gpb sync` works the last row is
its own or that of an attempt its lock refused; and `Tried`, which says where
the one attempt is: under way with the schedule idle, or over with a row that is
not owed. The lemma `FailureInv` is the attempt that does not become a backup,
with the row taken, half taken or refused.

**SyncRunProofs** (assuming also `RunConstants`). `RunImplementsTheStore`:
`RunSpec => StoreSpec`. Most steps are statements as they stand; what needs the
invariant is that their arguments are the ones the store allows. `AlbumInHand`:
the membership a walk reconciles against is still a part of the album's, and an
item it links has a row. `MayStillFail`: what a worker is about to be charged
for is below the limit and has a row, although the walk may have written it off
since it was handed out. `RunRowsAgree`, `RunLosesNothingInSilence`
and `RunKeepsFileRecords` then carry the store's theorems over.
`QueueSafety` (`OneWorkerPerItem`): `QueueInv`, whatever is in a worker's hands
is in the feeder's memory, and outside of a running phase all are idle.
`DrainSafety` (`NothingLeftBehind`): `DrainInv` follows the feeder from the
sample of the listing to the query after it; a batch asked for after the listing
ended either is as large as the limit or covers, with what was offered and what
the pages touched, everything owed.
`OkSafety` (`OkMeansWalked`): `FollowedInv`, in a run that nothing has troubled
so far, every album it set out to walk is walked or still ahead.
`ChargeSafety` (`OnlyOwnFailuresAreCharged`): `CancelledStaysCancelled`, a
worker that saw its context cancelled finds it cancelled when it reports; a
breaker that has tripped stays so, whatever else it counts (`BreakerStaysTripped`).
`WriteOffSafety` (`WriteOffWasObserved`): `ObservedInv` keeps `hist.absent`
together with the walk; at the reconciliation every key the walk did not see was
absent at some moment since the listing.

**PoolProofs** (assuming also `PoolConstants`). `DiskSafety`: `DiskInv`, which
holds under every fault. Besides the types it says that a row records a file
exactly when it records a hash, and how far each download is (`Progress`): the
`.part` is a beginning of the file, what has been hashed is what is on it, and
what is renamed or linked is complete and flushed. `WholeSafety`
(`PoolFilesAreWhole`) and `HashSafety` (`HashIsHonest`) follow. That an inode
for a new file is always free (`FreshIsNew`) is a count of who can hold one.
`HeldSafety` (`HeldIsOnDisk`) is under `NobodyRemoves`: no removing pass and no
file taken from outside, as in `pool_writes`, since a pass does remove a file
before its record. `HeldInv` follows the order rename, flush of the directory,
record.
`LastCopySafety` (`LastCopySurvives`) is under `OnePass`: two passes at once can
each remove the copy the other verified (section 5). `TwinsInv` says that what a
pass has found good is still recorded and whole, and that no copy it would
remove is one it relies on; `LinksInv`, that what is linked over another file is
whole. That every other actor leaves both alone is the lemmas on `Undisturbed`.
`RepairSafety` (`RepairStaysOwed`): whoever sets a row to done either fetched it
or listed it again after a write-off.

**LibraryWalkProofs** (assuming `TimelineOrder` and `WalkConstants`). Three
action properties. `WriteOffSafety` (`WriteOffsAreTrue`) rests on `WalkInv`:
`WatchedInv`, a photo there when the walk began is there or was seen to go;
`SweepInv`, of the photos there all the while the walk has left none behind its
cursor but those older than the bound; `StopInv`, the three ways a walk may end
and where its cursor is then. A photo it did not read, on the near side of where
it may vouch, would lie above the cursor; the margin in `TimelineOrder` is what
this step uses. `DeletionSafety` (`DeletionsAreNoticed`) adds `WrittenOffInv`,
that the step after the reconciliation finds all departures gone.
`NewPhotoSafety` (`NewPhotosAreFound`) needs `GroundInv`: `NoneMissed` says that
of the photos clear of the bound and not buried, those below one that is held
are held. It is kept in several forms, at rest, at the start of a walk, on the
way, on a page the walk may stop at and at its end, because a walk turns it
around: it records from the top, so on the way the photos above the cursor are
held, and those below only from the ground it started with. When all of a page
was held before, that ground is below it, and the walk may stop.

**LoginBrowserProofs** (assuming `LoginConstants`). `ProfileSafety`:
`OneBrowserOnTheProfile`. Its invariant `LoginInv` has four parts besides the
types. `OneHolder` and `FlagFollows` are the property in a form without
cardinalities. They are not inductive alone: a step of Stop that a goroutine
takes twice, or a check begun while an earlier check of the same browser has the
profile, would release it for somebody else. `OneStopEach` says that a goroutine
is in Stop once at a time, a page's while its request is served and a watcher's
after its last tick; `OneCheckEach`, that each browser is closed once, under a
number that no other closing browser and no check has. `HealthSafety`:
`HealthFitsTheSession`, which with its types is inductive by itself: a session
that Google ends changes neither, and the check that finds it ended changes
health and session together.

**WebLoginProofs** (assuming `GuardConstants` and `ConfigConstants`).
`GuardImplementsTheLimit`: `WebSpec => LimitHolds`, that the guard with any
number of requests implements `LoginLimit`. The invariant `GuardInv` says that
whoever is between reading the lockout and being charged holds the mutex and
found no lockout, so there is one of them at most and the count is below the
limit when they are charged. Each step then is a step of the abstract guard or
leaves `Tries` and the lockout alone: a wrong comparison is `TryWrong`; the
charge that follows is `LockOut` when it reaches the limit, and otherwise
stutters, since `Tries` had it already.
`ConfigSafety` (`ConfigIsWhole`) and `PasswordSafety` (`PasswordStands`), while
savers do not overlap: `FileSafe` says that the file is whole, has the password
last reported and is not what the temporary name leads to; `SaverSafe`, that the
one saver at work has the temporary to itself and puts into it what it read with
that password, or the new one. `OnlyCurrentSafety` (`OnlyCurrentPasswords`) adds
`AttemptSafe`: the hash a request holds, and the password it matched, are ones
the file had since the attempt began.

**BridgeProofs** (assuming `BridgeConstants`). `ClientSafety`
(`OneClientAtATime`): `OneAttempt`, a client is alive only as the current one of
an attempt that is under way. `ReloadSafety` (`StaleSettingsAreAskedFor`), which
is inductive beside it: `misread` is set and cleared by the read alone. `FarewellSafety` (`AbsentSayOffline`): `FarewellStands`,
until an announcement crosses a farewell, none is under way while the client is
hung up, and the one broker that says "online" is the one the client is
connected to.

Only model-checked: what needs fairness, which is beyond this prover: `RunEnds`,
`OwedIsAttempted`, `StopReturns`, `IdleBrowserIsClosed`, `LoginIsNoticed`,
`DashboardCatchesUp`, `StandingCatchesUp`, and the three of `live`. Live states
no safety property and has no theorem. `ArrivalsAreFlagged` is false. Protocol
and LoginLimit are definitions that others use.

## 5. Where code and documents disagree

With a run that shows it:

- `sync_run_arrivals`: arrivals of a picked album are linked as their page is
  read and flagged after the last one. A walk that fails in between leaves them
  linked and never flagged (`internal/syncer/listing.go:297`; DESIGN.md:207).

Seen while modelling, with no run of their own. The backup:

- `RemoveTwins` takes no lock; the page's pass and `gpb duplicates --delete` can
  each remove the copy the other verified (`internal/syncer/twins.go:104`,
  against `:80`). `pool_twins` has one pass.
- A corrupt file's item, queued again by `verify --repair`, then written off and
  listed again before it is fetched, is done once more over the rotted file
  (`internal/store/items.go:57`, against `internal/syncer/verify.go:94`).
  `RepairStaysOwed` excepts exactly this.
- A walk cut short after its first page makes that page known ground; later
  new-only walks stop above new photos until the next whole walk
  (`internal/syncer/library.go:67`; DESIGN.md:759). `NewPhotosAreFound` excepts it.
- A photo deleted and restored on Google comes back to its place; new photos
  below it that no walk has read yet lie under one the program holds, and
  new-only walks stop above them (`internal/syncer/library.go:67`). Excepted as
  well.
- A request that meets the client's own timeout is a `context.DeadlineExceeded`
  and so not tried again (`internal/syncer/retry.go:41`).
- A decision from a review form shown before an item was written off also
  answers the question of the write-off (`internal/web/review.go:218`); an
  arrival that is written off and listed again before it was answered loses its
  question; a grid form sent from an old page clears a pick approved since
  (`internal/web/album.go:298`).
- A scheduled backup that is refused by the lock of a `gpb sync`, or does not get
  to Google, writes a row of its own. The schedule reads the last row only, so
  that row hides a backup cut off before it, the daemon's as well as the
  command's, until the next scheduled moment (`internal/daemon/runner.go:250`,
  `daemon.go:143`; README.md:14 and `internal/store/runs.go:11` say that what was
  cut off is picked straight back up). `CutOffIsOwed` excepts exactly this.
- When the store does not take a row, for a full disk, an attempt leaves none
  and a finished backup leaves its row open. Either is owed, and every tick then
  starts another backup, a browser each (`internal/daemon/runner.go:252`,
  `internal/syncer/syncer.go:190`, `internal/syncer/report.go:27`, against the
  comment at `runner.go:245`). `NoRestartStorm` counts such a row as a reason for
  the next attempt and so does not exclude it.
- An answer of Google that ends early, without a token after some items, is taken
  for the whole: what it left out counts as gone. The checks look at walks that
  listed nothing (`internal/syncer/listing.go:361`, `library.go:60`). Not modelled.
- A run that reaches `MaxItemsPerRun` while its listing walks cancels it and is
  recorded as interrupted (`internal/syncer/report.go:48`, `internal/store/runs.go:12`
  say that means it was told to stop); the schedule then starts another at once.
- A process killed between the last byte and the rename leaves a complete
  `.part`; the resume is refused by the host and charged to the item
  (`internal/gphotos/download.go:179`).
- The tidying at the end of a run asks for a work list cut at the item limit and
  drops `.part` files of items still owed (`internal/syncer/syncer.go:216`).
- A tick that found a backup owed before a shutdown may claim the slot after
  `Stop` has waited; the run starts on a closed store
  (`internal/daemon/runner.go:208`).
- `SetLibrary` during a walk forgets the last whole walk, and the walk, still
  bound by the old date, then records one (`internal/syncer/library.go:87`); an
  empty answer for the whole timeline also counts as a whole walk.
  `NewPhotosAreFound` excepts both.
- The walk ends at a page whose last item is behind the date, not one that is
  behind it whole (`internal/syncer/library.go:226`).
- The idle watcher decides, lets go of the mutex and then stops whatever runs
  (`internal/auth/reauth.go:353`); a page asks whether it may close the browser
  and then closes whichever runs (`internal/web/reauth.go:60`); and once the
  starter's session is gone every session may watch (`internal/web/reauth.go:181`).
- DESIGN.md says the login browser is torn down on a detected login; nothing
  detects one while it runs.

The web interface and the bridge:

- Two savers of `config.toml` share one temporary name. One may rename what the
  other is still writing, or write over it: the file is then empty for a moment
  or spliced, and the daemon refuses to start from a spliced one
  (`internal/config/config.go:436`, against the comment at `:358`).
- `gpb passwd` reads the file before it asks for the password, and so reverts
  settings saved while it waits.
- `tick` and `announce` publish from two goroutines, each remembering what it
  sent after sending it; the orders may differ, and a state is then withheld
  until the next change (`internal/homeassistant/bridge.go:250`).
- An announcement's "online" sent after the farewell and before the orderly
  disconnect stays on the broker, whose will went with the disconnect. A
  description, an "online" or a subscription that fails is not sent again.
- While `config.toml` cannot be read, the bridge uses the settings the daemon was
  started with. If the file had been changed since, it then serves a broker that
  is not the file's, and once the file can be read again nothing asks it to look
  (`internal/daemon/homeassistant.go:23`). `StaleSettingsAreAskedFor` excepts it.
- The note that the broker was lost runs in a goroutine of its own beside the
  client's reconnecting. If it comes after the reconnection was noted, the page
  says "lost" until the next connection (`internal/homeassistant/client.go:47`,
  against the comment of `announce`, `bridge.go:217`). `StandingCatchesUp`
  excepts it.
- A state whose acknowledgement comes too late is not remembered, although the
  broker has it. If what there is to show then goes back to what was remembered,
  it is not sent (`internal/homeassistant/bridge.go:250`). `DashboardCatchesUp`
  excepts it.
- A region shows more than its topics cover. The overview's answers to `run
  progress session` (`internal/web/templates/overview.html:9`) and is rendered
  from the number of photos waiting for review as well (`:86`). A run that starts
  and fails between two samples publishes no `run` topic, so the run history does
  not show its row. A value rendered between two samples, that then goes back, is
  shown until the next topic (`internal/web/live.go:225`, `:247`).
- Two fetches of one region may be in flight; the second answer finds an element
  that has been replaced and is dropped. Whether hands are in a region is asked
  when it is pulled, not when the answer replaces it.
- The upgrade answers the page before the socket is registered
  (`internal/web/live.go`), so a topic published in between is not queued for
  it; the page's settling time, which outlasts that, is what `Settled` assumes.
  `closeAll` misses a socket registered after it.
- live.js says "A restart also empties the session store"; sessions are in the
  database and survive one.

## 6. Not modelled

Parts, and why:

- Album view (`internal/links`): derived from the rows, rebuilt whole, read by
  nobody in the program. Choosing a free name is a string algorithm over any
  number of names. Seen on the way: a disambiguated name is not checked again
  (`links.go:112`, `:198`), and the mutex against two rebuilds is one process's.
- Thumbnails (`internal/thumbs`): a cache of what can be fetched again. A sweep
  asked for during another is dropped (`thumbs.go:169`) until the next write.
- The scheduled sweep and the database copy: when they run is the age of a file.
  What a sweep does to rows and files is Pool's `verify`.
- Places, locating and the parsing of picture files (`internal/geo`,
  `internal/places`): pure functions of a file or a table; wrong results are
  wrong captions.
- TLS certificates, commands that print, and `spike/`.

Within the modelled parts: favourites, dates, thumbnails and places of items;
wording of reports and messages; the fields of Google's answers; the rate
limiter's pace (its waits are ordinary steps); `reauth.Stop` in the daemon's
shutdown; the order in which `Pending` lists (any batch of the right size may
come); an answer of Google that ends early, or an empty page in the middle of a
walk; what a live region renders that the watcher does not sample, and that the
six fields of a sample are read one after another; the hook that reports a change of health; when a session is renewed and
old ones are deleted; the hash function; settings other than the password and
the broker; what each Home Assistant command does beyond changing what is shown.

In the store alone, `Forget` is guarded by `IsTwin`; the pass pairs first and
forgets later, and a twin listed again in between loses a live row. Pool has
that order of events, and shows that no file is lost by it.

## 7. Plan

Done, from what the others rest on to what starts and shows them: ItemStore,
SyncRun with Protocol, Pool, LibraryWalk, Runner, LoginBrowser, ConfigFile and
WebLogin with LoginLimit, Bridge, Live.

Proved: every safety property the runs check, and both refinements.

Next, proofs:

1. Safety behind the liveness of `live`: a socket's pending topics have a wake
   or a writer on the way, the invariant `RegionsCatchUp` rests on; the same for
   the feeder and the walker under `RunEnds`.
2. That Pool's statements are the store's, but for `Forget` of a twin that was
   listed again (section 6), so that `RowsAgree` holds of it as well.
3. What a run leaves to the next one.
4. The types of SyncRun, WebLogin and Bridge as theorems of their own (they are
   parts of the invariants now).
