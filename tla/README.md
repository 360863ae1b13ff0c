# Formal models of VocalHub

VocalHub is a Vocaloid song browser: a Next.js application over PostgreSQL, fed
by one-shot worker processes that copy songs and artists from VocaDB, and by
maintenance jobs that materialize each user's recommendations. This directory
holds TLA+ models of its stateful parts, the TLC configurations that check them
on small instances, and TLAPS proofs of what matters most for all instances.

Paths below are relative to the repository root.

## 1. Inventory

| Component | State it keeps | Operations | What is hard, and what makes it correct |
|---|---|---|---|
| Durable sync runner (`src/lib/vocadb/durable-sync-runner.ts`) | `SyncRun`, `SyncItem` rows | choose or create a run, persist the manifest, process pending items on concurrent lanes, finalize, record an interruption | crashes and signals between any two transactions; two workers; a lane failing while others work. One RUNNING run; a terminal run is settled and frozen; an interrupted run can be finished |
| Song sync (`src/lib/vocadb/sync-runner.ts`) | `VocaDbSongSyncState`, the run's window and baseline | create a run, discover by inventory, activity or suspects, process one song, advance the checkpoint, bump the catalog version | windows against a feed that lags; a stale checkpoint; an answer of VocaDB that is wrong. No change falls between windows, the checkpoint is monotone, deletions need two witnesses |
| Song persistence (`src/lib/vocadb/sync-song.ts`) | `Song` and its children | upsert, mark failure, mark source deleted | each transaction compares the discovery projection before and after and flags its run. No committed change is left unannounced |
| Worker process (`worker/sync-vocadb.ts`) | advisory lock, abort signal | start, SIGTERM, exit | the lock makes "find RUNNING, then create" atomic |
| Artist sync (`artist-sync-runner.ts`, `sync-artist.ts`) | artist runs and rows | refresh the artists that a summary, an error or their age makes due | what is due is told by comparing the timestamps of two kinds of workers. Items say what the rows say; every artist comes to agree with VocaDB |
| VocaDB client (`client.ts`, `errors.ts`) | process-wide cooldown, attempt counter | request with timeout, retry, cancellation | lanes share a cooldown that any of them extends; a signal may come in any wait. Every call comes back once, after a bounded number of attempts |
| Discovery (`src/lib/discover/materializer.ts`) | `DiscoveryProfile`, `DiscoverySnapshot`, `DiscoveryCatalogState` | invalidate a profile or the catalog, claim a build lease, build, publish, fail, read with freshness | a build reads a snapshot that favourites and syncs overtake; leases expire under slow builders. Nothing stale is served as FRESH; every stale profile is eventually rebuilt |
| Discovery reads (`src/lib/discover/repository.ts`, `seeds.ts`, `shape-query.ts`, `discovery-v2.ts`) | none of their own | choose seeds, rank, page, fall back to popular songs, read a list | totals and pages come from different statements, lists from another time. Query shapes agree; pages show every ranked song once; a FRESH list answers what the live query would |
| Favourites (`src/lib/favorites/repository.ts`) | `Favorite` | add, remove | seeds of Discovery, invalidated in the same transaction |
| Playlists (`src/lib/playlists/repository.ts`) | `Playlist`, `PlaylistSong`, `PlaylistCollaborator`, `PlaylistReport` | edit, reorder, share, collaborate, report, moderate | concurrent transactions at READ COMMITTED with row locks. Distinct positions, limits, settled reports stay settled, every member is told of an edit |
| Accounts (`src/lib/account/repository.ts`) | `User`, `Account`, `Session` | disconnect a provider, delete the account | two disconnects must not take the last provider; cascades against Discovery |
| Operations status (`src/lib/operations`) | none | classify runs and snapshots | a dead worker must show, a living one must not |
| Catalog, search and page queries | none | read | read-only, not modelled |
| Normalization, contract and CLI parsing | none | parse | pure, sequential, reached by unit tests, not modelled |

Interactions. The workers share the advisory lock, the run tables and the song
state row. A song transaction sets `catalogChanged` on its run; finalizing or
interrupting the run consumes the flag and bumps the catalog version, which is
what makes Discovery snapshots stale. After a SUCCEEDED or PARTIAL run whose
flag was consumed, the worker starts a Discovery materialization in its own
process. Favourites and playlists invalidate Discovery profiles in their own
transactions. A song's transaction also writes a summary of each credited artist
into that artist's row, from which the next artist run sees what has changed. The
heartbeat of either worker is what the operations status judges it by.

## 2. Modules

| Module | What it is |
|---|---|
| `SongSync` | workers, lanes, runs, songs, checkpoint, advisory lock, and VocaDB with its lagging feed as the environment |
| `MCSongSync` | the command lines its workers are given in the runs, and its symmetry |
| `SongSyncProofs` | type correctness of `SongSync`, and what the advisory lock buys |
| `SongSyncRunProofs` | what its runs guarantee: checkpoint, deletions, settled items, windows without gaps |
| `ActivityWindowProofs` | theorems about `VocaDbClient` and `ActivityWindow` |
| `DiscoveryView` | abstract: what a viewer's list may be replaced by |
| `Discovery` | profiles, snapshots, the catalog version, builders with leases, cleanup; refines `DiscoveryView` |
| `MCDiscovery` | symmetry for the runs of `Discovery` |
| `DiscoveryProofs` | type correctness, the truth of FRESH, bounded orphans, refinement |
| `DiscoveryRanking` | the contents of lists: seeds, scores, pages, the fallback, the candidate queries, and one list that songs and library outdate |
| `MCDiscoveryRanking` | the rows that songs have in the runs of `DiscoveryRanking` |
| `Ranks` | lemmas: a strict order on a finite set lists it once, in ascending order |
| `DiscoveryRankingProofs` | the query shapes agree, pages partition, V2 is a part; what FRESH says of a list's contents |
| `VocaDbClient` | the calls of one process: attempts, time limits, back-off, shared cooldown, cancellation |
| `ActivityWindow` | the collection of an activity window by bisection, through `VocaDbClient`, and then the lanes |
| `OperationsStatus` | the classification of `/api/ops/status`, as operators on ages |
| `ArtistSync` | artist runs beside song runs, heartbeats, and `OperationsStatus` as their observer |
| `ArtistSyncProofs` | types, heartbeats, and what items and rows tell of each other |
| `LibraryView` | abstract: playlists as sequences, and who is told of an edit |
| `Library` | playlists, favourites, reports and accounts as concurrent transactions; refines `LibraryView` |
| `MCLibrary` | the playlists and reports that `Library` starts from, and its symmetry |
| `LibraryProofs` | what the row locks keep true, and the refinement of `LibraryView` |

### SongSync: state

| Variable | In the code |
|---|---|
| `runs` | the `SyncRun` rows with their `SyncItem`s; `present` is the set of items created with `presentInInventory`; `start`, `end`, `baseline`, `expected` are `windowStart`, `windowEnd`, the seed's baseline and `songStateVersion` |
| `state` | the `VocaDbSongSyncState` row |
| `song` | the `Song` rows: sync status, deletion flag, and the revision of the data |
| `announced` | the projection at the last bump of `catalogVersion` (a history variable: the counter is replaced by what the bump told Discovery) |
| `lock` | the session that holds `pg_try_advisory_lock` |
| `worker`, `lane` | what a process has in memory: where it is in `runDurableSync`, its request, its queue, the abort signal, and what each lane of `processPendingItems` has fetched |
| `now`, `upstream`, `activity` | the clock, VocaDB's songs and its activity feed; the clock starts at 1, so that revision 0 is what VocaDB begins with |
| `bursts` | the ticks in which VocaDB's feed has, within one slice, more entries (of songs outside `Songs`) than one answer holds |
| `flaw` | which of VocaDB's two endpoints may answer wrongly |
| `faults` | the faults that have happened, bounded by `MaxFaults` |

### SongSync: actions

Each action is one database transaction, one answer of VocaDB, or one step of
control between two awaits.

* Start and choice of the run: `Start`, `ResumeRun`, `DecideToCreate`,
  `RejectRequest`, `CreateRun`, `RefuseToCreate`. The decision to create and the
  insert are separate steps (`creating`), as they are in the code; only the lock
  keeps another worker out between them.
* Discovery: `Discover` (SEED by inventory, INCREMENTAL by the feed, RECONCILE
  by inventory against local rows), `PersistManifest`, `SkipDiscovery`.
  `WindowSaturates` is `ActivityIntervalSaturatedError`: the window is fixed in the
  run's row, so every worker that resumes the run meets the same burst and ends
  as interrupted again. Once the feed has settled it is the only outcome.
* Items: `TakeItem`, `FetchSong`, `FetchNotFound`, `SyncSong`, `FinishItem`, and
  the catch block of `processSongItem` in two transactions: `MarkDeleted` or
  `MarkFailure`, then `SettleMarkedItem`. `LaneCancelled`, `ItemError`,
  `BeginFails`, `MarkFails` are its ways to fail.
* End: `SettleLanes` (all lanes have settled, then the first error wins),
  `CountItems` (outside the transaction), `FinalizeRun`, `CheckpointConflict`,
  `ObserveSignal`, `RecordInterruption`. `FinalizeAnswerLost` is the finalizing
  transaction that commits while its answer is lost: the catch block then
  records an interruption of a run that is already terminal.
* Faults: `StepFails` (any call of the worker itself), `Crash`, `Signal`,
  `DropLock` (the lock's session ends while its worker goes on).
* VocaDB: `SourceChange`, `Burst`, and the clock's `Tick`.

### Abstractions, and what they leave out

* `ver` stands for everything Discovery reads of a song: every upstream change
  is taken to change the projection. The changes that do not are fewer
  obligations, not more.
* `FinalizeRun` releases the lock in its own step; the code unlocks a moment
  later, which only delays the next worker. The artist worker, which shares the
  lock, also only delays.
* A worker that finds the lock held changes nothing and has no step.
* The manifest of an incremental run is what the activity feed answers for its
  window. That the bisection of a full window (`collectActivityIds`) leaves nothing
  out is `Covered` of `ActivityWindow`, and that it gives up only where the
  feed is too dense to be split is `SaturatedMeansDense` there. Here such a
  place is a member of `bursts`, and giving up is `WindowSaturates`.
* The lost answer to other commits of the worker looks like a crash or a failure
  at the next step, which are modelled; that of `finishItem`, where an item that
  is already SYNCED ends FAILED, is not.
* The heartbeat has no influence on the run; it is in `ArtistSync`.
* PENDING as a song's status is a default that the sync never leaves behind.

### Discovery: state

| Variable | In the code |
|---|---|
| `library` | what `getDiscoverySeedIds` reads of a viewer: a revision of favourites and of the songs in own and shared playlists; 0 is a library without songs |
| `catalog` | `version` is the `DiscoveryCatalogState` row; `data` is the revision of the synchronised songs, `announced` the revision the last increment followed (a history variable) |
| `profile` | the `DiscoveryProfile` rows; `required` is `requiredCatalogVersion`, `current` is `currentSnapshotId`; `lease` and `expired` stand for `refreshStartedAt` |
| `older` | the order of the profiles' `updatedAt` |
| `snapshot` | the `DiscoverySnapshot` rows with their items; `seeds` and `data` are the revisions the items were computed from, and `FREE` rows do not exist yet |
| `builder` | what a materialiser process has in memory: its queue, the time its batch has taken, the build it is in |
| `faults` | the faults that have happened, bounded by `MaxFaults` |

### Discovery: actions

Each action is one transaction, or one decision of a batch between two.

* A batch: `Select` (the candidates query with its order and limit), `EndBatch`
  (queue empty or budget exhausted), and one profile after the other in between
  (`Continues`). A batch is started by a timer, an operator or the worker after
  a song sync; all three call `materializeDiscoverySnapshots` with the same
  batch timing.
* A profile: `Claim` (lease, abandoned builds failed, row created), or
  `ClaimRefused`; then `Build`, the RepeatableRead transaction; then `Publish`,
  or `PublishStale` when the compare-and-set on the profile row fails, or
  `PublishRefused` when another claim has failed the row.
* Failures: `ClaimFails`; `BuildFails`, which a poisoned viewer's builds always
  do, then `Fail` or `FailFails`; `PublishFails`, after which nobody releases
  the lease, because the promise of the publication is returned and not awaited
  inside the `try`; `Crash`; `Expire`, a fault only while the lease is held.
* Everybody else: `Edit` (a favourite's or playlist's transaction with its
  invalidation of one or several members), `OwnerDeleted`, `CommitSong`,
  `Announce`, `Cleanup`.

### Discovery: abstractions

* The score of a song is a function of seeds and catalog; a list is the pair of
  revisions it was computed from. What is in it, and that hidden songs are left
  out when it is read, is `DiscoveryRanking`.
* `lease` names the snapshot of the build that set `refreshStartedAt`, where the
  code compares timestamps. Two claims of one profile have different timestamps:
  the second needs the first one's to be released or `buildLeaseMs` old.
* A row is created a moment after its lease is taken. `TooYoung` is the row that
  `failExpiredDiscoverySnapshots` misses for that reason.
* A read at Read Committed may see an old catalog version: `Edit` writes any
  version up to the present one (`seen`). `Edit` invalidates its users in one step;
  the code does it row by row in one transaction, whose locks are not modelled.
* Time within a batch is counted in units; `Slack` is what is left of the budget
  when one attempt's reservation is set aside, and each step of a batch takes at
  least a unit.
* Rows are deleted a week after they finish, so none is deleted that a process
  still works on. The deletion of a viewer removes all the viewer's rows and is
  not modelled; an owner's deletion is seen by the collaborators.

### DiscoveryRanking

| Variable | In the code |
|---|---|
| `song` | what the queries read of the `Song` rows, their tags and credits: visibility, the two popularity figures, tags and distinct artists |
| `library` | the songs in the viewer's favourites and playlists |
| `catalogVersion`, `profile` | the `DiscoveryCatalogState` row; `libraryVersion` and `requiredCatalogVersion` of the profile |
| `catalogChanged` | the flag of the run that writes songs |
| `list`, `build` | the snapshot that `currentSnapshotId` points at with its items; the rebuild under way |
| `changes` | bound |

The queries are operators. `Personalized` is `getPersonalizedIds` with its second
count on a page without rows, `PersonalizedCombined` and `PersonalizedSplitCount`
are `shape-query.ts`, `PersonalizedV2` is `discovery-v2.ts`, `Live` is
`runDiscoveryTransaction` with the popular fallback, `SnapshotRead` is
`getDiscovery` on a list. `Candidates` (the songs of the ranking's common table
expressions) and `Counted` (the songs of the count query) are written as
the two statements are, one over shared features, the other over seeds.

The actions are `WriteSong` (a song's transaction: the projections before and
after are compared and the run flagged), `AnnounceChanges` (the run ends and bumps
the catalog version), `EditLibrary` (with its invalidation, which may have read an
older catalog version), and the rebuild as `StartBuild`, `RankItems`, `Publish`
(a compare-and-set on both versions) or `FailBuild`.

There is one viewer and one builder: leases, several builders and crashes are
`Discovery`'s. Identifiers are numbers because the queries break ties by them.
Visibility is one Boolean of a row, which the status of the song decides.
The role of a credit is left out, for the queries count distinct artists.

`BoundedIsPart` says what V2 keeps of the ranking. It does not say that V2 finds
something whenever the ranking does: its features are cut off by their support
among the seeds, before it is known whether other songs have them, and then the
popular songs are shown instead. No text of the repository claims otherwise.

### Library: state

| Variable | In the code |
|---|---|
| `list` | the `Playlist` rows with their `PlaylistSong` positions (`at`), collaborators, visibility and moderation status |
| `users`, `provider` | the `User` rows and the providers of their `Account` rows |
| `favorite`, `version` | the `Favorite` rows; `libraryVersion` of the `DiscoveryProfile` rows |
| `visible` | the songs that pass the public filter |
| `report` | the `PlaylistReport` rows; a deleted playlist or reporter leaves NULL |
| `tx` | the transactions under way: request, what they have read and will write (`put`, `rows`), whom they have invalidated (`done`) and still will (`todo`) |
| `ops`, `syncs` | bounds |

### Library: actions

A transaction is `Begin` (the request and the snapshot of the first statement),
its own action, `Mark` for each profile, and a commit. The own action waits for
the row locks the code takes and reads what the code reads under them; from then
on the transaction holds those locks (`ListTaken`, `UserTaken`, `SongTaken`,
`FavoriteTaken`, `Leaving`, `ReportTaken`, `ProfileTaken`). `End` is every way to
end without effect: a refusal, Prisma's time limit, the victim of a deadlock, a
lost connection. `DeleteUserAccount`, `SyncSong` and `CleanReport` are one
statement each.

* `lockPlaylist` checks membership in the statement that then waits, so `Begin`
  reads it and the action does not read it again: a collaborator removed in
  between still makes the edit.
* Two transactions that invalidate the same people in opposite orders block each
  other; PostgreSQL aborts one, which is `End`. Nothing of it remains
  (`ImplementsView`).
* An account is deleted in one step, when no transaction holds a row it deletes
  or detaches. Waits for the weaker `KEY SHARE` locks of foreign keys are left
  out beyond the ones named; they only delay.
* The populations that a behaviour may start from (`PopulationAssumption`) keep what
  the schema and the code keep of a row (`Whole`): unique positions, an owner who is
  not a collaborator too, nothing left of a playlist that does not exist.
* The up to three attempts of `createPlaylistReport` are `End` and a new `Begin`.
* `updatePlaylist` writes name and description and is left out. Share tokens are
  the flag `public`.

### VocaDbClient and ActivityWindow

`call` is where each lane's `requestWithRetry` waits, with its attempt and the
time left; `cooldown` is `processCooldownUntil` minus the present; `cancelled` is
the abort signal. `Ask` is the call, `WaitForCooldown`, `Send` and `Wake` its
waits, `Succeed`, `AnswerBadly`, `LimitRate` and `TimeOut` the ways an attempt
ends, `ObserveCancellation` the signal in any of them, `Return` the caller's next
step. Time passes (`Tick`) when nothing is due. An answer takes at least one unit:
without it 429s could be answered for ever at one instant.

`ActivityWindow` adds the recursion of `collectActivityIds` as a sequence of
windows still to be asked for (`pending`): `CollectWindow` takes an answer that
is not full, `SplitWindow` replaces a full one's window by its halves, `Saturate`
is the error, `FailCollection` every other end. The feed does not change during
the collection: the window ends `settlementLag` before now. Whether the ends of
a window belong to it is VocaDB's affair; `Inside` takes the worse case, that
neither does. After the collection the lanes fetch songs, without bound, so that
one lane's cooldowns can meet another's call for ever.

### ArtistSync and OperationsStatus

| Variable | In the code |
|---|---|
| `row` | the `Artist` rows: `detail` is what the last detail sync stored, `summary` what the last song sync stored, `sumAfter` that `summaryObservedAt` is later than `detailLastSyncedAt`; `synced` and `attempted` are the ages of `detailLastSyncedAt` and `detailLastAttemptAt` against the refresh interval |
| `carried` | the summaries that lanes of a song worker have fetched and not written |
| `run`, `terminal` | the last artist run with its items; the status of the one that ended last |
| `worker`, `item` | the artist worker's memory, as in `SongSync` |
| `lock` | the advisory lock, for either kind of worker |
| `beat`, `orphaned` | the age of `lastHeartbeatAt` while the run is RUNNING; how long it has had no worker (a history variable) |

The run's actions are those of `SongSync`, for the artist's own discovery
(`Due`) and items (the artist's update and the item's are separate transactions, and so are the two of the
catch block). `Due` is the filter of `discoverArtistRun` without two of its
conditions: an artist of no public song is not refreshed there, and here every
artist has one; and `summarySourceStatus` is compared there and is no part of
a summary here, which has a version and a deletion. `FetchSummary` and `WriteSummary` are a song lane's fetch and its
`syncCredits`; the lane that writes last wins, whatever it fetched. `FirstBeat`
and `TimerBeat` write heartbeats, `Tick` is the heartbeat interval, and `Age` the
refresh interval. `refreshCutoffAt` is fixed when the run is created: it is
kept as the sets of artists whose dates were before it.

`OperationsStatus` is `classifyOperationsStatus` on ages. `ArtistSync` gives it the
artist's side and holds the song side in order, so of the branches UNSEEDED and
STALE only their translation is there.

## 3. Runs

| Run | Configuration | Question | Bounds |
|---|---|---|---|
| `song_windows` | `SongSync_windows.cfg` | `NoChangeSkipped`, `AtMostOneRunning`, `NoLostInvalidation`, `TerminalRunsFrozen` | 1 song, 2 workers, AUTO requests, 3 runs, clock from 1 to 5, lag 2, overlap 1, 1 change, 1 fault |
| `song_lanes` | `SongSync_lanes.cfg` | `TypeOK`, `SettledRuns`, `NoLostInvalidation`; `RunsTerminate` under `FairSpec` | 2 songs, 1 worker, 2 lanes, all three timers, RESUME and IDS requests, 2 runs, clock from 1 to 2, lag 1, overlap 2, 1 burst, 1 fault, wrong 404s without bound |
| `song_lock_lost` | `SongSync_drop.cfg` | `CheckpointMonotone`, `DeletionConfirmed` | 1 song, 2 workers that can overlap, AUTO requests, 3 runs, clock from 1 to 2, 1 lost lock or fault, wrong inventories or wrong 404s without bound |
| `discovery` | `Discovery.cfg` | `TypeOK`, `FreshIsCurrent`, `OrphansBounded`, `ImplementsView` | 1 viewer, 2 builders, 4 rows, batches of 1, 1 unit of slack, 1 edit, 1 catalog change, 2 faults |
| `discovery_live` | `Discovery_live.cfg` | `StaleRebuilt` under `FairSpec` | 2 viewers, one of them poisoned, 1 builder, 3 rows, batches of 1, 1 edit, 1 fault, owners leave |
| `library` | `Library.cfg` | `TypeOK`, `EditsSerialize`, `LimitsKept`, `ProviderKept`, `OnlyPublicAdded`, `SettledReportsFrozen`, `ImplementsView` | 2 transactions at a time, 2 requests, 3 users, 2 playlists, 4 songs, 1 report, 2 providers, limits of 3 songs, 1 member and 1 playlist, 1 song hidden or restored |
| `activity_window` | `ActivityWindow.cfg` | `TypeOK`, `Covered`, `SaturatedMeansDense`; `CollectionEnds` and `EveryCallSettles` under `FairSpec` | a window of 5 ticks, all feeds with up to 2 entries a tick, answers of 2 entries, 2 attempts, 3 lanes, calls without bound |
| `artist_sync` | `ArtistSync.cfg` | `TypeOK`, `OrphanShown`, `LiveNotSuspected`, `ItemsTellTheTruth`, `SummariesHonoured`; `CatchesUp` under `FairSpec` | 1 artist, 2 song lanes, 2 changes, 1 fault, heartbeats expire after 2 intervals, runs without bound |
| `ranking` | `DiscoveryRanking.cfg` | `ShapesAgree`, `PagesPartition`, `BoundedIsPart` | all catalogs of 4 songs with 5 kinds of rows, all libraries, 2 tags, 1 artist, pages of 2, at most 2 seeds, 1 feature and 1 song per feature |
| `ranking_lists` | `DiscoveryRanking_lists.cfg` | `TypeOK`, `FreshList`, `FreshParity` | 3 songs with 3 kinds of rows at first and 7 to be written, 2 changes, 1 edit, pages of 2, at most 2 seeds |
| `song_saturated` | `SongSync_saturated.cfg` | `SeedRebuilds` under `RebuildSpec`: violated | 1 song, 1 worker, SEED and INCREMENTAL timers and an explicit seed, 3 runs, clock from 1 to 3, 1 burst, no fault |
| `discovery_owner` | `Discovery_owner.cfg` | `FreshSeedsMatchLive` when owners leave: violated | 1 viewer, 1 builder, no fault |

Why the bounds are enough. `song_windows` needs a seed and two incremental windows,
with a change before, on and after the instant where they meet: three runs, and a
clock that lets a seed of tick 1 be followed by a window that ends at tick 2 and one
that ends at tick 3, two ticks (the lag) before the last. A change at tick 2 is
outside the first of these, which excludes its end, and is in the second only
because that one starts an overlap before tick 2 (mutant `WindowWithoutOverlap`).
A window that ends at `now` instead of a lag before it is found as well, by a change that
the feed did not show yet. Windows and songs are independent of each other, so one
song with one change suffices there. The second worker is needed
only between the two steps of the choice. `song_lanes` needs two lanes to have one
fail while the other is in its catch block, a fault to make it fail, and a second
run to be incremental: after a seed of tick 2 it has a burst of tick 1 in its window,
which an overlap of two ticks puts strictly inside. The
explicit requests are there to get in the timers' way. `song_lock_lost` needs two
runs created against the same version, and a third that advanced it before; and,
to delete a song wrongly, a run that stores it, one that takes it for missing,
and one that has it both in the inventory and answered by 404 (mutant `Trusts404`). A wrong inventory alone deletes nothing, since
the mark is made in the handler of a 404.

`discovery` needs a second builder that overtakes the first one after its lease
expired, an edit between a claim and its publication, and a catalog change
between the commit of a song and its announcement. Four rows are the list
shown, the row of the lease, the row of an overtaken builder and one abandoned
row, so that rows never run out before cleanup can act. Two faults let a builder
outlive its lease and then crash or fail. Viewers meet only in the batch queue,
hence the second viewer in `discovery_live`, which fills every batch of one if
the oldest profile does not go first (mutant `BeforeDescending`). The counters
of edits and changes are compared, never added up: one step apart is enough to be
stale, and the proofs of section 4 hold for every bound.

`CheckpointMonotone` and `DeletionConfirmed` hold even when the lock is lost: two
workers may then finish the same run, the second of them after it has become
terminal, and it is the version of the state row that refuses the second advance.
`AtMostOneRunning`, `TerminalRunsFrozen` and `NoChangeSkipped` do not: a second worker can create a
second RUNNING run, a worker that failed can record it on a run that another one has finished,
and a worker that goes on after its session ended unnoticed can overwrite a newer
row by an older answer, because the upsert of `syncVocaDbSong` compares no source
version. The code ends a worker whose lock connection reports an error, so these
properties are checked with `LockMayDrop = FALSE`.

`NoChangeSkipped` is about every change before the checkpoint. Both ends of a
window are excluded, and the overlap is what re-reads the instant where the
last one ended. The configuration accepts an overlap of zero
(`worker-config.ts:69-74`, `sync-runner.ts:100-103`; the default is 15 minutes), and
then a change in the very instant of a checkpoint is in neither window: for
`Overlap = 0`, and only then, the property leaves these instants (`Boundaries`)
out. It also excludes the inventory flaw, which only `song_lock_lost` has: a seed trusts
the inventory, and a song that it omitted is found only by its next change.

Fairness. `FairSpec` of `SongSync` has weak fairness on the steps of a started
worker and on each lane (a process runs until it ends), and strong fairness on the
start of AUTO workers: their timers run again and again, and do not for ever find
the lock held by a worker that an operator started. Requests that no timer sends
(RESUME, explicit modes) have no fairness; `RebuildSpec` adds an operator who starts
"worker seed" again and again, and does not always find the lock held. VocaDB's answers to a
worker are steps of that worker and have its fairness: a call that gets no answer
ends at its time limit with an error, which is a fault, and `EveryCallSettles`
is checked of `VocaDbClient`. Faults are finitely many. What VocaDB does by itself (changes,
bursts), the clock and the faults have no fairness.
For `Discovery`, weak fairness holds of the steps of a batch (its timer starts it
every half hour, its code runs on), of the expiry of a lease nobody holds any more,
and of the cleanup, which has a timer of its own. Edits, songs and their
announcement have none.

`library` needs two transactions that meet: three would meet in pairs, since a
lock is held by one. Each limit is reached and refuses: a playlist of three songs
is offered the fourth, a playlist with its one collaborator a second one, its owner
a second playlist; and another playlist, with room for one member and for one song,
meets two additions at a time. Without the playlist's lock both members are added
(mutant `ListNeverTaken`); two songs would find the same last position and collide there,
so of the songs it is the lock and the index on positions that keep the limit. Its playlists start as a sequence of edits may have left
them: shared both ways between two people (so that two edits invalidate the same
people in opposite orders), with gaps in the positions, with an open report, or
empty. `activity_window` runs from each of 81 feeds; five ticks are two levels of
bisection with either parity of the midpoint, and a slice of one tick the
smallest overlap. Two attempts are one retry. `artist_sync` has one artist:
artists meet only in the verdict of a run, whose PARTIAL case is therefore
`SongSync`'s. Two changes let a summary be overtaken by an older one, or a
deletion be taken back. Two intervals is the smallest threshold that a beating
worker can keep; the defaults are 30 s and 5 min.

`ranking` starts from every catalog, so its bounds are those of the case
distinctions: with four songs there are up to two seeds, one of the library that
the limit leaves out, two candidates that fill a page, and pages beyond the last.
The rows share a tag, an artist, both or nothing, are hidden, or exceed both caps;
limits of one make the cut-offs of V2 bind. `ranking_lists` needs two changes, so
that one may undo or hide the other, one on each side of an announcement or of the
ranking; its rows differ in few fields each, so that a field the projection
leaves out shows (mutant `ProjectionWithoutArtists`).

In `activity_window` and `artist_sync` the fairness is: the event loop runs what
is due and the clock goes on (`ClientFairness`), and VocaDB need not ever answer; in
`ArtistSync`, a worker goes on, song workers end, time passes, and the daily
timer does not for ever find the lock held (strong fairness of `Start("AUTO", {})`,
which the code alone does not give: it holds because song runs are started at
other hours). Faults are bounded in number in `artist_sync`; in `activity_window`
they are not.

Deadlock is checked wherever something can always go on. `library` stops when its
requests are used up, and `activity_window` when a signal has ended the
collection; their configurations say so. `DiscoveryRanking` can always rebuild.

### What disagrees

* `discovery_owner`: `deleteUserAccount` deletes the account's playlists by
  cascade and invalidates nobody. The collaborators' lists stay FRESH, with
  seeds that live ranking no longer has, until something else invalidates them;
  the rollout plan demands that fresh snapshots match live responses.
* `song_saturated`: the runbook (`docs/production-deployment-runbook.md:138`) demands a
  full seed rebuild after `ACTIVITY_INTERVAL_SATURATED`, not repeated incremental
  retries. The run with the saturated window stays RUNNING, so the timers resume it
  again and again, and `assertNoRunningRun` refuses the seed
  (`durable-sync-runner.ts:364`): its row has to be changed by hand first.
  `RunsTerminate` therefore excepts a run whose window has a burst inside.
* The configuration of materialization accepts a batch budget equal to the
  reservation of one attempt (`materializer-timing.ts:38`). The admission test compares it with
  a clock that the selection has already advanced, so that no batch ever attempts
  a profile. The default (24 minutes against 7) is far from the boundary. There is
  no run for it: `Discovery_live.cfg` with `Slack = 0` shows it.
* `worker/README.md:81-85` says that an artist "last synced before the cutoff"
  enters the refresh manifest. The code leaves a SOURCE_DELETED artist out until
  a song's summary shows it undeleted (`artist-sync-runner.ts:164`), and an
  integration test agrees with the code. `CatchesUp` therefore excepts
  `LeftDeleted`; there is no run for it.
* Between the insert of a run and its first heartbeat the status reads a null
  heartbeat and says DEGRADED for a moment. `LiveNotSuspected` speaks of the time
  after the first heartbeat.


## 4. Proofs

`SongSyncProofs` proves `TypeCorrect == Spec => []TypeOK` for all songs,
workers, lanes, requests and bounds. `TypeInv` strengthens `TypeOK` by two facts
the types need: a lane that is at work has a song (so that writing its item is
within the manifest), and a worker past the choice of its run has one
(`EarlyPc` names the points before that).

It proves further, from `LockMayDrop = FALSE`:

* `OneRunning`: `Spec => []AtMostOneRunning`
* `NothingForgotten`: `Spec => []NoLostInvalidation`
* `Frozen`: `Spec => TerminalRunsFrozen`

None is inductive. `SyncInv` adds `Holder` (a started worker holds the lock),
`Busy` (past the choice, its run is RUNNING, or it is about to record the
interruption of a run it has finished without knowing, and then none is RUNNING)
and `Alone` (about to create, it
still sees no RUNNING run). Without `Alone`, a run may appear between the
decision and the insert; without `Busy`, a finalization may hit a terminal run;
both rest on `Holder`. The actions are first reduced to a few effects (a worker
works on, writes a song, quits, closes its run and ends, or closes it without
knowing: the `Effect...` lemmas), and
the invariant is shown for the effects (`Safe...`), so an action added later
needs one lemma. The assumption is needed: `DropLock` lets a second worker in,
and then two runs can be RUNNING and a terminal one be written.

`SongSyncRunProofs` proves, for all songs, workers, lanes, requests, runs and bounds:

* `MonotoneCheckpoint`: `Spec => CheckpointMonotone`
* `DeletionsConfirmed`: `Spec => []DeletionConfirmed`
* `RunsSettled`: `Spec => []SettledRuns`, from `LockMayDrop = FALSE`
* `NothingSkipped`: `Spec => []NoChangeSkipped`, from `LockMayDrop = FALSE`

There is one layer for each, over the ones before. `CheckpointInv`: a run that
still finds the version it was created for has a target that is not behind the
checkpoint, so the compare-and-set of the finalization is all that two workers
without a lock need. `KnownInv`: a song that VocaDB has never deleted is in no
manifest of RECONCILE for being left out of the inventory, unless the inventory is
the endpoint that errs, and then the 404 is true; the layer follows this from the
manifest through the lane's answer to the row. `SettledInv`: a PENDING item of a run
that is being processed is in the queue or on a lane, so when the lanes have
settled without error nothing is pending; a verdict that has been counted is still
right when it is committed. `WindowInv` (in the states where the inventory does not
err) says of every stage of a run that what its checkpoint will promise is listed,
fetched, written, or promised already. Its arithmetic is that the window starts an
overlap before the checkpoint and ends where the feed has settled (`RunFresh`); a
change that is made now is later than anything promised. Lag and overlap are any
naturals: with no overlap, what is promised leaves out the changes in the instant of
a checkpoint (`Spared`), and since the present checkpoint is one of `Boundaries`
(`AtBoundary`, and a terminal run stays one), a change that is left is strictly
before or strictly after it, and so in a window. It rests on all the layers
below it.

`ArtistSyncProofs` proves, for all artists, lanes, concurrencies and bounds:

* `TypeCorrect`: `Spec => []TypeOK`
* `OrphansShown`: `Spec => []OrphanShown`
* `LivingTrusted`: `Spec => []LiveNotSuspected`, from `BeatStaleAfter > 1`
* `ItemsTruthful`: `Spec => []ItemsTellTheTruth`
* `RefreshHonours`: `Spec => []SummariesHonoured`

`RunInv` has the lock, the run and the heartbeats: `BeatsAge` (a run is without a
worker no longer than since its last heartbeat), `BeatKept` (a heartbeat is at most
one interval old, and then the next one is due before time goes on; the assumption
says that the threshold leaves room for it). `SyncInv` adds for each artist
`VersionOK` (a row whose detail is later than its summary has at least its
version), `InHand` (what a lane has fetched or stored), `ManifestOK` and `HonourOK`
(what discovery passed over and what has been synced honours the summaries). That a
lane's answer is no older than the summaries needs `Exclusive`: no song worker
writes summaries while the artist worker has the lock. `BeatStaleAfter > 1` excludes
a threshold of one interval, which the options of the status and of the worker
accept (`status-policy.ts:28`, `durable-sync-runner.ts:141`), and under which a
worker may be suspected between two heartbeats.

`LibraryProofs` proves, for all users, playlists, songs, providers, reports,
transactions and limits:

* `TypeCorrect`: `Spec => []TypeOK`
* `SerialEdits`: `Spec => []EditsSerialize`
* `LimitsHold`: `Spec => []LimitsKept`
* `ProviderLeft`: `Spec => []ProviderKept`
* `PublicOnly`: `Spec => OnlyPublicAdded`
* `SettledStays`: `Spec => SettledReportsFrozen`
* `Implements`: `Spec => ImplementsView`

The inductive invariant is `LibraryInv`: the types, `LimitsKept` and
`ProviderKept` themselves, `LocksKept` (two transactions that are writing do not hold one row, for
each kind of lock) and `ReadsKept` (what a transaction read before it began to write
is still so: there is room, its song is public, its account has another provider,
what it will write is what the edit makes of the present positions). A commit is
then what the edit does to the state of that moment. `leavePlaylist` takes no lock
on the playlist; `ReadsKept` claims of the collaborators only what a leaving one
does not disturb, that they have not become more.

The refinement adds `RowsWhole` (positions are unique, an owner does not collaborate
in a playlist of his own; assumed of the populations it starts from, and kept) and
`TellKept`: a transaction that is writing has told, or has yet to tell, everybody
whose recommendations its commit changes, among them everybody who has a part in the
playlist now and not only when it looked. The sequence of a playlist is its songs in
the order of their ranks (`RankedOnce` of `Ranks`); that the three ways of writing
positions are an append, a cut and a swap is `AddedIsLast`, `RemovedIsGone` and
`MovedAreSwapped`, by way of `SortedOnly`: only one sequence lists a set in
ascending order.

`DiscoveryProofs` proves, for all viewers, builders, rows and bounds:

* `TypeCorrect`: `Spec => []TypeOK`
* `FewOrphans`: `Spec => []OrphansBounded`
* `FreshTrue`: `Spec => []FreshIsCurrent`, from `OwnersLeave = FALSE`
* `Implements`: `Spec => ImplementsView`, from `OwnersLeave = FALSE`

The inductive invariant is `TypeOK` with `Rest`, which has five parts.
`RowsDated` is the heart: a row never carries versions its profile has not
reached, and a built row that carries the present ones was computed from what
they count. Its step for `Build` needs nothing but the counters; its step for
`Publish` is the compare-and-set. `PointersValid` says that a lease's row is
BUILDING and, once built, no older than the list it would replace, which is the
step `Show` of `DiscoveryView`; `HoldersApart` says that two processes never
work on one row, without which a builder could build the row another one is
publishing. `OneAbandoned` bounds the orphans: a claim fails every row but the
one that is a moment younger than its lease. `CountersOrdered` keeps a profile
from requiring a version that does not exist. `OwnersLeave = FALSE` is the
assumption that the first finding shows to be needed.

`ActivityWindowProofs` proves, from the assumptions on the constants alone
(`ClientAssumption`, `WindowAssumption`), for every window, slice, answer size,
feed, delay and number of lanes and attempts:

* `TypeCorrect`: `Spec => []TypeOK`, in which the bound on attempts is the part
  that could fail: `Fails` sleeps for another attempt only below the last
* `NothingMissed`: `Spec => []Covered`
* `GivesUpOnlyWhereDense`: `Spec => []SaturatedMeansDense`

`Inv` adds `Unfinished` (while it collects, there is a window to ask for). The
heart is `HalvesCover`: the halves of a window leave out none of its instants,
because the right one begins before the left one ends, even when VocaDB counts
neither end as inside. `CollectWindowSafe` and `SplitWindowSafe` follow an entry
through the sequence of windows; every other step leaves the windows alone
(`WindowsKept`). For the third, a feed's entries are counted as a set of numbered
entries, so that a longer window has no fewer (no sum over a window is needed); a
window that cannot be split is shorter than two slices, and lies within the run's
(`WindowsWithin`).

`DiscoveryRankingProofs` proves, from `RankingAssumption`, for all songs, rows,
libraries, limits, page sizes and bounds:

* `ShapesAlwaysAgree`: `Spec => []ShapesAgree`
* `FreshListsRank`: `Spec => []FreshList`
* `PagesAlwaysPartition`: `Spec => []PagesPartition`
* `BoundedAlwaysPart`: `Spec => []BoundedIsPart`
* `FreshAlwaysParity`: `Spec => []FreshParity`
* `TypeCorrect`: `Spec => []TypeOK`

The first follows from the definitions of the queries: `SameSongs` (the ranking
and the count query find the same songs) and `FirstPageEmpty` (a first page is
empty only if nothing is ranked, so that its total of zero is right). The second
needs `Inv`: `Counters` (no version is ahead of what it counts), `Catalog` (rows
are rows), and `FreshBuild`, which says of a build that is about to be published
what `FreshList` says of a list. Its heart is `RankingReadsProjection`: songs whose
projections are the same have the same ranking.

The other four are about what is in a list. A ranking is a set listed by a strict
order (`ScoreOrderIsStrict`: ties are broken by identifiers), so `Ranks` says that it
has every song once. Cutting a list down to a set (`Among`) keeps the order, since
the places that stay are themselves listed by their order (`AmongPlaces`);
two sorted lists of one set are equal, which is how V2's ranking is a part of the
full one. `Paging` cuts a list into pages by their offsets. `FreshParity` then
needs no more than `FreshList`: the pages of equal lists are equal.

Only model-checked: all liveness (`RunsTerminate`, `StaleRebuilt`, `CollectionEnds`,
`EveryCallSettles`, `CatchesUp`), which is out of this prover's reach. Every invariant
and every action property of a passing run, and both refinements, are proved.

## 5. Plan

1. An abstract ledger of runs that `SongSync` and `ArtistSync` both refine, with
   its refinement proved from the invariants of section 4.
2. `SongSync` composed with `Discovery`, over `announced`, and with
   `ActivityWindow` in place of its one-step feed answer.
3. A run for what an unnoticed loss of the lock does to a song's row.
4. The visible catalog over SOURCE_MISSING and FAILED songs, and the progress of the
   checkpoint when VocaDB deletes songs for good.

## 6. Not modelled

* `src/generated/prisma`: the generated database client, five sixths of the
  lines of the repository's implementation. It has no logic of its own.
* Read-only queries and pages (songs, artists, tags, search, playlists): no state,
  one statement or one snapshot each.
* Parsing and normalization (`normalize.ts`, `contract.ts`, `sync-cli.ts`,
  `worker-config.ts`, query parameters, forms): pure functions of one input,
  reached by unit tests.
* `updatePlaylist` (name and description), sessions and sign-in (next-auth and
  the session cleanup), UI code.
* The replacement of a song's and artist's child rows, but for the artists'
  summaries. Two lanes that upsert the same artist or tag rows in different
  orders can deadlock; in `SongSync` that is an error of the item.
