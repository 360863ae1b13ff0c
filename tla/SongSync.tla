------------------------------ MODULE SongSync ------------------------------
(***************************************************************************)
(* The VocaDB song sync worker: one-shot processes that take a PostgreSQL  *)
(* advisory lock, create or resume a durable run (SyncRun and its SyncItem *)
(* manifest), process the pending items on concurrent lanes, and finalize  *)
(* the run, moving the activity checkpoint of the song sync state.         *)
(*                                                                         *)
(* VocaDB itself is the environment: songs change there at any time, and   *)
(* its activity feed shows a change at most Lag ticks late.  A change is   *)
(* identified by the tick at which it happened, so changedAt is also the   *)
(* revision of a song, and the local row's ver is the revision it holds.   *)
(* Revision 0 is the state VocaDB begins with, and the clock starts at 1.  *)
(***************************************************************************)
EXTENDS Integers, FiniteSets

CONSTANTS
  Songs,            \* VocaDB song IDs: integers, processed in ascending order
  Workers,          \* worker processes that a scheduler or an operator starts
  NoWorker,         \* nobody holds the advisory lock
  Lanes,            \* the concurrency of processPendingItems
  Requests,         \* the command lines the workers are started with
  Lag,              \* settlement lag
  Overlap,          \* activity overlap
  LockMayDrop,      \* can the lock's session end unnoticed by its worker?
  Flaws,            \* which endpoint of VocaDB may answer wrongly, see flaw
  MaxRuns,          \* bound: runs created
  MaxTime,          \* bound: the clock
  MaxChanges,       \* bound: upstream changes
  MaxBursts,        \* bound: bursts of upstream activity
  MaxFaults         \* bound: crashes, signals, failed calls and lost locks

Modes == {"IDS", "SEED", "INCREMENTAL", "RECONCILE"}

\* A worker's command line: resume, auto <mode>, or <mode> (with ids for IDS).
Request == [kind : {"RESUME", "AUTO", "NEW"}, mode : Modes, ids : SUBSET Songs]

ASSUME SongsAssumption    == Songs \subseteq Int /\ IsFiniteSet(Songs)
ASSUME WorkersAssumption  == NoWorker \notin Workers
ASSUME RequestsAssumption == Requests \subseteq Request
ASSUME TimingAssumption   == Lag \in Nat /\ Overlap \in Nat
ASSUME BoundsAssumption   ==
  /\ MaxRuns \in Nat /\ MaxTime \in Nat
  /\ MaxChanges \in Nat /\ MaxBursts \in Nat /\ MaxFaults \in Nat
ASSUME SwitchesAssumption ==
  /\ LockMayDrop \in BOOLEAN
  /\ Flaws \subseteq {"none", "inventory", "detail"}

RunIds == 1 .. MaxRuns
NoRun  == 0

VARIABLES
  now,        \* the clock
  upstream,   \* [Songs -> status and last change at VocaDB]
  activity,   \* VocaDB's activity feed
  bursts,     \* ticks with an instant of more entries than one answer holds
  flaw,       \* "inventory" may omit a live song, "detail" may answer 404 for it
  song,       \* [Songs -> the local Song row]
  announced,  \* [Songs -> projection at the last catalog version bump]
  state,      \* the VocaDbSongSyncState row
  runs,       \* [RunIds -> SyncRun row and its SyncItems]
  lock,       \* holder of the advisory lock
  worker,     \* [Workers -> what a worker process has in memory]
  lane,       \* [Workers -> [Lanes -> the item a lane is processing]]
  faults      \* faults that have happened

env == <<now, upstream, activity, bursts, flaw>>
catalog == <<song, announced>>
db == <<song, announced, state, runs>>
memory == <<worker, lane>>
vars == <<now, upstream, activity, bursts, flaw, song, announced, state, runs, lock,
          worker, lane, faults>>

-----------------------------------------------------------------------------
(***************************************************************************)
(* States                                                                  *)
(***************************************************************************)
SourceStatus == {"live", "deleted", "gone"}   \* gone: detail answers 404

LocalStatus == {"NONE", "SYNCED", "FAILED", "SOURCE_MISSING", "SOURCE_DELETED"}
Absent == [status |-> "NONE", deleted |-> FALSE, ver |-> -1]

\* What discovery reads of a song: its visibility and its data.
Public(row) == ~row.deleted /\ row.status \in {"SYNCED", "FAILED"}
Projection(row) == [public |-> Public(row), ver |-> row.ver]

Settled == {"SYNCED", "SOURCE_DELETED", "FAILED"}
ItemStatus == {"NONE", "PENDING"} \cup Settled

Terminal == {"SUCCEEDED", "PARTIAL", "FAILED"}
Run == [status : {"FREE", "RUNNING"} \cup Terminal, mode : Modes,
        discovered : BOOLEAN, start : Int, end : Int, baseline : Int,
        expected : Int, catalogChanged : BOOLEAN, error : BOOLEAN,
        items : [Songs -> ItemStatus], present : SUBSET Songs]

FreeRun == [status |-> "FREE", mode |-> "IDS", discovered |-> FALSE,
            start |-> 0, end |-> 0, baseline |-> 0, expected |-> 0,
            catalogChanged |-> FALSE, error |-> FALSE,
            items |-> [s \in Songs |-> "NONE"], present |-> {}]

Pc == {"idle", "locked", "creating", "chosen", "discovered", "listing",
       "processing", "counting", "committing", "interrupt"}

Worker == [pc : Pc, mode : Modes, kind : {"RESUME", "AUTO", "NEW"},
           ids : SUBSET Songs, run : RunIds \cup {NoRun}, aborted : BOOLEAN,
           stopped : BOOLEAN, queue : SUBSET Songs, found : SUBSET Songs,
           present : SUBSET Songs, verdict : Terminal]

IdleWorker == [pc |-> "idle", mode |-> "IDS", kind |-> "RESUME", ids |-> {},
               run |-> NoRun, aborted |-> FALSE, stopped |-> FALSE,
               queue |-> {}, found |-> {}, present |-> {},
               verdict |-> "SUCCEEDED"]

\* Where a lane is in processSongItem.  "missing" and "failing" are its catch
\* block after a 404 and after any other error; "confirmed" and "marked" are
\* the moment between the song's transaction and the item's update there.
Stage == {"idle", "begun", "fetched", "synced", "missing", "failing",
          "confirmed", "marked"}
Lane == [stage : Stage, song : Songs \cup {NoRun}, deleted : BOOLEAN, ver : Int]
IdleLane == [stage |-> "idle", song |-> NoRun, deleted |-> FALSE, ver |-> 0]
IdleLanes == [l \in Lanes |-> IdleLane]

Entry == [song : Songs, at : Int, status : SourceStatus]

TypeOK ==
  /\ now \in Nat
  /\ upstream \in [Songs -> [status : SourceStatus, changedAt : Int]]
  /\ activity \subseteq Entry
  /\ bursts \subseteq Nat
  /\ flaw \in Flaws
  /\ song \in [Songs -> [status : LocalStatus, deleted : BOOLEAN, ver : Int]]
  /\ announced \in [Songs -> [public : BOOLEAN, ver : Int]]
  /\ state \in [version : Int, seeded : BOOLEAN, checkpoint : Int]
  /\ runs \in [RunIds -> Run]
  /\ lock \in Workers \cup {NoWorker}
  /\ worker \in [Workers -> Worker]
  /\ lane \in [Workers -> [Lanes -> Lane]]
  /\ faults \in Nat

Init ==
  /\ now = 1
  /\ upstream \in [Songs -> [status : {"live", "gone"}, changedAt : {0}]]
  /\ activity = {}
  /\ bursts = {}
  /\ flaw \in Flaws
  /\ song = [s \in Songs |-> Absent]
  /\ announced = [s \in Songs |-> Projection(Absent)]
  /\ state = [version |-> 0, seeded |-> FALSE, checkpoint |-> 0]
  /\ runs = [r \in RunIds |-> FreeRun]
  /\ lock = NoWorker
  /\ worker = [w \in Workers |-> IdleWorker]
  /\ lane = [w \in Workers |-> IdleLanes]
  /\ faults = 0

-----------------------------------------------------------------------------
(***************************************************************************)
(* The environment: the clock, VocaDB and its feed                         *)
(***************************************************************************)
Tick ==
  /\ now < MaxTime
  /\ now' = now + 1
  /\ UNCHANGED <<upstream, activity, bursts, flaw, db, lock, memory, faults>>

\* A song is created, edited, deleted, hard-deleted or restored at VocaDB.
SourceChange(s, status) ==
  /\ Cardinality(activity) < MaxChanges
  /\ upstream[s].changedAt # now
  /\ upstream[s].status # "live" => status = "live"
  /\ upstream' = [upstream EXCEPT ![s] = [status |-> status, changedAt |-> now]]
  /\ activity' = activity \cup {[song |-> s, at |-> now, status |-> status]}
  /\ UNCHANGED <<now, bursts, flaw, db, lock, memory, faults>>

\* Within one slice of this tick VocaDB records more entries, of songs other than
\* these, than one answer of the feed holds.
Burst ==
  /\ Cardinality(bursts) < MaxBursts
  /\ now \notin bursts
  /\ bursts' = bursts \cup {now}
  /\ UNCHANGED <<now, upstream, activity, flaw, db, lock, memory, faults>>

\* getSongIds: the complete inventory of songs that are not deleted.
Live == {s \in Songs : upstream[s].status = "live"}
Inventories == IF flaw = "inventory" THEN SUBSET Live ELSE {Live}

\* getSongActivityEntries for a window, both ends excluded: every entry that is
\* Lag old is in the feed, a younger one may be or not.
Between(since, before) == {e \in activity : since < e.at /\ e.at < before}
FeedAnswers(since, before) ==
  LET window == Between(since, before)
      sure == {e.song : e \in {f \in window : f.at + Lag <= now}}
  IN  {ids \in SUBSET {e.song : e \in window} : sure \subseteq ids}

\* The bursts that a run's window has inside, where no bisection gets around
\* them, and those of them that the feed is sure to show.
BurstsIn(run) == {b \in bursts : run.start < b /\ b < run.end}
Saturable(run) == run.mode = "INCREMENTAL" /\ BurstsIn(run) # {}
Saturated(run) ==
  run.mode = "INCREMENTAL" /\ \E b \in BurstsIn(run) : b + Lag <= now

\* A fault costs one unit of the budget.
Fault == faults < MaxFaults /\ faults' = faults + 1

-----------------------------------------------------------------------------
(***************************************************************************)
(* Starting a worker and choosing its run                                  *)
(***************************************************************************)
Running == {r \in RunIds : runs[r].status = "RUNNING"}
Free == {r \in RunIds : runs[r].status = "FREE"}

\* The process ends: its memory is gone and its session's lock is released.
Exit(w) ==
  /\ worker' = [worker EXCEPT ![w] = IdleWorker]
  /\ lane' = [lane EXCEPT ![w] = IdleLanes]
  /\ lock' = IF lock = w THEN NoWorker ELSE lock

Goto(w, pc) == worker' = [worker EXCEPT ![w].pc = pc]

\* (mutant) the answer of pg_try_advisory_lock is not looked at
LockIgnored == TRUE

\* pg_try_advisory_lock.
LockFree == lock = NoWorker

\* A worker that finds the lock held fails at once and changes nothing.
Start(w, req) ==
  /\ worker[w].pc = "idle"
  /\ LockFree
  /\ lock' = w
  /\ worker' = [worker EXCEPT ![w] =
       [IdleWorker EXCEPT !.pc = "locked", !.kind = req.kind,
                          !.mode = req.mode, !.ids = req.ids]]
  /\ UNCHANGED <<env, db, lane, faults>>

\* (mutant) a scheduled worker leaves interrupted runs to the operator
OnlyExplicitResume(w) == worker[w].kind = "RESUME"

MayResume(w) == worker[w].kind \in {"RESUME", "AUTO"}

\* RESUME and AUTO take the unique RUNNING run and clear its error.
ResumeRun(w, r) ==
  /\ worker[w].pc = "locked"
  /\ ~worker[w].aborted
  /\ MayResume(w)
  /\ Running = {r}
  /\ runs' = [runs EXCEPT ![r].error = FALSE]
  /\ worker' = [worker EXCEPT ![w].pc = "chosen", ![w].run = r]
  /\ UNCHANGED <<env, catalog, state, lock, lane, faults>>

\* AUTO, and an explicit mode, create a run when none is RUNNING.
DecideToCreate(w) ==
  /\ worker[w].pc = "locked"
  /\ ~worker[w].aborted
  /\ worker[w].kind \in {"AUTO", "NEW"}
  /\ Running = {}
  /\ Goto(w, "creating")
  /\ UNCHANGED <<env, db, lock, lane, faults>>

\* A worker that was signalled, or whose request does not fit the RUNNING
\* runs, gives up before it has touched a run.
RejectRequest(w) ==
  /\ worker[w].pc = "locked"
  /\ \/ worker[w].aborted
     \/ worker[w].kind = "RESUME" /\ Cardinality(Running) # 1
     \/ worker[w].kind = "AUTO" /\ Cardinality(Running) > 1
     \/ worker[w].kind = "NEW" /\ Running # {}
  /\ Exit(w)
  /\ UNCHANGED <<env, db, faults>>

MaxOf(i, j) == IF i >= j THEN i ELSE j
MinOf(i, j) == IF i <= j THEN i ELSE j

\* The bounds of an incremental run: from before the checkpoint to a moment
\* the feed has settled, never behind the checkpoint, never empty.
WindowEnd == MaxOf(now - Lag, state.checkpoint)

\* (mutant) the window starts where the last one ended, which it excludes
WindowWithoutOverlap == MinOf(state.checkpoint, WindowEnd - 1)

WindowStart == MinOf(state.checkpoint - Overlap, WindowEnd - 1)

\* The row createSongRun or createIdsRun inserts.
NewRun(mode, ids) ==
  LET incremental == mode = "INCREMENTAL" IN
  [status |-> "RUNNING", mode |-> mode, discovered |-> mode = "IDS",
   start |-> IF incremental THEN WindowStart ELSE 0,
   end |-> IF incremental THEN WindowEnd ELSE 0,
   baseline |-> IF mode = "SEED" THEN now ELSE 0,
   expected |-> IF mode = "IDS" THEN 0 ELSE state.version,
   catalogChanged |-> FALSE, error |-> FALSE,
   items |-> [s \in Songs |->
                IF mode = "IDS" /\ s \in ids THEN "PENDING" ELSE "NONE"],
   present |-> {}]

CreateRun(w, r) ==
  /\ worker[w].pc = "creating"
  /\ r \in Free /\ \A q \in Free : r <= q
  /\ worker[w].mode = "INCREMENTAL" => state.seeded
  /\ worker[w].mode = "IDS" => worker[w].ids # {}
  /\ runs' = [runs EXCEPT ![r] = NewRun(worker[w].mode, worker[w].ids)]
  /\ worker' = [worker EXCEPT ![w].pc = "chosen", ![w].run = r]
  /\ UNCHANGED <<env, catalog, state, lock, lane, faults>>

\* createRun throws: no completed seed, no IDs, or (bound) MaxRuns is reached.
RefuseToCreate(w) ==
  /\ worker[w].pc = "creating"
  /\ \/ worker[w].mode = "INCREMENTAL" /\ ~state.seeded
     \/ worker[w].mode = "IDS" /\ worker[w].ids = {}
     \/ Free = {}
  /\ Exit(w)
  /\ UNCHANGED <<env, db, faults>>

-----------------------------------------------------------------------------
(***************************************************************************)
(* Discovery and the manifest                                              *)
(***************************************************************************)
\* Local songs that RECONCILE re-checks against an inventory.
Suspects(inventory) ==
  {s \in Songs : \/ song[s].status = "SOURCE_MISSING"
                 \/ /\ song[s].status # "NONE"
                    /\ ~song[s].deleted
                    /\ s \notin inventory}

Discover(w) ==
  LET run == runs[worker[w].run] IN
  /\ worker[w].pc = "chosen"
  /\ ~worker[w].aborted
  /\ ~run.discovered
  /\ \/ /\ run.mode = "SEED"
        /\ \E inventory \in Inventories :
             worker' = [worker EXCEPT ![w].pc = "discovered",
                                      ![w].found = inventory]
     \/ /\ run.mode = "INCREMENTAL"
        /\ ~Saturated(run)
        /\ \E ids \in FeedAnswers(run.start, run.end) :
             worker' = [worker EXCEPT ![w].pc = "discovered", ![w].found = ids]
     \/ /\ run.mode = "RECONCILE"
        /\ \E inventory \in Inventories :
             worker' = [worker EXCEPT ![w].pc = "discovered",
                                      ![w].found = Suspects(inventory),
                                      ![w].present = inventory]
  /\ UNCHANGED <<env, db, lock, lane, faults>>

\* ActivityIntervalSaturatedError: the window is that of the run's row, so every
\* worker that resumes the run meets the same burst.
WindowSaturates(w) ==
  /\ worker[w].pc = "chosen"
  /\ ~worker[w].aborted
  /\ ~runs[worker[w].run].discovered
  /\ Saturable(runs[worker[w].run])
  /\ Goto(w, "interrupt")
  /\ UNCHANGED <<env, db, lock, lane, faults>>

\* persistManifest, one transaction; items that exist already are skipped.
PersistManifest(w) ==
  LET r == worker[w].run
      fresh == {s \in worker[w].found : runs[r].items[s] = "NONE"}
  IN
  /\ worker[w].pc = "discovered"
  /\ ~worker[w].aborted
  /\ runs' = [runs EXCEPT
       ![r].discovered = TRUE,
       ![r].items = [s \in Songs |-> IF s \in fresh THEN "PENDING" ELSE @[s]],
       ![r].present = @ \cup (fresh \cap worker[w].present)]
  /\ worker' = [worker EXCEPT ![w].pc = "listing", ![w].found = {},
                              ![w].present = {}]
  /\ UNCHANGED <<env, catalog, state, lock, lane, faults>>

\* A resumed run that has its manifest goes straight to its items.
SkipDiscovery(w) ==
  /\ worker[w].pc = "chosen"
  /\ ~worker[w].aborted
  /\ runs[worker[w].run].discovered
  /\ Goto(w, "listing")
  /\ UNCHANGED <<env, db, lock, lane, faults>>

ListPending(w) ==
  /\ worker[w].pc = "listing"
  /\ worker' = [worker EXCEPT
       ![w].pc = "processing",
       ![w].queue = {s \in Songs : runs[worker[w].run].items[s] = "PENDING"}]
  /\ UNCHANGED <<env, db, lock, lane, faults>>

-----------------------------------------------------------------------------
(***************************************************************************)
(* A lane processing an item                                               *)
(***************************************************************************)
SetLane(w, l, rec) == lane' = [lane EXCEPT ![w][l] = rec]
SetStage(w, l, stage) == lane' = [lane EXCEPT ![w][l].stage = stage]

\* The first error stops every lane from taking another item.
StopLanes(w, l) ==
  /\ SetLane(w, l, IdleLane)
  /\ worker' = [worker EXCEPT ![w].stopped = TRUE]

AtStage(w, l, stages) ==
  worker[w].pc = "processing" /\ lane[w][l].stage \in stages

NextInQueue(w, s) == s \in worker[w].queue /\ \A t \in worker[w].queue : s <= t

TakeItem(w, l, s) ==
  /\ AtStage(w, l, {"idle"})
  /\ ~worker[w].stopped
  /\ ~worker[w].aborted
  /\ NextInQueue(w, s)
  /\ worker' = [worker EXCEPT ![w].queue = @ \ {s}]
  /\ SetLane(w, l, [IdleLane EXCEPT !.stage = "begun", !.song = s])
  /\ UNCHANGED <<env, db, lock, faults>>

\* beginItem fails outside the try block: the lanes stop.
BeginFails(w, l, s) ==
  /\ AtStage(w, l, {"idle"})
  /\ ~worker[w].stopped
  /\ ~worker[w].aborted
  /\ NextInQueue(w, s)
  /\ Fault
  /\ worker' = [worker EXCEPT ![w].queue = @ \ {s}, ![w].stopped = TRUE]
  /\ UNCHANGED <<env, db, lock, lane>>

\* A lane sees the signal before its next item, or its request is cancelled.
LaneCancelled(w, l) ==
  /\ \/ AtStage(w, l, {"idle"}) /\ ~worker[w].stopped /\ worker[w].queue # {}
     \/ AtStage(w, l, {"begun"})
  /\ worker[w].aborted
  /\ StopLanes(w, l)
  /\ UNCHANGED <<env, db, lock, faults>>

FetchSong(w, l) ==
  LET source == upstream[lane[w][l].song] IN
  /\ AtStage(w, l, {"begun"})
  /\ ~worker[w].aborted
  /\ source.status # "gone"
  /\ SetLane(w, l, [lane[w][l] EXCEPT !.stage = "fetched",
                                      !.deleted = (source.status = "deleted"),
                                      !.ver = source.changedAt])
  /\ UNCHANGED <<env, db, lock, worker, faults>>

FetchNotFound(w, l) ==
  /\ AtStage(w, l, {"begun"})
  /\ ~worker[w].aborted
  /\ \/ upstream[lane[w][l].song].status = "gone"
     \/ flaw = "detail"
  /\ SetStage(w, l, "missing")
  /\ UNCHANGED <<env, db, lock, worker, faults>>

\* Any other error inside the try block, from the request to finishItem.  After
\* a signal every error counts as a cancellation.
ItemError(w, l) ==
  /\ AtStage(w, l, {"begun", "fetched", "synced"})
  /\ Fault
  /\ \/ ~worker[w].aborted /\ SetStage(w, l, "failing") /\ UNCHANGED worker
     \/ worker[w].aborted /\ StopLanes(w, l)
  /\ UNCHANGED <<env, db, lock>>

\* Writes a song row and, when its projection changes, flags the run.
WriteSong(w, s, row) ==
  /\ song' = [song EXCEPT ![s] = row]
  /\ runs' = IF Projection(row) # Projection(song[s])
               THEN [runs EXCEPT ![worker[w].run].catalogChanged = TRUE]
               ELSE runs

\* syncVocaDbSong, one transaction.
SyncSong(w, l) ==
  LET got == lane[w][l] IN
  /\ AtStage(w, l, {"fetched"})
  /\ WriteSong(w, got.song,
       [status |-> IF got.deleted THEN "SOURCE_DELETED" ELSE "SYNCED",
        deleted |-> got.deleted, ver |-> got.ver])
  /\ SetStage(w, l, "synced")
  /\ UNCHANGED <<env, announced, state, lock, worker, faults>>

SetItem(w, l, status) ==
  runs' = [runs EXCEPT ![worker[w].run].items[lane[w][l].song] = status]

FinishItem(w, l) ==
  /\ AtStage(w, l, {"synced"})
  /\ SetItem(w, l, IF lane[w][l].deleted THEN "SOURCE_DELETED" ELSE "SYNCED")
  /\ SetLane(w, l, IdleLane)
  /\ UNCHANGED <<env, catalog, state, lock, worker, faults>>

\* (mutant) a 404 alone confirms a deletion
Trusts404(w, l) ==
  lane[w][l].stage = "missing" /\ runs[worker[w].run].mode = "RECONCILE"

\* RECONCILE confirms a deletion: absent from the inventory, and a 404.
ConfirmsDeletion(w, l) ==
  /\ lane[w][l].stage = "missing"
  /\ runs[worker[w].run].mode = "RECONCILE"
  /\ lane[w][l].song \notin runs[worker[w].run].present

\* markSongSourceDeleted, one transaction; nothing to do without a local row.
MarkDeleted(w, l) ==
  LET s == lane[w][l].song IN
  /\ AtStage(w, l, {"missing"})
  /\ ConfirmsDeletion(w, l)
  /\ WriteSong(w, s, IF song[s].status = "NONE" THEN song[s]
                     ELSE [song[s] EXCEPT !.status = "SOURCE_DELETED",
                                          !.deleted = TRUE])
  /\ SetStage(w, l, "confirmed")
  /\ UNCHANGED <<env, announced, state, lock, worker, faults>>

\* markSongSyncFailure, one transaction; the row keeps its data.
MarkFailure(w, l) ==
  LET s == lane[w][l].song IN
  /\ AtStage(w, l, {"missing", "failing"})
  /\ ~ConfirmsDeletion(w, l)
  /\ WriteSong(w, s, IF song[s].status = "NONE" THEN song[s]
                     ELSE [song[s] EXCEPT !.status =
                             IF lane[w][l].stage = "missing"
                               THEN "SOURCE_MISSING" ELSE "FAILED"])
  /\ SetStage(w, l, "marked")
  /\ UNCHANGED <<env, announced, state, lock, worker, faults>>

\* (mutant) the item keeps the song's status, which no count looks at
SongStatusItem(w, l) ==
  IF lane[w][l].stage = "confirmed" THEN "SOURCE_DELETED" ELSE "SOURCE_MISSING"

MarkedItem(w, l) ==
  IF lane[w][l].stage = "confirmed" THEN "SOURCE_DELETED" ELSE "FAILED"

SettleMarkedItem(w, l) ==
  /\ AtStage(w, l, {"confirmed", "marked"})
  /\ SetItem(w, l, MarkedItem(w, l))
  /\ SetLane(w, l, IdleLane)
  /\ UNCHANGED <<env, catalog, state, lock, worker, faults>>

\* An error inside the catch block escapes processSongItem.
MarkFails(w, l) ==
  /\ AtStage(w, l, {"missing", "failing", "confirmed", "marked"})
  /\ Fault
  /\ StopLanes(w, l)
  /\ UNCHANGED <<env, db, lock>>

-----------------------------------------------------------------------------
(***************************************************************************)
(* Finishing, interrupting and losing a run                                *)
(***************************************************************************)
\* (mutant) the lanes' first error is not rethrown
ErrorSwallowed(w) == IF worker[w].aborted THEN "interrupt" ELSE "counting"

AfterLanes(w) ==
  IF worker[w].stopped \/ worker[w].aborted THEN "interrupt" ELSE "counting"

\* Promise.allSettled: every lane is done; then the first error, or a signal.
SettleLanes(w) ==
  /\ worker[w].pc = "processing"
  /\ \A l \in Lanes : lane[w][l].stage = "idle"
  /\ worker[w].stopped \/ worker[w].queue = {}
  /\ worker' = [worker EXCEPT ![w].pc = AfterLanes(w), ![w].queue = {}]
  /\ UNCHANGED <<env, db, lock, lane, faults>>

Failures(items) == {s \in Songs : items[s] = "FAILED"}
Successes(items) == {s \in Songs : items[s] \in {"SYNCED", "SOURCE_DELETED"}}
Verdict(items) ==
  IF Failures(items) = {} THEN "SUCCEEDED"
  ELSE IF Successes(items) = {} THEN "FAILED" ELSE "PARTIAL"

CountItems(w) ==
  /\ worker[w].pc = "counting"
  /\ ~worker[w].aborted
  /\ worker' = [worker EXCEPT
       ![w].pc = "committing",
       ![w].verdict = Verdict(runs[worker[w].run].items)]
  /\ UNCHANGED <<env, db, lock, lane, faults>>

\* advanceSongState applies to this run, and finds the version it expects.
Advances(w) ==
  worker[w].verdict = "SUCCEEDED" /\ runs[worker[w].run].mode # "IDS"

\* (mutant) the state row is updated without comparing its version
VersionIgnored(w) == TRUE

VersionMatches(w) == state.version = runs[worker[w].run].expected

AdvancedState(run) ==
  [version |-> state.version + 1,
   seeded |-> state.seeded \/ run.mode = "SEED",
   checkpoint |-> CASE run.mode = "SEED" -> run.baseline
                    [] run.mode = "INCREMENTAL" -> run.end
                    [] OTHER -> state.checkpoint]

\* (mutant) the flag is cleared and the catalog version left alone
ForgetCatalogChange(r) == UNCHANGED announced

\* consumeSongRunCatalogChange: a flagged run bumps the catalog version once.
ConsumeCatalogChange(r) ==
  announced' = IF runs[r].catalogChanged
                 THEN [s \in Songs |-> Projection(song[s])] ELSE announced

\* finalizeRun's transaction.
FinalizeCommit(w) ==
  LET r == worker[w].run IN
  /\ worker[w].pc = "committing"
  /\ ~worker[w].aborted
  /\ Advances(w) => VersionMatches(w)
  /\ state' = IF Advances(w) THEN AdvancedState(runs[r]) ELSE state
  /\ ConsumeCatalogChange(r)
  /\ runs' = [runs EXCEPT ![r].status = worker[w].verdict,
                          ![r].catalogChanged = FALSE, ![r].error = FALSE]

FinalizeRun(w) ==
  /\ FinalizeCommit(w)
  /\ Exit(w)
  /\ UNCHANGED <<env, song, faults>>

\* It is committed, but the answer is lost: the worker takes the run that it
\* has finished for an interrupted one.
FinalizeAnswerLost(w) ==
  /\ FinalizeCommit(w)
  /\ Fault
  /\ Goto(w, "interrupt")
  /\ UNCHANGED <<env, song, lock, lane>>

\* advanceSongState throws and the transaction is rolled back.
CheckpointConflict(w) ==
  /\ worker[w].pc = "committing"
  /\ ~worker[w].aborted
  /\ Advances(w) /\ ~VersionMatches(w)
  /\ Goto(w, "interrupt")
  /\ UNCHANGED <<env, db, lock, lane, faults>>

\* throwIfVocaDbCancelled between the worker's own steps.
ObserveSignal(w) ==
  /\ worker[w].pc \in {"chosen", "discovered", "counting", "committing"}
  /\ worker[w].aborted
  /\ Goto(w, "interrupt")
  /\ UNCHANGED <<env, db, lock, lane, faults>>

\* (mutant) the error is recorded whatever the status of the run
InterruptsAny(r) == TRUE

\* recordRunInterruption looks for the run among the RUNNING ones.
Interrupts(r) == runs[r].status = "RUNNING"

\* recordRunInterruption's transaction; a RUNNING run stays RUNNING.
RecordInterruption(w) ==
  LET r == worker[w].run IN
  /\ worker[w].pc = "interrupt"
  /\ ConsumeCatalogChange(r)
  /\ runs' = [runs EXCEPT ![r].catalogChanged = FALSE,
                          ![r].error = @ \/ Interrupts(r)]
  /\ Exit(w)
  /\ UNCHANGED <<env, song, state, faults>>

\* A database or VocaDB call of the worker itself fails.
StepFails(w) ==
  /\ Fault
  /\ \/ /\ worker[w].pc \in {"locked", "creating", "interrupt"}
        /\ Exit(w)
     \/ /\ worker[w].pc \in {"chosen", "discovered", "listing", "counting",
                             "committing"}
        /\ Goto(w, "interrupt")
        /\ UNCHANGED <<lock, lane>>
  /\ UNCHANGED <<env, db>>

Crash(w) ==
  /\ worker[w].pc # "idle"
  /\ Fault
  /\ Exit(w)
  /\ UNCHANGED <<env, db>>

\* SIGTERM or SIGINT.
Signal(w) ==
  /\ worker[w].pc \notin {"idle", "interrupt"}
  /\ ~worker[w].aborted
  /\ Fault
  /\ worker' = [worker EXCEPT ![w].aborted = TRUE]
  /\ UNCHANGED <<env, db, lock, lane>>

\* The lock's session ends at the server while its worker goes on.
DropLock ==
  /\ LockMayDrop
  /\ lock # NoWorker
  /\ Fault
  /\ lock' = NoWorker
  /\ UNCHANGED <<env, db, memory>>

-----------------------------------------------------------------------------
(***************************************************************************)
(* The specification                                                       *)
(***************************************************************************)
LaneStep(w, l) ==
  \/ \E s \in Songs : TakeItem(w, l, s)
  \/ LaneCancelled(w, l)
  \/ FetchSong(w, l)
  \/ FetchNotFound(w, l)
  \/ SyncSong(w, l)
  \/ FinishItem(w, l)
  \/ MarkDeleted(w, l)
  \/ MarkFailure(w, l)
  \/ SettleMarkedItem(w, l)

WorkerStep(w) ==
  \/ \E r \in RunIds : ResumeRun(w, r) \/ CreateRun(w, r)
  \/ DecideToCreate(w)
  \/ RejectRequest(w)
  \/ RefuseToCreate(w)
  \/ Discover(w)
  \/ WindowSaturates(w)
  \/ PersistManifest(w)
  \/ SkipDiscovery(w)
  \/ ListPending(w)
  \/ SettleLanes(w)
  \/ CountItems(w)
  \/ FinalizeRun(w)
  \/ CheckpointConflict(w)
  \/ ObserveSignal(w)
  \/ RecordInterruption(w)

FaultStep(w) ==
  \/ \E l \in Lanes : \/ ItemError(w, l)
                      \/ MarkFails(w, l)
                      \/ \E s \in Songs : BeginFails(w, l, s)
  \/ StepFails(w)
  \/ FinalizeAnswerLost(w)
  \/ Crash(w)
  \/ Signal(w)

Next ==
  \/ Tick
  \/ \E s \in Songs, status \in SourceStatus : SourceChange(s, status)
  \/ Burst
  \/ DropLock
  \/ \E w \in Workers :
       \/ \E req \in Requests : Start(w, req)
       \/ WorkerStep(w)
       \/ \E l \in Lanes : LaneStep(w, l)
       \/ FaultStep(w)

Spec == Init /\ [][Next]_vars

\* Scheduling: a started worker and its lanes keep taking steps, VocaDB's answers
\* included (a call that gets none ends at its time limit, with an error), until
\* they end or a fault (of which there are finitely many) ends them; and the
\* timers do not for ever find the lock held by a worker with an explicit request.
StartAny(requests) == \E w \in Workers, req \in requests : Start(w, req)
Fairness ==
  /\ \A w \in Workers :
       /\ WF_vars(WorkerStep(w))
       /\ \A l \in Lanes : WF_vars(LaneStep(w, l))
  /\ SF_vars(StartAny({r \in Requests : r.kind = "AUTO"}))

FairSpec == Spec /\ Fairness

\* An operator who starts "worker seed" again and again.
ExplicitSeeds == {r \in Requests : r.kind = "NEW" /\ r.mode = "SEED"}
RebuildSpec == FairSpec /\ SF_vars(StartAny(ExplicitSeeds))

-----------------------------------------------------------------------------
(***************************************************************************)
(* Properties                                                              *)
(***************************************************************************)
\* The advisory lock makes the "find RUNNING, then create" of runDurableSync
\* atomic: there is never a second RUNNING run to make RESUME and AUTO fail.
AtMostOneRunning == \A r, q \in Running : r = q

\* A song whose projection differs from what the last catalog version bump
\* announced is owed a bump by a run that can still give it: the catalogChanged
\* flag survives crashes, signals and failed transactions of its run.
NoLostInvalidation ==
  (\E s \in Songs : Projection(song[s]) # announced[s])
    => \E r \in Running : runs[r].catalogChanged

\* The checkpoints that there have been: where one window ends and the next begins.
Boundaries ==
  {IF runs[r].mode = "SEED" THEN runs[r].baseline ELSE runs[r].end :
     r \in {q \in RunIds : /\ runs[q].status = "SUCCEEDED"
                           /\ runs[q].mode \in {"SEED", "INCREMENTAL"}}}

\* No upstream change falls between two windows: a live song whose latest change
\* is before the checkpoint has it in its local row.  Both ends of a window are
\* excluded, so that without an overlap, and only then, a change in the very
\* instant of a checkpoint is in no window.
NoChangeSkipped ==
  state.seeded /\ flaw # "inventory" =>
    \A s \in Live :
      LET changedAt == upstream[s].changedAt IN
      /\ changedAt < state.checkpoint
      /\ Overlap = 0 => changedAt \notin Boundaries
      => song[s].ver = changedAt /\ ~song[s].deleted

\* A song that VocaDB has never deleted is never marked deleted here, however
\* often one of VocaDB's two answers (inventory, detail) is wrong.
DeletionConfirmed ==
  \A s \in Songs : song[s].deleted
    => \E e \in activity : e.song = s /\ e.status # "live"

\* A terminal run has settled every item of its manifest, and its status is
\* what its items say: a stopped or interrupted worker never finalizes early.
SettledRuns ==
  \A r \in RunIds : runs[r].status \in Terminal =>
    /\ runs[r].discovered
    /\ \A s \in Songs : runs[r].items[s] # "PENDING"
    /\ runs[r].status = "SUCCEEDED" <=> Failures(runs[r].items) = {}
    /\ runs[r].status = "FAILED" => Successes(runs[r].items) = {}

\* The checkpoint never moves backwards, whichever runs overlap.
CheckpointMonotone == [][state'.checkpoint >= state.checkpoint]_vars

\* A run that is terminal never changes again, items included.
TerminalRunsFrozen ==
  [][\A r \in RunIds : runs[r].status \in Terminal => runs'[r] = runs[r]]_vars

\* Under timers that start AUTO workers, every run becomes terminal, whatever is
\* requested besides: no crash, signal or failure leaves a run that no later
\* worker can finish.  Only a run whose window has a burst inside may stay.
RunsTerminate ==
  \A r \in RunIds :
    runs[r].status = "RUNNING" ~>
      runs[r].status \in Terminal \/ Saturable(runs[r])

\* A saturated run gives way to the full seed rebuild that the deployment runbook
\* requires for it, if an operator keeps asking for one (and rows are left, bound).
SeedRebuilds ==
  \A r \in RunIds :
    runs[r].status = "RUNNING" /\ Saturated(runs[r]) ~>
      \/ \E q \in Running : runs[q].mode = "SEED"
      \/ Free = {}
=============================================================================
