------------------------------ MODULE ArtistSync ------------------------------
(***************************************************************************)
(* Refreshing the artists' details.  Song syncs leave a summary of each    *)
(* credited artist in its row; an artist run fetches the details of those  *)
(* rows that a summary, an error or their age makes due.  Song and artist  *)
(* workers take the same advisory lock.  The artist worker writes a        *)
(* heartbeat, from which the operations status tells whether it lives.     *)
(*                                                                         *)
(* A tick is a heartbeat interval.  The refresh interval is so much longer *)
(* that ageing is an action of its own.  Every artist has a public song.   *)
(***************************************************************************)
EXTENDS OperationsStatus, FiniteSets

CONSTANTS
  Artists,      \* VocaDB artist IDs
  Concurrency,  \* items in flight
  SongLanes,    \* lanes of the song worker that credit an artist
  MaxChanges,   \* bound: upstream changes of an artist
  MaxFaults     \* bound: crashes, signals and failed calls

ASSUME ArtistAssumption == /\ IsFiniteSet(Artists)
                           /\ Concurrency \in Nat \ {0}
                           /\ {MaxChanges, MaxFaults} \subseteq Nat

VARIABLES
  upstream,  \* upstream[a]: the artist at VocaDB
  row,       \* row[a]: the local Artist
  carried,   \* carried[l]: the summary that a lane of the song worker has fetched
  lock,      \* who holds the advisory lock
  run,       \* the latest artist run with its items
  terminal,  \* how the artist run that ended last ended
  worker,    \* the artist worker's memory
  item,      \* item[a]: what a lane of the artist worker is doing with a
  beat,      \* the age of lastHeartbeatAt, while the run is RUNNING
  orphaned,  \* how long the RUNNING run has had no worker
  faults     \* faults so far

songVars == <<upstream, carried>>
runVars == <<run, terminal, beat, orphaned>>
vars == <<upstream, row, carried, lock, run, terminal, worker, item, beat,
          orphaned, faults>>

-----------------------------------------------------------------------------
\* State

Source == [ver : Nat, status : {"live", "deleted", "gone"}]
Summary == [ver : Nat, deleted : BOOLEAN]
Ages == {"never", "fresh", "old"}   \* old: longer ago than the refresh interval

\* sumAfter: summaryObservedAt is later than detailLastSyncedAt.
Row == [status : {"NONE", "SYNCED", "FAILED", "SOURCE_MISSING", "SOURCE_DELETED"},
        detail : Summary, summary : Summary, sumAfter : BOOLEAN,
        synced : Ages, attempted : Ages]

Nothing == [ver |-> 0, deleted |-> FALSE]
NoRow == [status |-> "NONE", detail |-> Nothing, summary |-> Nothing,
          sumAfter |-> FALSE, synced |-> "never", attempted |-> "never"]
Existing == {a \in Artists : row[a].status # "NONE"}

NoSummary == [artist |-> {}, summary |-> Nothing]

\* beforeSync and beforeAttempt are the artists whose detail was synced, or
\* attempted, before refreshCutoffAt; seen is the summary discovery looked at.
Run == [status : {"NONE", "RUNNING", "SUCCEEDED", "PARTIAL", "FAILED"},
        mode : {"REFRESH", "IDS"}, discovered : BOOLEAN,
        beforeSync : SUBSET Artists, beforeAttempt : SUBSET Artists,
        items : [Artists -> {"NONE", "PENDING", "SYNCED", "FAILED", "SOURCE_DELETED"}],
        seen : [Artists -> Nat]]

Kinds == {"RESUME", "AUTO", "REFRESH", "IDS"}

\* beatDue: the timer has fired; beatLost: a heartbeat of this worker failed.
Worker == [pc : {"idle", "locked", "chosen", "running", "discovered", "processing",
                 "finalizing", "interrupt"},
           kind : Kinds, ids : SUBSET Artists, queue : SUBSET Artists,
           found : SUBSET Artists, aborted : BOOLEAN, stopped : BOOLEAN,
           beatDue : BOOLEAN, beatLost : BOOLEAN]
NoWorker == [pc |-> "idle", kind |-> "AUTO", ids |-> {}, queue |-> {}, found |-> {},
             aborted |-> FALSE, stopped |-> FALSE, beatDue |-> FALSE, beatLost |-> FALSE]

\* "missing" and "failing" are the catch block, "stored" and "marked" the moment
\* between the artist's update and the item's.
Item == [stage : {"idle", "begun", "fetched", "stored", "missing", "failing", "marked"},
         detail : Summary]
NoItem == [stage |-> "idle", detail |-> Nothing]
NoItems == [a \in Artists |-> NoItem]

Init ==
  /\ upstream = [a \in Artists |-> [ver |-> 0, status |-> "live"]]
  /\ row = [a \in Artists |-> NoRow]
  /\ carried = [l \in SongLanes |-> NoSummary]
  /\ lock = "free"
  /\ run = [status |-> "NONE", mode |-> "IDS", discovered |-> FALSE,
            beforeSync |-> {}, beforeAttempt |-> {},
            items |-> [a \in Artists |-> "NONE"], seen |-> [a \in Artists |-> 0]]
  /\ terminal = "NONE"
  /\ worker = NoWorker
  /\ item = NoItems
  /\ beat = Never
  /\ orphaned = 0
  /\ faults = 0

Fault == faults < MaxFaults /\ faults' = faults + 1

-----------------------------------------------------------------------------
\* VocaDB and the passing of the refresh interval

SourceChange(a, status) ==
  /\ upstream[a].ver < MaxChanges
  /\ upstream' = [upstream EXCEPT ![a] = [ver |-> @.ver + 1, status |-> status]]
  /\ UNCHANGED <<row, carried, lock, runVars, worker, item, faults>>

\* The last attempt is the last sync, unless the row is marked with a failure;
\* then it is later.
Age(a) ==
  /\ \/ /\ row[a].status \in {"SYNCED", "SOURCE_DELETED"} /\ row[a].synced = "fresh"
        /\ row' = [row EXCEPT ![a].synced = "old", ![a].attempted = "old"]
     \/ /\ row[a].status \in {"FAILED", "SOURCE_MISSING"} /\ row[a].synced = "fresh"
        /\ row' = [row EXCEPT ![a].synced = "old"]
     \/ /\ row[a].synced # "fresh" /\ row[a].attempted = "fresh"
        /\ row' = [row EXCEPT ![a].attempted = "old"]
  /\ UNCHANGED <<songVars, lock, runVars, worker, item, faults>>

-----------------------------------------------------------------------------
\* The song worker

StartSongs ==
  /\ lock = "free"
  /\ lock' = "songs"
  /\ UNCHANGED <<songVars, row, runVars, worker, item, faults>>

SummaryOf(source) == [ver |-> source.ver, deleted |-> source.status = "deleted"]

FetchSummary(l, a) ==
  /\ lock = "songs"
  /\ carried[l] = NoSummary
  /\ upstream[a].status # "gone"
  /\ carried' = [carried EXCEPT ![l] = [artist |-> {a}, summary |-> SummaryOf(upstream[a])]]
  /\ UNCHANGED <<upstream, row, lock, runVars, worker, item, faults>>

\* The upsert of syncCredits: a new artist takes the summary for its detail, an
\* existing one keeps detail and status.  The lane that writes last wins.
WriteSummary(l, a) ==
  LET summary == carried[l].summary IN
  /\ carried[l].artist = {a}
  /\ carried' = [carried EXCEPT ![l] = NoSummary]
  /\ row' = [row EXCEPT ![a] =
       IF @.status = "NONE"
       THEN [NoRow EXCEPT !.status = IF summary.deleted THEN "SOURCE_DELETED" ELSE "SYNCED",
                          !.detail = summary, !.summary = summary, !.sumAfter = TRUE]
       ELSE [@ EXCEPT !.summary = summary, !.sumAfter = TRUE]]
  /\ UNCHANGED <<upstream, lock, runVars, worker, item, faults>>

\* It is done, or dies with what its lanes carry.
EndSongs ==
  /\ lock = "songs"
  /\ lock' = "free"
  /\ carried' = [l \in SongLanes |-> NoSummary]
  /\ UNCHANGED <<upstream, row, runVars, worker, item, faults>>

-----------------------------------------------------------------------------
\* The artist worker chooses its run

\* The command line has done its work.
TakeRun == worker' = [NoWorker EXCEPT !.pc = "chosen"]

Exit == /\ worker' = NoWorker
        /\ item' = NoItems
        /\ lock' = "free"

Start(kind, ids) ==
  /\ worker.pc = "idle"
  /\ lock = "free"
  /\ lock' = "artists"
  /\ worker' = [NoWorker EXCEPT !.pc = "locked", !.kind = kind, !.ids = ids]
  /\ UNCHANGED <<songVars, row, runVars, item, faults>>

Resumes == run.status = "RUNNING" /\ worker.kind \in {"RESUME", "AUTO"}
Creates == /\ run.status # "RUNNING"
           /\ \/ worker.kind \in {"AUTO", "REFRESH"}
              \/ worker.kind = "IDS" /\ worker.ids # {} /\ worker.ids \subseteq Existing

Resume ==
  /\ worker.pc = "locked" /\ ~worker.aborted
  /\ Resumes
  /\ TakeRun
  /\ orphaned' = 0
  /\ UNCHANGED <<songVars, row, lock, run, terminal, beat, item, faults>>

\* createArtistRun: the cutoff of a refresh is fixed here.
Create ==
  LET ids == worker.kind = "IDS" IN
  /\ worker.pc = "locked" /\ ~worker.aborted
  /\ Creates
  /\ run' = [status |-> "RUNNING", mode |-> IF ids THEN "IDS" ELSE "REFRESH",
             discovered |-> ids,
             beforeSync |-> IF ids THEN {} ELSE {a \in Artists : row[a].synced = "old"},
             beforeAttempt |-> IF ids THEN {} ELSE {a \in Artists : row[a].attempted = "old"},
             items |-> [a \in Artists |->
                          IF ids /\ a \in worker.ids THEN "PENDING" ELSE "NONE"],
             seen |-> [a \in Artists |-> 0]]
  /\ beat' = Never
  /\ TakeRun
  /\ UNCHANGED <<songVars, row, lock, terminal, orphaned, item, faults>>

\* Unknown IDs, a RUNNING run where none is allowed or none to resume, a signal.
Reject ==
  /\ worker.pc = "locked"
  /\ worker.aborted \/ ~(Resumes \/ Creates)
  /\ Exit
  /\ UNCHANGED <<songVars, row, runVars, faults>>

-----------------------------------------------------------------------------
\* Heartbeats

\* Mutant: the timer alone writes heartbeats.
NoInitialBeat == FALSE

\* updateRunHeartbeat before the timer is started.
InitialBeat == TRUE

\* A heartbeat that fails is only logged.
WriteBeat == \/ beat' = 0 /\ UNCHANGED faults
             \/ beat' = beat /\ Fault

FirstBeat ==
  /\ worker.pc = "chosen"
  /\ IF InitialBeat THEN WriteBeat ELSE UNCHANGED <<beat, faults>>
  /\ worker' = [worker EXCEPT !.pc = "running", !.beatLost = faults' # faults]
  /\ UNCHANGED <<songVars, row, lock, run, terminal, orphaned, item>>

Beating == worker.pc \in {"running", "discovered", "processing"}

TimerBeat ==
  /\ Beating /\ worker.beatDue
  /\ WriteBeat
  /\ worker' = [worker EXCEPT !.beatDue = FALSE, !.beatLost = @ \/ faults' # faults]
  /\ UNCHANGED <<songVars, row, lock, run, terminal, orphaned, item>>

\* A process has the run: it has chosen it and not ended.
Attended == worker.pc \notin {"idle", "locked"}

Older(age) == IF age = Never \/ age = BeatStaleAfter THEN age ELSE age + 1

\* The timer fires once in a tick, unless the process is about to write.
Tick ==
  /\ run.status = "RUNNING"
  /\ worker.pc # "chosen" /\ ~worker.beatDue
  /\ beat' = Older(beat)
  /\ orphaned' = IF Attended THEN 0 ELSE Older(orphaned)
  /\ worker' = [worker EXCEPT !.beatDue = Beating]
  /\ UNCHANGED <<songVars, row, lock, run, terminal, item, faults>>

-----------------------------------------------------------------------------
\* Discovery

\* Mutant: an artist that could not be fetched waits for a new summary.
DueBySummary(a) ==
  LET r == row[a] IN
  /\ r.status # "NONE" /\ r.sumAfter
  /\ \/ r.summary.ver > r.detail.ver
     \/ r.synced = "never"

SummaryChanged(r) ==
  /\ r.sumAfter
  /\ \/ r.summary.ver > r.detail.ver
     \/ r.summary.ver = r.detail.ver /\ r.summary.deleted # r.detail.deleted

\* The filter of discoverArtistRun.
Due(a) ==
  LET r == row[a] IN
  \/ r.status = "SOURCE_DELETED" /\ r.sumAfter /\ ~r.summary.deleted
  \/ r.status \in {"SYNCED", "FAILED", "SOURCE_MISSING"} /\ SummaryChanged(r)
  \/ r.status = "FAILED"
  \/ r.status = "SOURCE_MISSING" /\ (r.attempted = "never" \/ a \in run.beforeAttempt)
  \/ r.status = "SYNCED" /\ (r.synced = "never" \/ a \in run.beforeSync)

Discover ==
  /\ worker.pc = "running" /\ ~worker.aborted
  /\ ~run.discovered
  /\ worker' = [worker EXCEPT !.pc = "discovered", !.found = {a \in Artists : Due(a)}]
  /\ UNCHANGED <<songVars, row, lock, runVars, item, faults>>

\* persistManifest, then the pending items are read.
PersistManifest ==
  /\ worker.pc = "discovered" /\ ~worker.aborted
  /\ run' = [run EXCEPT !.discovered = TRUE, !.beforeSync = {}, !.beforeAttempt = {},
       !.items = [a \in Artists |-> IF a \in worker.found THEN "PENDING" ELSE "NONE"],
       !.seen = [a \in Artists |-> row[a].summary.ver]]
  /\ worker' = [worker EXCEPT !.pc = "processing", !.queue = worker.found, !.found = {}]
  /\ UNCHANGED <<songVars, row, lock, terminal, beat, orphaned, item, faults>>

ListPending ==
  /\ worker.pc = "running" /\ ~worker.aborted
  /\ run.discovered
  /\ worker' = [worker EXCEPT !.pc = "processing",
                              !.queue = {a \in Artists : run.items[a] = "PENDING"}]
  /\ UNCHANGED <<songVars, row, lock, runVars, item, faults>>

-----------------------------------------------------------------------------
\* Items

InStage(a, stages) == worker.pc = "processing" /\ item[a].stage \in stages
SetStage(a, stage) == item' = [item EXCEPT ![a].stage = stage]
InFlight == {a \in Artists : item[a].stage # "idle"}

\* A lane throws: no lane takes another item.
StopLanes(a) == /\ item' = [item EXCEPT ![a] = NoItem]
                /\ worker' = [worker EXCEPT !.stopped = TRUE]

\* beginItem; a failure there is not caught.
TakeItem(a) ==
  /\ worker.pc = "processing" /\ ~worker.stopped /\ ~worker.aborted
  /\ a \in worker.queue /\ Cardinality(InFlight) < Concurrency
  /\ \/ /\ worker' = [worker EXCEPT !.queue = @ \ {a}]
        /\ SetStage(a, "begun")
        /\ UNCHANGED faults
     \/ /\ worker' = [worker EXCEPT !.queue = @ \ {a}, !.stopped = TRUE]
        /\ Fault
        /\ UNCHANGED item
  /\ UNCHANGED <<songVars, row, lock, runVars>>

Fetch(a) ==
  /\ InStage(a, {"begun"}) /\ ~worker.aborted
  /\ IF upstream[a].status = "gone"
     THEN SetStage(a, "missing")
     ELSE item' = [item EXCEPT ![a] = [stage |-> "fetched", detail |-> SummaryOf(upstream[a])]]
  /\ UNCHANGED <<songVars, row, lock, runVars, worker, faults>>

CancelItem(a) ==
  /\ InStage(a, {"begun"}) /\ worker.aborted
  /\ StopLanes(a)
  /\ UNCHANGED <<songVars, row, lock, runVars, faults>>

\* After a signal every error counts as the cancellation.
ItemError(a) ==
  /\ InStage(a, {"begun", "fetched", "stored"})
  /\ Fault
  /\ IF worker.aborted
     THEN StopLanes(a)
     ELSE /\ item' = [item EXCEPT ![a] = [NoItem EXCEPT !.stage = "failing"]]
          /\ UNCHANGED worker
  /\ UNCHANGED <<songVars, row, lock, runVars>>

\* syncVocaDbArtistDetail
StoreDetail(a) ==
  LET detail == item[a].detail IN
  /\ InStage(a, {"fetched"})
  /\ row' = [row EXCEPT ![a] = [@ EXCEPT
       !.status = IF detail.deleted THEN "SOURCE_DELETED" ELSE "SYNCED",
       !.detail = detail, !.sumAfter = FALSE, !.synced = "fresh", !.attempted = "fresh"]]
  /\ SetStage(a, "stored")
  /\ UNCHANGED <<songVars, lock, runVars, worker, faults>>

FinishItem(a) ==
  /\ InStage(a, {"stored"})
  /\ run' = [run EXCEPT !.items[a] =
       IF item[a].detail.deleted THEN "SOURCE_DELETED" ELSE "SYNCED"]
  /\ item' = [item EXCEPT ![a] = NoItem]
  /\ UNCHANGED <<songVars, row, lock, terminal, beat, orphaned, worker, faults>>

\* Mutant: a failure counts as a sync when summaries are compared.
MarkedAsSynced(r, stage) ==
  [r EXCEPT !.status = IF stage = "missing" THEN "SOURCE_MISSING" ELSE "FAILED",
            !.sumAfter = FALSE, !.attempted = "fresh"]

\* Mutant: only a 404 is kept in the row.
MarkedIfMissing(r, stage) ==
  IF stage = "missing" THEN [r EXCEPT !.status = "SOURCE_MISSING", !.attempted = "fresh"] ELSE r

\* markArtistSyncFailure: the detail stays.
Marked(r, stage) ==
  [r EXCEPT !.status = IF stage = "missing" THEN "SOURCE_MISSING" ELSE "FAILED",
            !.attempted = "fresh"]

MarkFailure(a) ==
  /\ InStage(a, {"missing", "failing"})
  /\ row' = [row EXCEPT ![a] = Marked(@, item[a].stage)]
  /\ SetStage(a, "marked")
  /\ UNCHANGED <<songVars, lock, runVars, worker, faults>>

\* Mutant: the artist's status is the item's.
FailItemAsArtist(a) ==
  /\ InStage(a, {"marked"})
  /\ run' = [run EXCEPT !.items[a] = row[a].status]
  /\ item' = [item EXCEPT ![a] = NoItem]
  /\ UNCHANGED <<songVars, row, lock, terminal, beat, orphaned, worker, faults>>

FailItem(a) ==
  /\ InStage(a, {"marked"})
  /\ run' = [run EXCEPT !.items[a] = "FAILED"]
  /\ item' = [item EXCEPT ![a] = NoItem]
  /\ UNCHANGED <<songVars, row, lock, terminal, beat, orphaned, worker, faults>>

\* An update of the catch block fails.
CatchFails(a) ==
  /\ InStage(a, {"missing", "failing", "marked"})
  /\ Fault
  /\ StopLanes(a)
  /\ UNCHANGED <<songVars, row, lock, runVars>>

-----------------------------------------------------------------------------
\* The end of a worker

\* All lanes have come back.
Drain ==
  /\ worker.pc = "processing" /\ InFlight = {}
  /\ worker.queue = {} \/ worker.stopped \/ worker.aborted
  /\ worker' = [worker EXCEPT !.beatDue = FALSE,
       !.pc = IF worker.stopped \/ worker.aborted THEN "interrupt" ELSE "finalizing"]
  /\ UNCHANGED <<songVars, row, lock, runVars, item, faults>>

With(statuses) == {a \in Artists : run.items[a] \in statuses}
Verdict == CASE With({"FAILED"}) = {} -> "SUCCEEDED"
             [] With({"FAILED"}) # {} /\ With({"SYNCED", "SOURCE_DELETED"}) = {} -> "FAILED"
             [] OTHER -> "PARTIAL"

FinalizeRun ==
  /\ worker.pc = "finalizing" /\ ~worker.aborted
  /\ run' = [run EXCEPT !.status = Verdict]
  /\ terminal' = Verdict
  /\ beat' = Never
  /\ Exit
  /\ UNCHANGED <<songVars, row, orphaned, faults>>

\* The signal is noticed, or a call of the runner itself fails.
Interrupt ==
  /\ worker.pc \in {"running", "discovered", "finalizing"}
  /\ \/ worker.aborted /\ UNCHANGED faults
     \/ Fault
  /\ worker' = [worker EXCEPT !.pc = "interrupt", !.beatDue = FALSE]
  /\ UNCHANGED <<songVars, row, lock, runVars, item>>

\* recordRunInterruption leaves the run RUNNING.
RecordInterruption ==
  /\ worker.pc = "interrupt"
  /\ Exit
  /\ UNCHANGED <<songVars, row, runVars, faults>>

Signal ==
  /\ worker.pc # "idle" /\ ~worker.aborted
  /\ Fault
  /\ worker' = [worker EXCEPT !.aborted = TRUE]
  /\ UNCHANGED <<songVars, row, lock, runVars, item>>

Crash ==
  /\ worker.pc # "idle"
  /\ Fault
  /\ Exit
  /\ UNCHANGED <<songVars, row, runVars>>

-----------------------------------------------------------------------------
\* Specification

ItemStep(a) == \/ TakeItem(a) \/ Fetch(a) \/ CancelItem(a) \/ StoreDetail(a)
               \/ FinishItem(a) \/ MarkFailure(a) \/ FailItem(a)

WorkerStep == \/ Resume \/ Create \/ Reject \/ FirstBeat
              \/ Discover \/ PersistManifest \/ ListPending
              \/ Drain \/ FinalizeRun \/ Interrupt \/ RecordInterruption
              \/ \E a \in Artists : ItemStep(a)

Next ==
  \/ WorkerStep \/ TimerBeat \/ Signal \/ Crash \/ Tick
  \/ \E kind \in Kinds \ {"IDS"} : Start(kind, {})
  \/ \E ids \in SUBSET Artists : Start("IDS", ids)
  \/ StartSongs \/ EndSongs
  \/ \E a \in Artists :
       \/ Age(a) \/ ItemError(a) \/ CatchFails(a)
       \/ \E status \in {"live", "deleted", "gone"} : SourceChange(a, status)
       \/ \E l \in SongLanes : FetchSummary(l, a) \/ WriteSummary(l, a)

Spec == Init /\ [][Next]_vars

\* A worker goes on, song runs end, time passes, and the daily timer, at an hour
\* of its own, does not for ever find the lock held.
FairSpec ==
  /\ Spec
  /\ WF_vars(WorkerStep) /\ WF_vars(TimerBeat) /\ WF_vars(Tick)
  /\ WF_vars(EndSongs)
  /\ \A a \in Artists : WF_vars(Age(a))
  /\ SF_vars(Start("AUTO", {}))

-----------------------------------------------------------------------------
\* Properties

\* The variables keep their types.
TypeOK == /\ upstream \in [Artists -> Source]
          /\ row \in [Artists -> Row]
          /\ carried \in [SongLanes -> [artist : SUBSET Artists, summary : Summary]]
          /\ lock \in {"free", "songs", "artists"}
          /\ run \in Run
          /\ terminal \in {"NONE", "SUCCEEDED", "PARTIAL", "FAILED"}
          /\ worker \in Worker
          /\ item \in [Artists -> Item]
          /\ beat \in {Never} \cup 0..BeatStaleAfter
          /\ orphaned \in 0..BeatStaleAfter
          /\ faults \in 0..MaxFaults

\* What the operations status says while the song side is in order.
Health == Classify([seeded |-> 0, checkpoint |-> 0, reconciled |-> Never,
                    ambiguous |-> FALSE, refreshFailed |-> FALSE,
                    terminal |-> {terminal},
                    heartbeats |-> IF run.status = "RUNNING" THEN {beat} ELSE {}])

\* A run whose worker died, was interrupted or never came back is reported as
\* soon as the heartbeat window has passed, whatever the worker was doing and
\* whenever its last heartbeat was (isHeartbeatStale, classifyOperationsStatus).
OrphanShown ==
  run.status = "RUNNING" /\ orphaned >= BeatStaleAfter => Health = "DEGRADED"

\* A worker that lives and whose heartbeats reach the database is not taken for
\* dead, also while it discovers a run that another worker left long ago.
LiveNotSuspected ==
  Beating /\ ~worker.beatLost => ~IsHeartbeatStale(beat)

\* What an item of the latest run says is what the artist's row says, over
\* crashes between the two updates and resumed runs (processArtistItem).
ItemsTellTheTruth ==
  \A a \in Artists :
    CASE run.items[a] \in {"SYNCED", "SOURCE_DELETED"} -> row[a].status = run.items[a]
      [] run.items[a] = "FAILED" -> row[a].status \in {"FAILED", "SOURCE_MISSING"}
      [] OTHER -> TRUE

\* A refresh that succeeded has brought every artist at least to the version its
\* song summaries announced when the run was discovered; a deleted artist that
\* no summary revived is left alone.  It rests on the order of the timestamps
\* and on the lock the two kinds of workers share (discoverArtistRun).
SummariesHonoured ==
  run.status = "SUCCEEDED" /\ run.mode = "REFRESH" =>
    \A a \in Existing : \/ row[a].detail.ver >= run.seen[a]
                        \/ row[a].status = "SOURCE_DELETED"

\* An artist agrees with VocaDB.
Current(a) ==
  CASE row[a].status = "NONE" -> TRUE
    [] row[a].status # "NONE" /\ upstream[a].status = "gone" ->
         row[a].status = "SOURCE_MISSING"
    [] OTHER -> /\ row[a].detail = SummaryOf(upstream[a])
                /\ row[a].status \in {"SYNCED", "SOURCE_DELETED"}

\* A deletion that no later summary has taken back.
LeftDeleted(a) ==
  row[a].status = "SOURCE_DELETED" /\ ~(row[a].sumAfter /\ ~row[a].summary.deleted)

\* When VocaDB is quiet, every artist comes to agree with it and stays so,
\* whatever failed before, even if no song shows the change; only a deleted
\* artist waits for a song that shows it again (the refresh cutoff, FAILED and
\* SOURCE_MISSING in discoverArtistRun).
CatchesUp == \A a \in Artists : <>[](Current(a) \/ LeftDeleted(a))

=============================================================================
