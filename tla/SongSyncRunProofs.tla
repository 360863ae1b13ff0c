------------------------- MODULE SongSyncRunProofs -------------------------
(***************************************************************************)
(* What a run of the song sync guarantees, in four steps.                  *)
(*                                                                         *)
(* Without the advisory lock: the checkpoint never moves backwards, since  *)
(* a run that still finds the version it expects has a target that is not  *)
(* behind the checkpoint (CheckpointInv), and a song that VocaDB has never *)
(* deleted is never marked deleted, since one of the two answers that a    *)
(* deletion needs was true (KnownInv).                                     *)
(*                                                                         *)
(* With it: a terminal run has settled every item (SettledInv: an item     *)
(* that is PENDING while its run is processed is in the queue or on a      *)
(* lane), and no upstream change falls between two windows (WindowInv).    *)
(***************************************************************************)
EXTENDS SongSyncProofs

-----------------------------------------------------------------------------
(***************************************************************************)
(* What the actions do to the runs                                         *)
(***************************************************************************)
\* What createRun fixes once and for all.
KeepsHeader(q) ==
  /\ runs'[q].mode = runs[q].mode
  /\ runs'[q].start = runs[q].start
  /\ runs'[q].end = runs[q].end
  /\ runs'[q].baseline = runs[q].baseline
  /\ runs'[q].expected = runs[q].expected

KeepsManifest(q) ==
  /\ runs'[q].items = runs[q].items
  /\ runs'[q].present = runs[q].present
  /\ runs'[q].discovered = runs[q].discovered

KeepsRow(q) ==
  KeepsHeader(q) /\ KeepsManifest(q) /\ runs'[q].status = runs[q].status

KeepsHeaders == \A q \in RunIds : KeepsHeader(q)
KeepsRows == \A q \in RunIds : KeepsRow(q)

\* A run that nobody writes keeps everything.
LEMMA RowSame ==
  ASSUME NEW q, runs'[q] = runs[q]
  PROVE  KeepsRow(q)
  BY DEF KeepsRow, KeepsHeader, KeepsManifest

\* A step that leaves the runs alone keeps every row.
LEMMA RowsSame ==
  ASSUME UNCHANGED runs
  PROVE  KeepsRows
  BY DEF KeepsRows, KeepsRow, KeepsHeader, KeepsManifest

\* A worker past the choice of its run has a row to write to.
LEMMA OwnRow ==
  ASSUME TypeInv, NEW w \in Workers, worker[w].pc \notin EarlyPc
  PROVE  /\ worker[w].run \in RunIds
         /\ runs[worker[w].run] \in Run
         /\ runs \in [RunIds -> Run]
  BY DEF TypeInv, WorkersOK, HasRun, RunsOK

\* Resuming only clears the run's error.
LEMMA RowsResume ==
  ASSUME TypeInv, NEW w \in Workers, NEW r \in RunIds, ResumeRun(w, r)
  PROVE  KeepsRows
<1> DEFINE row == [runs[r] EXCEPT !.error = FALSE]
<1>1. runs[r] \in Run /\ runs \in [RunIds -> Run]
  BY DEF TypeInv, RunsOK
<1>2. /\ row.mode = runs[r].mode /\ row.start = runs[r].start
      /\ row.end = runs[r].end /\ row.baseline = runs[r].baseline
      /\ row.expected = runs[r].expected /\ row.items = runs[r].items
      /\ row.present = runs[r].present
      /\ row.discovered = runs[r].discovered /\ row.status = runs[r].status
  BY <1>1 DEF Run
<1>3. runs' = [runs EXCEPT ![r] = row]
  BY DEF ResumeRun
<1> HIDE DEF row
<1>4. QED BY <1>1, <1>2, <1>3 DEF KeepsRows, KeepsRow, KeepsHeader, KeepsManifest

\* Writing a song only flags a run.
LEMMA RowsWrite ==
  ASSUME TypeInv, NEW w \in Workers, NEW s, NEW song_row,
         worker[w].pc \notin EarlyPc, WriteSong(w, s, song_row)
  PROVE  KeepsRows
<1> DEFINE r == worker[w].run
           row == [runs[r] EXCEPT !.catalogChanged = TRUE]
<1>1. r \in RunIds /\ runs[r] \in Run /\ runs \in [RunIds -> Run]
  BY OwnRow
<1>2. /\ row.mode = runs[r].mode /\ row.start = runs[r].start
      /\ row.end = runs[r].end /\ row.baseline = runs[r].baseline
      /\ row.expected = runs[r].expected /\ row.items = runs[r].items
      /\ row.present = runs[r].present
      /\ row.discovered = runs[r].discovered /\ row.status = runs[r].status
  BY <1>1 DEF Run
<1>3. runs' = [runs EXCEPT ![r] = row] \/ runs' = runs
  BY DEF WriteSong
<1> HIDE DEF row
<1>4. CASE runs' = runs
  BY <1>4, RowsSame
<1>5. CASE runs' = [runs EXCEPT ![r] = row]
  BY <1>1, <1>2, <1>5 DEF KeepsRows, KeepsRow, KeepsHeader, KeepsManifest
<1>6. QED BY <1>3, <1>4, <1>5

\* Settling an item changes one item of the worker's run.
LEMMA RowsItem ==
  ASSUME TypeInv, NEW w \in Workers, NEW l \in Lanes, NEW status,
         worker[w].pc = "processing", lane[w][l].song \in Songs,
         SetItem(w, l, status)
  PROVE  LET r == worker[w].run IN
         /\ KeepsHeaders
         /\ \A q \in RunIds : q # r => runs'[q] = runs[q]
         /\ runs'[r].status = runs[r].status
         /\ runs'[r].present = runs[r].present
         /\ runs'[r].discovered = runs[r].discovered
         /\ \A s \in Songs :
              runs'[r].items[s] = IF s = lane[w][l].song THEN status
                                  ELSE runs[r].items[s]
<1> DEFINE r == worker[w].run
           row == [runs[r] EXCEPT !.items[lane[w][l].song] = status]
<1>1. r \in RunIds /\ runs[r] \in Run /\ runs \in [RunIds -> Run]
  BY OwnRow DEF EarlyPc
<1>2. /\ row.mode = runs[r].mode /\ row.start = runs[r].start
      /\ row.end = runs[r].end /\ row.baseline = runs[r].baseline
      /\ row.expected = runs[r].expected
      /\ row.present = runs[r].present
      /\ row.discovered = runs[r].discovered /\ row.status = runs[r].status
  BY <1>1 DEF Run
<1>3. row.items = [runs[r].items EXCEPT ![lane[w][l].song] = status]
  BY <1>1 DEF Run
<1>4. runs[r].items \in [Songs -> ItemStatus]
  BY <1>1 DEF Run
<1>5. runs' = [runs EXCEPT ![r] = row]
  BY <1>1 DEF SetItem
<1> HIDE DEF row
<1>6. \A q \in RunIds : q # r => runs'[q] = runs[q]
  BY <1>1, <1>5
<1>7. runs'[r] = row
  BY <1>1, <1>5
<1>8. KeepsHeaders
  BY <1>2, <1>6, <1>7 DEF KeepsHeaders, KeepsHeader
<1>9. QED BY <1>2, <1>3, <1>4, <1>6, <1>7, <1>8

\* The manifest is added to the worker's run, and nothing else changes.
LEMMA RowsPersist ==
  ASSUME TypeInv, NEW w \in Workers, PersistManifest(w)
  PROVE  LET r == worker[w].run
             fresh == {s \in worker[w].found : runs[r].items[s] = "NONE"}
         IN
         /\ KeepsHeaders
         /\ \A q \in RunIds : q # r => runs'[q] = runs[q]
         /\ runs'[r].status = runs[r].status
         /\ runs'[r].discovered
         /\ runs'[r].present
              = runs[r].present \cup (fresh \cap worker[w].present)
         /\ \A s \in Songs :
              runs'[r].items[s] = IF s \in fresh THEN "PENDING"
                                  ELSE runs[r].items[s]
<1> DEFINE r == worker[w].run
           fresh == {s \in worker[w].found : runs[r].items[s] = "NONE"}
           row == [runs[r] EXCEPT
             !.discovered = TRUE,
             !.items = [s \in Songs |->
                          IF s \in fresh THEN "PENDING" ELSE @[s]],
             !.present = @ \cup (fresh \cap worker[w].present)]
<1>1. r \in RunIds /\ runs[r] \in Run /\ runs \in [RunIds -> Run]
  BY OwnRow DEF PersistManifest, EarlyPc
<1>2. runs' = [runs EXCEPT ![r] = row]
  BY <1>1 DEF PersistManifest
<1> HIDE DEF fresh
<1>3. /\ row.mode = runs[r].mode /\ row.start = runs[r].start
      /\ row.end = runs[r].end /\ row.baseline = runs[r].baseline
      /\ row.expected = runs[r].expected
      /\ row.discovered = TRUE /\ row.status = runs[r].status
      /\ row.present = runs[r].present \cup (fresh \cap worker[w].present)
      /\ row.items = [s \in Songs |->
                        IF s \in fresh THEN "PENDING" ELSE runs[r].items[s]]
  BY <1>1 DEF Run
<1> HIDE DEF row
<1>4. \A q \in RunIds : q # r => runs'[q] = runs[q]
  BY <1>1, <1>2
<1>5. runs'[r] = row
  BY <1>1, <1>2
<1>6. KeepsHeaders
  BY <1>3, <1>4, <1>5 DEF KeepsHeaders, KeepsHeader
<1>7. QED BY <1>3, <1>4, <1>5, <1>6 DEF fresh

\* finalizeRun gives the worker's run its verdict and keeps the rest.
LEMMA RowsCommit ==
  ASSUME TypeInv, NEW w \in Workers, FinalizeCommit(w)
  PROVE  LET r == worker[w].run IN
         /\ r \in RunIds /\ worker[w].verdict \in Terminal
         /\ \A q \in RunIds : KeepsHeader(q) /\ KeepsManifest(q)
         /\ \A q \in RunIds : q # r => runs'[q] = runs[q]
         /\ runs'[r].status = worker[w].verdict
<1> DEFINE r == worker[w].run
           row == [runs[r] EXCEPT !.status = worker[w].verdict,
                                  !.catalogChanged = FALSE, !.error = FALSE]
<1>1. r \in RunIds /\ runs[r] \in Run /\ runs \in [RunIds -> Run]
  BY OwnRow DEF FinalizeCommit, EarlyPc
<1>2. /\ row.mode = runs[r].mode /\ row.start = runs[r].start
      /\ row.end = runs[r].end /\ row.baseline = runs[r].baseline
      /\ row.expected = runs[r].expected /\ row.items = runs[r].items
      /\ row.present = runs[r].present
      /\ row.discovered = runs[r].discovered
      /\ row.status = worker[w].verdict
  BY <1>1 DEF Run
<1>3. runs' = [runs EXCEPT ![r] = row]
  BY DEF FinalizeCommit
<1> HIDE DEF row
<1>4. \A q \in RunIds : q # r => runs'[q] = runs[q]
  BY <1>1, <1>3
<1>5. runs'[r] = row
  BY <1>1, <1>3
<1>6. \A q \in RunIds : KeepsHeader(q) /\ KeepsManifest(q)
  BY <1>2, <1>4, <1>5 DEF KeepsHeader, KeepsManifest
<1>7. worker[w].verdict \in Terminal
  BY DEF TypeInv, WorkersOK, Worker
<1>8. QED BY <1>1, <1>2, <1>4, <1>5, <1>6, <1>7

\* Recording an interruption changes a flag and an error.
LEMMA RowsInterruption ==
  ASSUME TypeInv, NEW w \in Workers, RecordInterruption(w)
  PROVE  KeepsRows
<1> DEFINE r == worker[w].run
           row == [runs[r] EXCEPT !.catalogChanged = FALSE,
                                  !.error = @ \/ Interrupts(r)]
<1>1. r \in RunIds /\ runs[r] \in Run /\ runs \in [RunIds -> Run]
  BY OwnRow DEF RecordInterruption, EarlyPc
<1>2. /\ row.mode = runs[r].mode /\ row.start = runs[r].start
      /\ row.end = runs[r].end /\ row.baseline = runs[r].baseline
      /\ row.expected = runs[r].expected /\ row.items = runs[r].items
      /\ row.present = runs[r].present
      /\ row.discovered = runs[r].discovered /\ row.status = runs[r].status
  BY <1>1 DEF Run
<1>3. runs' = [runs EXCEPT ![r] = row]
  BY DEF RecordInterruption
<1> HIDE DEF row
<1>4. QED BY <1>1, <1>2, <1>3 DEF KeepsRows, KeepsRow, KeepsHeader, KeepsManifest

\* Creating a run replaces a FREE row and no other.
LEMMA RowsCreate ==
  ASSUME TypeInv, NEW w \in Workers, NEW r \in RunIds, CreateRun(w, r)
  PROVE  /\ \A q \in RunIds : q # r => runs'[q] = runs[q]
         /\ runs'[r] = NewRun(worker[w].mode, worker[w].ids)
         /\ runs[r].status = "FREE"
  BY DEF TypeInv, RunsOK, CreateRun, Free

-----------------------------------------------------------------------------
(***************************************************************************)
(* The checkpoint never moves backwards, with or without the lock          *)
(***************************************************************************)
Timed == {r \in RunIds : runs[r].mode \in {"SEED", "INCREMENTAL"}}

\* Where the checkpoint goes when the run succeeds.
Target(r) ==
  IF runs[r].mode = "SEED" THEN runs[r].baseline ELSE runs[r].end

\* Nothing has been promised for the future, and a run that still finds the
\* version it expects does not move the checkpoint back.
CheckpointInv ==
  /\ state.checkpoint <= now
  /\ \A r \in RunIds :
       runs[r].mode # "IDS" => runs[r].expected <= state.version
  /\ \A r \in Timed :
       /\ Target(r) <= now
       /\ runs[r].expected = state.version => state.checkpoint <= Target(r)

\* A step that concerns neither the windows of the runs nor the state row.
Windowless ==
  /\ KeepsHeaders /\ state' = state
  /\ now' \in {now, now + 1}

\* What a song transaction writes is its song, its flag and its lane's stage.
LEMMA WindowlessWrite ==
  ASSUME TypeInv, NEW w \in Workers, NEW s, NEW row,
         worker[w].pc = "processing", WriteSong(w, s, row),
         UNCHANGED <<env, state>>
  PROVE  Windowless
  BY RowsWrite DEF EarlyPc, Windowless, KeepsRows, KeepsRow, KeepsHeaders, env

\* A step that leaves the database alone.
LEMMA WindowlessElsewhere ==
  ASSUME UNCHANGED <<runs, state>>, now' \in {now, now + 1}
  PROVE  Windowless
  BY RowsSame DEF Windowless, KeepsRows, KeepsRow, KeepsHeaders

\* The steps of the lanes are of that kind.
LEMMA WindowlessLane ==
  ASSUME TypeInv, NEW w \in Workers, NEW l \in Lanes, LaneStep(w, l)
  PROVE  Windowless
<1>1. CASE \/ \E s \in Songs : TakeItem(w, l, s)
           \/ LaneCancelled(w, l) \/ FetchSong(w, l) \/ FetchNotFound(w, l)
  BY <1>1, WindowlessElsewhere
  DEF TakeItem, LaneCancelled, FetchSong, FetchNotFound, env, db
<1>2. CASE SyncSong(w, l) \/ MarkDeleted(w, l) \/ MarkFailure(w, l)
  <2>1. /\ worker[w].pc = "processing"
        /\ \E s, row : WriteSong(w, s, row)
        /\ UNCHANGED <<env, state>>
    BY <1>2 DEF SyncSong, MarkDeleted, MarkFailure, AtStage
  <2>2. QED BY <2>1, WindowlessWrite
<1>3. CASE FinishItem(w, l) \/ SettleMarkedItem(w, l)
  <2>1. /\ worker[w].pc = "processing" /\ lane[w][l].song \in Songs
        /\ \E status : SetItem(w, l, status)
        /\ UNCHANGED <<env, state>>
    BY <1>3 DEF FinishItem, SettleMarkedItem, AtStage, TypeInv, LanesOK,
                HasSong
  <2>2. KeepsHeaders
    BY <2>1, RowsItem
  <2>3. QED BY <2>1, <2>2 DEF Windowless, env
<1>4. QED BY <1>1, <1>2, <1>3 DEF LaneStep

\* Every step but the creation and the finalization of a run is of that kind.
LEMMA WindowStep ==
  ASSUME TypeInv, [Next]_vars
  PROVE  \/ Windowless
         \/ \E w \in Workers : FinalizeCommit(w) /\ UNCHANGED now
         \/ \E w \in Workers, r \in RunIds : CreateRun(w, r)
<1>1. ASSUME NEW w \in Workers, WorkerStep(w)
      PROVE  \/ Windowless
             \/ FinalizeCommit(w) /\ UNCHANGED now
             \/ \E r \in RunIds : CreateRun(w, r)
  <2>1. ASSUME NEW r \in RunIds, ResumeRun(w, r)
        PROVE  Windowless
    BY <2>1, RowsResume
    DEF ResumeRun, Windowless, KeepsRows, KeepsRow, KeepsHeaders, env
  <2>2. CASE \/ DecideToCreate(w) \/ RejectRequest(w) \/ RefuseToCreate(w)
             \/ Discover(w) \/ SkipDiscovery(w) \/ ListPending(w)
             \/ SettleLanes(w) \/ CountItems(w) \/ CheckpointConflict(w)
             \/ ObserveSignal(w) \/ WindowSaturates(w)
    BY <2>2, WindowlessElsewhere
    DEF DecideToCreate, RejectRequest, RefuseToCreate, Discover,
        SkipDiscovery, ListPending, SettleLanes, CountItems,
        CheckpointConflict, ObserveSignal, WindowSaturates, env, db
  <2>3. CASE PersistManifest(w)
    BY <2>3, RowsPersist DEF PersistManifest, Windowless, env
  <2>4. CASE FinalizeRun(w)
    BY <2>4 DEF FinalizeRun, env
  <2>5. CASE RecordInterruption(w)
    BY <2>5, RowsInterruption
    DEF RecordInterruption, Windowless, KeepsRows, KeepsRow, KeepsHeaders, env
  <2>6. QED BY <1>1, <2>1, <2>2, <2>3, <2>4, <2>5 DEF WorkerStep
<1>2. ASSUME NEW w \in Workers, FaultStep(w)
      PROVE  Windowless \/ (FinalizeCommit(w) /\ UNCHANGED now)
  <2>1. CASE FinalizeAnswerLost(w)
    BY <2>1 DEF FinalizeAnswerLost, env
  <2>2. CASE ~FinalizeAnswerLost(w)
    BY <1>2, <2>2, WindowlessElsewhere
    DEF FaultStep, ItemError, MarkFails, BeginFails, StepFails, Crash, Signal,
        env, db
  <2>3. QED BY <2>1, <2>2
<1>3. ASSUME NEW w \in Workers, NEW req \in Requests, Start(w, req)
      PROVE  Windowless
  BY <1>3, WindowlessElsewhere DEF Start, env, db
<1>4. CASE \/ Tick \/ Burst \/ DropLock \/ UNCHANGED vars
           \/ \E s \in Songs, status \in SourceStatus : SourceChange(s, status)
  BY <1>4, WindowlessElsewhere
  DEF Tick, Burst, DropLock, SourceChange, env, db, vars
<1>5. QED BY <1>1, <1>2, <1>3, <1>4, WindowlessLane DEF Next

\* Time passes and runs go on: what holds of their windows still holds.
LEMMA CheckpointWindowless ==
  ASSUME TypeInv, CheckpointInv, Windowless
  PROVE  CheckpointInv'
<1>1. /\ runs \in [RunIds -> Run] /\ now \in Nat
      /\ state.checkpoint \in Int
  BY DEF TypeInv, RunsOK, CountersOK, StateOK
<1>2. \A r \in RunIds : runs[r].baseline \in Int /\ runs[r].end \in Int
  BY <1>1 DEF Run
<1>3. Timed' = Timed /\ \A r \in Timed : Target(r)' = Target(r)
  BY DEF Windowless, KeepsHeaders, KeepsHeader, Timed, Target
<1>4. \A r \in Timed : Target(r) \in Int
  BY <1>2 DEF Timed, Target
<1>5. now <= now' /\ now' \in Nat
  BY <1>1 DEF Windowless
<1>6. (state.checkpoint <= now)'
  BY <1>1, <1>5 DEF CheckpointInv, Windowless
<1>7. \A r \in RunIds :
        runs'[r].mode # "IDS" => runs'[r].expected <= state'.version
  BY DEF CheckpointInv, Windowless, KeepsHeaders, KeepsHeader
<1>8. \A r \in Timed' :
        /\ Target(r)' <= now'
        /\ runs'[r].expected = state'.version
             => state'.checkpoint <= Target(r)'
  BY <1>1, <1>3, <1>4, <1>5
  DEF CheckpointInv, Windowless, KeepsHeaders, KeepsHeader, Timed
<1>9. QED BY <1>6, <1>7, <1>8 DEF CheckpointInv

\* A new run expects the current version, and its target is not behind the
\* checkpoint: now for a seed, WindowEnd for an incremental run.
LEMMA CheckpointCreate ==
  ASSUME TypeInv, CheckpointInv, NEW w \in Workers, NEW r \in RunIds,
         CreateRun(w, r)
  PROVE  CheckpointInv'
<1> DEFINE mode == worker[w].mode
           row == NewRun(mode, worker[w].ids)
<1>1. /\ now' = now /\ state' = state
      /\ now \in Nat /\ state.checkpoint \in Int /\ state.version \in Int
  BY DEF CreateRun, env, TypeInv, CountersOK, StateOK
<1>2. /\ row.mode = mode
      /\ mode # "IDS" => row.expected = state.version
      /\ mode = "SEED" => row.baseline = now
      /\ mode = "INCREMENTAL" => row.end = WindowEnd
  BY DEF NewRun
<1>3. state.checkpoint <= WindowEnd /\ WindowEnd <= now
  BY <1>1, TimingAssumption DEF CheckpointInv, WindowEnd, MaxOf
<1>4. /\ runs'[r] = row
      /\ \A q \in RunIds : q # r => runs'[q] = runs[q]
  BY RowsCreate
<1> HIDE DEF row
<1>5. \A q \in RunIds :
        runs'[q].mode # "IDS" => runs'[q].expected <= state'.version
  BY <1>1, <1>2, <1>4 DEF CheckpointInv
<1>6. ASSUME NEW q \in Timed'
      PROVE  /\ Target(q)' <= now'
             /\ runs'[q].expected = state'.version
                  => state'.checkpoint <= Target(q)'
  <2>1. CASE q = r
    BY <1>1, <1>2, <1>3, <1>4, <1>6, <2>1 DEF CheckpointInv, Target, Timed
  <2>2. CASE q # r
    <3>1. q \in Timed /\ Target(q)' = Target(q)
      BY <1>4, <1>6, <2>2 DEF Timed, Target
    <3>2. runs'[q] = runs[q]
      BY <1>4, <1>6, <2>2 DEF Timed
    <3>3. QED BY <1>1, <3>1, <3>2 DEF CheckpointInv
  <2>3. QED BY <2>1, <2>2
<1>7. QED BY <1>1, <1>5, <1>6 DEF CheckpointInv

\* Finalizing moves the checkpoint to the run's target, and leaves every run
\* behind the new version.
LEMMA CheckpointCommit ==
  ASSUME TypeInv, CheckpointInv, NEW w \in Workers, FinalizeCommit(w),
         UNCHANGED now
  PROVE  CheckpointInv' /\ state'.checkpoint >= state.checkpoint
<1> DEFINE r == worker[w].run
<1>1. r \in RunIds /\ KeepsHeaders
  BY RowsCommit DEF KeepsHeaders
<1>2. CASE ~Advances(w)
  <2>1. Windowless
    BY <1>1, <1>2 DEF FinalizeCommit, Windowless
  <2>2. state.checkpoint \in Int /\ state' = state
    BY <2>1 DEF TypeInv, StateOK, Windowless
  <2>3. QED BY <2>1, <2>2, CheckpointWindowless
<1>3. CASE Advances(w)
  <2>1. /\ runs[r].mode # "IDS" /\ runs[r].expected = state.version
        /\ state' = AdvancedState(runs[r])
    BY <1>3 DEF Advances, VersionMatches, FinalizeCommit
  <2>2. /\ now \in Nat /\ state.checkpoint \in Int /\ state.version \in Int
        /\ runs[r] \in Run
    BY <1>1 DEF TypeInv, CountersOK, StateOK, RunsOK
  <2>3. runs[r].mode \in Modes /\ runs[r].baseline \in Int /\ runs[r].end \in Int
    BY <2>2 DEF Run
  <2>4. /\ state'.version = state.version + 1
        /\ r \in Timed => state'.checkpoint = Target(r)
        /\ r \notin Timed => state'.checkpoint = state.checkpoint
    BY <1>1, <2>1, <2>3 DEF AdvancedState, Timed, Target, Modes
  <2>5. state'.checkpoint >= state.checkpoint /\ state'.checkpoint <= now
    BY <2>1, <2>2, <2>4 DEF CheckpointInv
  <2>6. \A q \in RunIds : runs[q].expected \in Int
    BY DEF TypeInv, RunsOK, Run
  <2>7. \A q \in RunIds :
          runs'[q].mode # "IDS" => runs'[q].expected < state'.version
    BY <1>1, <2>2, <2>4, <2>6 DEF CheckpointInv, KeepsHeaders, KeepsHeader
  <2>8. Timed' = Timed /\ \A q \in Timed : Target(q)' = Target(q)
    BY <1>1 DEF KeepsHeaders, KeepsHeader, Timed, Target
  <2>9. \A q \in RunIds : runs'[q].expected = runs[q].expected
    BY <1>1 DEF KeepsHeaders, KeepsHeader
  <2>10. \A q \in RunIds :
           runs'[q].mode # "IDS" => runs'[q].expected <= state'.version
    BY <2>2, <2>4, <2>6, <2>7, <2>9
  <2>11. \A q \in Timed' :
           /\ Target(q)' <= now'
           /\ runs'[q].expected # state'.version
    BY <2>2, <2>4, <2>6, <2>7, <2>8, <2>9 DEF CheckpointInv, Timed
  <2>12. QED BY <2>5, <2>10, <2>11 DEF CheckpointInv
<1>4. QED BY <1>2, <1>3

\* No run has a window yet.
LEMMA CheckpointInit == Init => CheckpointInv
  BY DEF Init, CheckpointInv, Timed, FreeRun

\* Every step keeps the invariant and moves the checkpoint forwards, if at all.
LEMMA CheckpointNext ==
  ASSUME TypeInv, CheckpointInv, [Next]_vars
  PROVE  CheckpointInv' /\ state'.checkpoint >= state.checkpoint
<1>1. state.checkpoint \in Int
  BY DEF TypeInv, StateOK
<1>2. CASE Windowless
  BY <1>1, <1>2, CheckpointWindowless DEF Windowless
<1>3. CASE \E w \in Workers, r \in RunIds : CreateRun(w, r)
  <2>1. PICK w \in Workers, r \in RunIds : CreateRun(w, r)
    BY <1>3
  <2>2. state' = state
    BY <2>1 DEF CreateRun
  <2>3. QED BY <1>1, <2>1, <2>2, CheckpointCreate
<1>4. CASE \E w \in Workers : FinalizeCommit(w) /\ UNCHANGED now
  BY <1>4, CheckpointCommit
<1>5. QED BY <1>2, <1>3, <1>4, WindowStep

\* In every reachable state, with or without a lock that holds.
THEOREM CheckpointInvariant == Spec => [](TypeInv /\ CheckpointInv)
<1>1. Init => TypeInv /\ CheckpointInv
  BY TypeInit, CheckpointInit
<1>2. (TypeInv /\ CheckpointInv) /\ [Next]_vars => (TypeInv /\ CheckpointInv)'
  BY TypeNext, CheckpointNext
<1>3. QED BY <1>1, <1>2, PTL DEF Spec

\* Whatever runs overlap, and even when the lock's session is lost: the
\* checkpoint of the song sync never moves backwards, because a run's
\* finalization compares the version of the state row it was created under.
THEOREM MonotoneCheckpoint == Spec => CheckpointMonotone
<1>1. (TypeInv /\ CheckpointInv) /\ [Next]_vars =>
        [state'.checkpoint >= state.checkpoint]_vars
  BY CheckpointNext
<1>2. QED BY <1>1, CheckpointInvariant, PTL DEF Spec, CheckpointMonotone

-----------------------------------------------------------------------------
(***************************************************************************)
(* What the actions do to the workers and their lanes                      *)
(***************************************************************************)
\* Nobody but w moves.
OthersRest(w) ==
  \A v \in Workers \ {w} : worker'[v] = worker[v] /\ lane'[v] = lane[v]

\* A worker keeps its place and its run, and takes at most from its queue.
Proceeds(v) ==
  /\ worker'[v].pc = worker[v].pc /\ worker'[v].run = worker[v].run
  /\ worker'[v].found = worker[v].found
  /\ worker'[v].present = worker[v].present
  /\ worker'[v].queue \subseteq worker[v].queue
  /\ worker[v].stopped => worker'[v].stopped

\* Only one lane of w moves.
OtherLanesRest(w, l) ==
  /\ \A v \in Workers \ {w} : lane'[v] = lane[v]
  /\ \A k \in Lanes \ {l} : lane'[w][k] = lane[w][k]

\* A lane that goes to another stage keeps what it has fetched.
LaneGoes(w, l, stage) ==
  /\ OtherLanesRest(w, l)
  /\ lane'[w][l].stage = stage
  /\ lane'[w][l].song = lane[w][l].song
  /\ lane'[w][l].deleted = lane[w][l].deleted
  /\ lane'[w][l].ver = lane[w][l].ver

\* Setting a lane moves no other one.
LEMMA LaneSet ==
  ASSUME TypeInv, NEW w \in Workers, NEW l \in Lanes, NEW rec,
         SetLane(w, l, rec)
  PROVE  OtherLanesRest(w, l) /\ lane'[w][l] = rec
  BY DEF TypeInv, LanesOK, SetLane, OtherLanesRest

\* Moving a lane to a stage is LaneGoes.
LEMMA LaneStaged ==
  ASSUME TypeInv, NEW w \in Workers, NEW l \in Lanes, NEW stage,
         SetStage(w, l, stage)
  PROVE  LaneGoes(w, l, stage)
<1> DEFINE rec == [lane[w][l] EXCEPT !.stage = stage]
<1>1. lane[w][l] \in Lane /\ lane \in [Workers -> [Lanes -> Lane]]
  BY DEF TypeInv, LanesOK
<1>2. /\ rec.stage = stage /\ rec.song = lane[w][l].song
      /\ rec.deleted = lane[w][l].deleted /\ rec.ver = lane[w][l].ver
  BY <1>1 DEF Lane
<1>3. SetLane(w, l, rec)
  BY <1>1 DEF SetStage, SetLane
<1> HIDE DEF rec
<1>4. QED BY <1>2, <1>3, LaneSet DEF LaneGoes

\* A process that keeps its memory proceeds.
LEMMA ProceedsSame ==
  ASSUME NEW v, worker'[v] = worker[v]
  PROVE  Proceeds(v)
  BY DEF Proceeds

\* Giving one worker new memory leaves the others theirs.
LEMMA WorkerSet ==
  ASSUME TypeInv, NEW w \in Workers, NEW rec,
         worker' = [worker EXCEPT ![w] = rec]
  PROVE  worker'[w] = rec /\ Others(w)
  BY DEF TypeInv, WorkersOK, Others

\* Stopping the lanes leaves the worker where it is.
LEMMA ProceedsStop ==
  ASSUME TypeInv, NEW w \in Workers, NEW l \in Lanes, StopLanes(w, l)
  PROVE  /\ Proceeds(w) /\ Others(w) /\ worker'[w].stopped
         /\ OtherLanesRest(w, l) /\ lane'[w][l].stage = "idle"
<1> DEFINE rec == [worker[w] EXCEPT !.stopped = TRUE]
<1>1. worker[w] \in Worker
  BY DEF TypeInv, WorkersOK
<1>2. /\ rec.pc = worker[w].pc /\ rec.run = worker[w].run
      /\ rec.found = worker[w].found /\ rec.present = worker[w].present
      /\ rec.queue = worker[w].queue /\ rec.stopped = TRUE
  BY <1>1 DEF Worker
<1>3. worker' = [worker EXCEPT ![w] = rec]
  BY DEF StopLanes
<1> HIDE DEF rec
<1>4. worker'[w] = rec /\ Others(w)
  BY <1>3, WorkerSet
<1>5. OtherLanesRest(w, l) /\ lane'[w][l].stage = "idle"
  BY LaneSet, IdleLaneOK DEF StopLanes
<1>6. QED BY <1>2, <1>4, <1>5 DEF Proceeds

\* Taking an item shortens the queue by it.
LEMMA ProceedsTake ==
  ASSUME TypeInv, NEW w \in Workers, NEW s,
         worker' = [worker EXCEPT ![w].queue = @ \ {s}]
  PROVE  /\ Proceeds(w) /\ Others(w)
         /\ worker'[w].queue = worker[w].queue \ {s}
<1> DEFINE rec == [worker[w] EXCEPT !.queue = @ \ {s}]
<1>1. worker[w] \in Worker
  BY DEF TypeInv, WorkersOK
<1>2. /\ rec.pc = worker[w].pc /\ rec.run = worker[w].run
      /\ rec.found = worker[w].found /\ rec.present = worker[w].present
      /\ rec.queue = worker[w].queue \ {s}
      /\ rec.stopped = worker[w].stopped
  BY <1>1 DEF Worker
<1>3. worker' = [worker EXCEPT ![w] = rec]
  OBVIOUS
<1> HIDE DEF rec
<1>4. worker'[w] = rec /\ Others(w)
  BY <1>3, WorkerSet
<1>5. QED BY <1>2, <1>4 DEF Proceeds

\* A failed beginItem shortens the queue too, and stops the lanes.
LEMMA ProceedsBegin ==
  ASSUME TypeInv, NEW w \in Workers, NEW s,
         worker' = [worker EXCEPT ![w].queue = @ \ {s}, ![w].stopped = TRUE]
  PROVE  Proceeds(w) /\ Others(w) /\ worker'[w].stopped
<1> DEFINE rec == [worker[w] EXCEPT !.queue = @ \ {s}, !.stopped = TRUE]
<1>1. worker[w] \in Worker /\ worker \in [Workers -> Worker]
  BY DEF TypeInv, WorkersOK
<1>2. /\ rec.pc = worker[w].pc /\ rec.run = worker[w].run
      /\ rec.found = worker[w].found /\ rec.present = worker[w].present
      /\ rec.queue = worker[w].queue \ {s} /\ rec.stopped = TRUE
  BY <1>1 DEF Worker
<1>3. worker' = [worker EXCEPT ![w] = rec]
  BY <1>1
<1> HIDE DEF rec
<1>4. worker'[w] = rec /\ Others(w)
  BY <1>3, WorkerSet
<1>5. QED BY <1>2, <1>4 DEF Proceeds

\* A signal is only noted.
LEMMA ProceedsSignal ==
  ASSUME TypeInv, NEW w \in Workers, Signal(w)
  PROVE  /\ Proceeds(w) /\ OthersRest(w) /\ lane'[w] = lane[w]
         /\ worker'[w].queue = worker[w].queue
         /\ worker'[w].stopped = worker[w].stopped
         /\ worker'[w].verdict = worker[w].verdict
<1> DEFINE rec == [worker[w] EXCEPT !.aborted = TRUE]
<1>1. worker[w] \in Worker
  BY DEF TypeInv, WorkersOK
<1>2. /\ rec.pc = worker[w].pc /\ rec.run = worker[w].run
      /\ rec.found = worker[w].found /\ rec.present = worker[w].present
      /\ rec.queue = worker[w].queue /\ rec.stopped = worker[w].stopped
      /\ rec.verdict = worker[w].verdict
  BY <1>1 DEF Worker
<1>3. worker' = [worker EXCEPT ![w] = rec]
  BY DEF Signal
<1> HIDE DEF rec
<1>4. worker'[w] = rec /\ Others(w) /\ lane' = lane
  BY <1>3, WorkerSet DEF Signal
<1>5. QED BY <1>2, <1>4 DEF Proceeds, OthersRest, Others

\* A jump changes only the place.
LEMMA GotoSet ==
  ASSUME TypeInv, NEW w \in Workers, NEW pc, Goto(w, pc)
  PROVE  /\ worker'[w].pc = pc /\ worker'[w].run = worker[w].run
         /\ Others(w)
<1> DEFINE rec == [worker[w] EXCEPT !.pc = pc]
<1>1. worker[w] \in Worker
  BY DEF TypeInv, WorkersOK
<1>2. rec.pc = pc /\ rec.run = worker[w].run
  BY <1>1 DEF Worker
<1>3. worker' = [worker EXCEPT ![w] = rec]
  BY DEF Goto
<1> HIDE DEF rec
<1>4. QED BY <1>2, <1>3, WorkerSet

\* A process that ends leaves neither memory nor a busy lane.
LEMMA ExitSet ==
  ASSUME TypeInv, NEW w \in Workers, Exit(w)
  PROVE  /\ worker'[w].pc = "idle" /\ OthersRest(w)
         /\ \A l \in Lanes : lane'[w][l].stage = "idle"
  BY IdleWorkerOK, IdleLaneOK
  DEF TypeInv, WorkersOK, LanesOK, Exit, OthersRest

-----------------------------------------------------------------------------
(***************************************************************************)
(* No song is marked deleted that VocaDB has never deleted, with or        *)
(* without the lock                                                        *)
(***************************************************************************)
NonLive(s) == \E e \in activity : e.song = s /\ e.status # "live"

\* VocaDB has shown this song at some time.
Known(s) == upstream[s].status = "live" \/ NonLive(s)

SongKnown(s) ==
  /\ upstream[s].status = "deleted" => NonLive(s)
  /\ song[s].status # "NONE" => Known(s)
  /\ song[s].deleted => NonLive(s)

\* Why RECONCILE re-checks a song: it has a row, and the inventory has it, or
\* left it out because it was deleted, or by mistake.
Suspected(s, present) ==
  /\ song[s].status # "NONE"
  /\ s \in present \/ NonLive(s) \/ flaw = "inventory"

RunKnown(r) ==
  runs[r].mode = "RECONCILE" =>
    \A s \in Songs :
      runs[r].items[s] # "NONE" => Suspected(s, runs[r].present)

LaneKnown(w, l) ==
  LET s == lane[w][l].song
      run == runs[worker[w].run]
  IN
  /\ lane[w][l].stage # "idle" =>
       worker[w].pc = "processing" /\ run.items[s] # "NONE"
  /\ lane[w][l].stage = "fetched" =>
       Known(s) /\ (lane[w][l].deleted => NonLive(s))
  /\ lane[w][l].stage = "missing" /\ run.mode = "RECONCILE" =>
       NonLive(s) \/ flaw = "detail"

WorkerKnown(w) ==
  LET run == runs[worker[w].run] IN
  /\ worker[w].pc \notin EarlyPc => run.status # "FREE"
  /\ worker[w].pc = "processing" =>
       \A s \in worker[w].queue : run.items[s] # "NONE"
  /\ worker[w].pc = "discovered" /\ run.mode = "RECONCILE" =>
       \A s \in worker[w].found : Suspected(s, worker[w].present)
  /\ \A l \in Lanes : LaneKnown(w, l)

KnownInv ==
  /\ \A s \in Songs : SongKnown(s)
  /\ \A r \in RunIds : RunKnown(r)
  /\ \A w \in Workers : WorkerKnown(w)

\* What has been learnt is not forgotten.
Learns ==
  /\ flaw' = flaw
  /\ \A s \in Songs : NonLive(s) => NonLive(s)'
  /\ \A s \in Songs : Known(s) => Known(s)'
  /\ \A s \in Songs : song[s].status # "NONE" => song'[s].status # "NONE"
  /\ \A q \in RunIds : runs[q].status # "FREE" =>
       /\ runs'[q].status # "FREE"
       /\ runs'[q].mode = runs[q].mode
       /\ \A s \in Songs : runs[q].items[s] # "NONE" => runs'[q].items[s] # "NONE"

\* A step that writes neither a song nor a manifest.
Quiet ==
  /\ UNCHANGED <<song, upstream, activity, flaw>>
  /\ \A q \in RunIds :
       /\ KeepsHeader(q) /\ KeepsManifest(q)
       /\ runs[q].status # "FREE" => runs'[q].status # "FREE"

\* It forgets nothing, and what holds of the songs and of the runs still holds.
LEMMA KnownQuiet ==
  ASSUME KnownInv, Quiet
  PROVE  /\ Learns
         /\ \A s \in Songs : SongKnown(s)'
         /\ \A r \in RunIds : RunKnown(r)'
<1>1. \A s : (NonLive(s)' <=> NonLive(s)) /\ (Known(s)' <=> Known(s))
  BY DEF Quiet, NonLive, Known
<1>2. \A s, p : Suspected(s, p)' <=> Suspected(s, p)
  BY <1>1 DEF Quiet, Suspected
<1>3. Learns
  BY <1>1 DEF Quiet, Learns, KeepsHeader, KeepsManifest
<1>4. \A s \in Songs : SongKnown(s)'
  BY <1>1 DEF KnownInv, SongKnown, Quiet
<1>5. ASSUME NEW r \in RunIds
      PROVE  RunKnown(r)'
  <2>1. RunKnown(r)
    BY DEF KnownInv
  <2>2. /\ runs'[r].mode = runs[r].mode /\ runs'[r].items = runs[r].items
        /\ runs'[r].present = runs[r].present
    BY DEF Quiet, KeepsHeader, KeepsManifest
  <2>3. song' = song /\ flaw' = flaw
    BY DEF Quiet
  <2>4. QED BY <1>1, <2>1, <2>2, <2>3 DEF RunKnown, Suspected
<1>6. QED BY <1>3, <1>4, <1>5

\* What a worker's lane knows stays true while others learn.
LEMMA LaneRemembers ==
  ASSUME TypeInv, KnownInv, Learns, NEW v \in Workers, NEW l \in Lanes,
         Proceeds(v), lane'[v][l] = lane[v][l]
  PROVE  LaneKnown(v, l)'
<1> DEFINE s == lane[v][l].song
           r == worker[v].run
<1>1. CASE lane[v][l].stage = "idle"
  BY <1>1 DEF LaneKnown
<1>2. CASE lane[v][l].stage # "idle"
  <2>1. LaneKnown(v, l) /\ worker[v].pc = "processing" /\ s \in Songs
    BY <1>2 DEF KnownInv, WorkerKnown, LaneKnown, TypeInv, LanesOK, HasSong
  <2>2. r \in RunIds /\ runs[r].status # "FREE"
    BY <2>1, OwnRow DEF KnownInv, WorkerKnown, EarlyPc
  <2>3. worker'[v].pc = worker[v].pc /\ worker'[v].run = r
    BY DEF Proceeds
  <2>4. QED BY <2>1, <2>2, <2>3 DEF Learns, LaneKnown
<1>3. QED BY <1>1, <1>2

\* So does what the worker itself knows.
LEMMA WorkerRemembers ==
  ASSUME TypeInv, KnownInv, Learns, NEW v \in Workers, Proceeds(v),
         \A l \in Lanes : LaneKnown(v, l)'
  PROVE  WorkerKnown(v)'
<1> DEFINE r == worker[v].run
<1>1. WorkerKnown(v) /\ worker[v].found \in SUBSET Songs
      /\ worker[v].queue \in SUBSET Songs
  BY DEF KnownInv, TypeInv, WorkersOK, Worker
<1>2. worker'[v].pc = worker[v].pc /\ worker'[v].run = r
  BY DEF Proceeds
<1>3. CASE worker[v].pc \in EarlyPc
  BY <1>2, <1>3 DEF WorkerKnown, EarlyPc
<1>4. CASE worker[v].pc \notin EarlyPc
  <2>1. r \in RunIds /\ runs[r].status # "FREE"
    BY <1>1, <1>4, OwnRow DEF WorkerKnown
  <2>2. /\ runs'[r].status # "FREE" /\ runs'[r].mode = runs[r].mode
        /\ \A s \in Songs :
             runs[r].items[s] # "NONE" => runs'[r].items[s] # "NONE"
    BY <2>1 DEF Learns
  <2>3. /\ worker'[v].found = worker[v].found
        /\ worker'[v].present = worker[v].present
        /\ worker'[v].queue \subseteq worker[v].queue
    BY DEF Proceeds
  <2>4. worker'[v].pc = "processing" =>
          \A s \in worker'[v].queue : runs'[worker'[v].run].items[s] # "NONE"
    BY <1>1, <1>2, <2>2, <2>3 DEF WorkerKnown
  <2>5. worker'[v].pc = "discovered" /\ runs'[worker'[v].run].mode = "RECONCILE"
          => \A s \in worker'[v].found : Suspected(s, worker[v].present)'
    <3>1. ASSUME worker[v].pc = "discovered", runs[r].mode = "RECONCILE",
                 NEW s \in worker[v].found
          PROVE  Suspected(s, worker[v].present)'
      <4>1. Suspected(s, worker[v].present) /\ s \in Songs
        BY <1>1, <3>1 DEF WorkerKnown
      <4>2. QED BY <2>3, <4>1 DEF Learns, Suspected
    <3>2. QED BY <1>2, <2>2, <2>3, <3>1
  <2>6. QED BY <1>2, <2>2, <2>4, <2>5 DEF WorkerKnown
<1>5. QED BY <1>3, <1>4

\* A worker that rests knows what it knew.
LEMMA RestRemembers ==
  ASSUME TypeInv, KnownInv, Learns, NEW v \in Workers, Proceeds(v),
         lane'[v] = lane[v]
  PROVE  WorkerKnown(v)'
  BY LaneRemembers, WorkerRemembers

\* A step of one lane: the others remember.
LEMMA LaneLearns ==
  ASSUME TypeInv, KnownInv, Learns, NEW w \in Workers, NEW l \in Lanes,
         Proceeds(w), Others(w), OtherLanesRest(w, l), LaneKnown(w, l)'
  PROVE  \A v \in Workers : WorkerKnown(v)'
<1>1. \A k \in Lanes : LaneKnown(w, k)'
  BY LaneRemembers DEF OtherLanesRest
<1>2. WorkerKnown(w)'
  BY <1>1, WorkerRemembers
<1>3. ASSUME NEW v \in Workers \ {w}
      PROVE  WorkerKnown(v)'
  BY ProceedsSame, RestRemembers DEF Others, OtherLanesRest
<1>4. QED BY <1>2, <1>3

\* A step to a place where a worker knows nothing but its run.
LEMMA PlainLearns ==
  ASSUME TypeInv, KnownInv, Learns, NEW w \in Workers, OthersRest(w),
         worker'[w].pc \notin {"processing", "discovered"},
         worker'[w].pc \notin EarlyPc =>
           runs'[worker'[w].run].status # "FREE",
         \A l \in Lanes : lane'[w][l].stage = "idle"
  PROVE  \A v \in Workers : WorkerKnown(v)'
<1>1. WorkerKnown(w)'
  BY DEF WorkerKnown, LaneKnown
<1>2. ASSUME NEW v \in Workers \ {w}
      PROVE  WorkerKnown(v)'
  BY ProceedsSame, RestRemembers DEF OthersRest
<1>3. QED BY <1>1, <1>2

\* Outside of processing a worker's lanes are idle.
LEMMA LanesRest ==
  ASSUME KnownInv, NEW w \in Workers, worker[w].pc # "processing"
  PROVE  \A l \in Lanes : lane[w][l].stage = "idle"
  BY DEF KnownInv, WorkerKnown, LaneKnown

\* A change at VocaDB is learnt at once: the feed's entry says so.
LEMMA KnownChange ==
  ASSUME TypeInv, KnownInv, NEW s \in Songs, NEW status \in SourceStatus,
         SourceChange(s, status)
  PROVE  KnownInv'
<1> DEFINE entry == [song |-> s, at |-> now, status |-> status]
<1>1. /\ activity' = activity \cup {entry}
      /\ upstream \in [Songs -> [status : SourceStatus, changedAt : Int]]
      /\ upstream' = [upstream EXCEPT
                        ![s] = [status |-> status, changedAt |-> now]]
      /\ UNCHANGED <<song, runs, worker, lane, flaw>>
  BY DEF SourceChange, TypeInv, SourceOK, db, catalog, memory
<1>2. entry.song = s /\ entry.status = status
  OBVIOUS
<1> HIDE DEF entry
<1>3. \A t : NonLive(t) => NonLive(t)'
  BY <1>1 DEF NonLive
<1>4. status # "live" => NonLive(s)'
  BY <1>1, <1>2 DEF NonLive
<1>5. /\ upstream'[s].status = status
      /\ \A t \in Songs \ {s} : upstream'[t] = upstream[t]
  BY <1>1
<1>6. \A t \in Songs : Known(t) => Known(t)'
  BY <1>3, <1>4, <1>5 DEF Known
<1>7. Learns
  BY <1>1, <1>3, <1>6 DEF Learns
<1>8. \A t \in Songs : SongKnown(t)'
  BY <1>1, <1>3, <1>4, <1>5, <1>6 DEF KnownInv, SongKnown
<1>9. \A r \in RunIds : RunKnown(r)'
  BY <1>1, <1>3 DEF KnownInv, RunKnown, Suspected
<1>10. \A w \in Workers : WorkerKnown(w)'
  BY <1>1, <1>7, ProceedsSame, RestRemembers
<1>11. QED BY <1>8, <1>9, <1>10 DEF KnownInv

\* The inventory is known to be right, unless it is the flawed answer; so what
\* discovery suspects without reason is suspected because of it.
LEMMA KnownDiscover ==
  ASSUME TypeInv, KnownInv, NEW w \in Workers, Discover(w)
  PROVE  KnownInv'
<1> DEFINE r == worker[w].run
           Rec(found, present) ==
             [worker[w] EXCEPT !.pc = "discovered", !.found = found,
                               !.present = present]
<1>1. /\ worker[w] \in Worker /\ worker \in [Workers -> Worker]
      /\ worker[w].pc = "chosen"
  BY DEF TypeInv, WorkersOK, Discover
<1>2. UNCHANGED <<song, upstream, activity, flaw, runs, lane>>
  BY DEF Discover, env, db
<1>3. Quiet
  BY <1>2, RowsSame DEF Quiet, KeepsRows, KeepsRow
<1>4. /\ worker'[w].pc = "discovered" /\ worker'[w].run = r
      /\ Others(w)
      /\ runs[r].mode = "RECONCILE" =>
           \E inventory \in Inventories :
             /\ worker'[w].found = Suspects(inventory)
             /\ worker'[w].present = inventory
  <2>1. PICK found \in SUBSET Songs, present \in SUBSET Songs :
          worker' = [worker EXCEPT ![w] = Rec(found, present)]
    BY DiscoverEffect
  <2>2. worker'[w] = Rec(found, present) /\ Others(w)
    BY <2>1, WorkerSet
  <2>3. worker'[w].pc = "discovered" /\ worker'[w].run = r
    BY <1>1, <2>2 DEF Worker
  <2>4. ASSUME runs[r].mode = "RECONCILE"
        PROVE  \E inventory \in Inventories :
                 /\ worker'[w].found = Suspects(inventory)
                 /\ worker'[w].present = inventory
    <3>1. PICK inventory \in Inventories :
            worker' = [worker EXCEPT ![w].pc = "discovered",
                                     ![w].found = Suspects(inventory),
                                     ![w].present = inventory]
      BY <2>4 DEF Discover
    <3>2. worker'[w] = Rec(Suspects(inventory), inventory)
      BY <1>1, <3>1
    <3>3. /\ worker'[w].found = Suspects(inventory)
          /\ worker'[w].present = inventory
      BY <1>1, <3>2 DEF Worker
    <3>4. QED BY <3>3
  <2>5. QED BY <2>2, <2>3, <2>4
<1> HIDE DEF Rec
<1>5. ASSUME NEW inventory \in Inventories, NEW s \in Suspects(inventory)
      PROVE  Suspected(s, inventory)
  <2>1. s \in Songs /\ song[s].status # "NONE" /\ Known(s)
    BY DEF Suspects, KnownInv, SongKnown
  <2>2. CASE flaw = "inventory"
    BY <2>1, <2>2 DEF Suspected
  <2>3. CASE flaw # "inventory"
    BY <2>1, <2>3 DEF Inventories, Live, Suspected, Known
  <2>4. QED BY <2>2, <2>3
<1>6. Learns
  BY <1>3, KnownQuiet
<1>7. WorkerKnown(w)'
  <2>1. r \in RunIds /\ runs[r].status # "FREE"
    BY <1>1, OwnRow DEF KnownInv, WorkerKnown, EarlyPc
  <2>2. \A l \in Lanes : LaneKnown(w, l)'
    BY <1>1, <1>2, LanesRest DEF LaneKnown
  <2>3. runs[r].mode = "RECONCILE" =>
          \A s \in worker'[w].found : Suspected(s, worker[w].present)'
    BY <1>2, <1>4, <1>5 DEF Suspected, NonLive
  <2>4. QED BY <1>2, <1>4, <2>1, <2>2, <2>3 DEF WorkerKnown
<1>8. ASSUME NEW v \in Workers \ {w}
      PROVE  WorkerKnown(v)'
  BY <1>2, <1>4, <1>6, ProceedsSame, RestRemembers DEF Others
<1>9. QED BY <1>3, <1>7, <1>8, KnownQuiet DEF KnownInv

\* The manifest lists what discovery suspected, and what it has seen of it.
LEMMA KnownPersist ==
  ASSUME TypeInv, KnownInv, NEW w \in Workers, PersistManifest(w)
  PROVE  KnownInv'
<1>0. PICK r \in RunIds : r = worker[w].run
  BY OwnRow DEF PersistManifest, EarlyPc
<1> DEFINE fresh == {s \in worker[w].found : runs[r].items[s] = "NONE"}
           mem == [worker[w] EXCEPT !.pc = "listing", !.found = {},
                                    !.present = {}]
<1>1. /\ worker[w] \in Worker /\ worker[w].pc = "discovered"
      /\ UNCHANGED <<song, upstream, activity, flaw, lane>>
  BY DEF TypeInv, WorkersOK, PersistManifest, env, catalog
<1>2. runs[r].status # "FREE" /\ WorkerKnown(w)
  BY <1>0, <1>1 DEF KnownInv, WorkerKnown, EarlyPc
<1>3. worker'[w].pc = "listing" /\ worker'[w].run = r /\ Others(w)
  <2>1. mem.pc = "listing" /\ mem.run = r
    BY <1>0, <1>1 DEF Worker
  <2>2. worker' = [worker EXCEPT ![w] = mem]
    BY <1>1 DEF PersistManifest, TypeInv, WorkersOK
  <2> HIDE DEF mem
  <2>3. QED BY <2>1, <2>2, WorkerSet
<1> HIDE DEF mem
<1>4. /\ KeepsHeaders
      /\ \A q \in RunIds : q # r => runs'[q] = runs[q]
      /\ runs'[r].status = runs[r].status
      /\ runs'[r].present = runs[r].present \cup (fresh \cap worker[w].present)
      /\ \A s \in Songs : runs'[r].items[s] = IF s \in fresh THEN "PENDING"
                                              ELSE runs[r].items[s]
  BY <1>0, RowsPersist
<1>5. \A s : (NonLive(s)' <=> NonLive(s)) /\ (Known(s)' <=> Known(s))
  BY <1>1 DEF NonLive, Known
<1>6. Learns
  BY <1>1, <1>4, <1>5 DEF Learns, KeepsHeaders, KeepsHeader
<1>7. \A s \in Songs : SongKnown(s)'
  BY <1>1, <1>5 DEF KnownInv, SongKnown
<1>8. \A q \in RunIds \ {r} : RunKnown(q)'
  BY <1>1, <1>4, <1>5 DEF KnownInv, RunKnown, Suspected
<1>9. RunKnown(r)'
  <2>1. RunKnown(r) /\ runs'[r].mode = runs[r].mode
    BY <1>2, <1>4 DEF KnownInv, KeepsHeaders, KeepsHeader
  <2>2. ASSUME runs[r].mode = "RECONCILE", NEW s \in Songs,
               runs'[r].items[s] # "NONE"
        PROVE  Suspected(s, runs[r].present)'
    <3>1. CASE s \in fresh
      <4>1. Suspected(s, worker[w].present)
        BY <1>0, <1>1, <1>2, <2>2, <3>1 DEF WorkerKnown
      <4>2. QED BY <1>1, <1>4, <1>5, <3>1, <4>1 DEF Suspected
    <3>2. CASE s \notin fresh
      <4>1. Suspected(s, runs[r].present)
        BY <1>4, <2>1, <2>2, <3>2 DEF RunKnown
      <4>2. QED BY <1>1, <1>4, <1>5, <4>1 DEF Suspected
    <3>3. QED BY <3>1, <3>2
  <2>3. QED BY <2>1, <2>2 DEF RunKnown
<1>10. \A v \in Workers : WorkerKnown(v)'
  <2>1. OthersRest(w)
    BY <1>1, <1>3 DEF Others, OthersRest
  <2>2. \A l \in Lanes : lane'[w][l].stage = "idle"
    BY <1>1, LanesRest
  <2>3. runs'[r].status # "FREE"
    BY <1>2, <1>4
  <2>4. QED BY <1>3, <1>6, <2>1, <2>2, <2>3, PlainLearns
<1>11. QED BY <1>7, <1>8, <1>9, <1>10 DEF KnownInv

\* A new run lists nothing that would need a reason: RECONCILE starts empty.
LEMMA KnownCreate ==
  ASSUME TypeInv, KnownInv, NEW w \in Workers, NEW r \in RunIds,
         CreateRun(w, r)
  PROVE  KnownInv'
<1> DEFINE mem == [worker[w] EXCEPT !.pc = "chosen", !.run = r]
<1>1. /\ worker[w] \in Worker /\ worker[w].pc = "creating"
      /\ UNCHANGED <<song, upstream, activity, flaw, lane>>
  BY DEF TypeInv, WorkersOK, CreateRun, env, catalog
<1>2. /\ \A q \in RunIds : q # r => runs'[q] = runs[q]
      /\ runs'[r] = NewRun(worker[w].mode, worker[w].ids)
      /\ runs[r].status = "FREE"
  BY RowsCreate
<1>3. /\ runs'[r].status = "RUNNING"
      /\ runs'[r].mode = "RECONCILE" =>
           \A s \in Songs : runs'[r].items[s] = "NONE"
  BY <1>2 DEF NewRun
<1>4. worker'[w].pc = "chosen" /\ worker'[w].run = r /\ Others(w)
  <2>1. mem.pc = "chosen" /\ mem.run = r
    BY <1>1 DEF Worker
  <2>2. worker' = [worker EXCEPT ![w] = mem]
    BY <1>1 DEF CreateRun, TypeInv, WorkersOK
  <2> HIDE DEF mem
  <2>3. QED BY <2>1, <2>2, WorkerSet
<1> HIDE DEF mem
<1>5. \A s : (NonLive(s)' <=> NonLive(s)) /\ (Known(s)' <=> Known(s))
  BY <1>1 DEF NonLive, Known
<1>6. Learns
  BY <1>1, <1>2, <1>5 DEF Learns
<1>7. \A s \in Songs : SongKnown(s)'
  BY <1>1, <1>5 DEF KnownInv, SongKnown
<1>8. \A q \in RunIds : RunKnown(q)'
  BY <1>1, <1>2, <1>3, <1>5 DEF KnownInv, RunKnown, Suspected
<1>9. OthersRest(w) /\ \A l \in Lanes : lane'[w][l].stage = "idle"
  BY <1>1, <1>4, LanesRest DEF Others, OthersRest
<1>10. \A v \in Workers : WorkerKnown(v)'
  BY <1>3, <1>4, <1>6, <1>9, PlainLearns
<1>11. QED BY <1>7, <1>8, <1>10 DEF KnownInv

\* The queue is what the manifest lists as PENDING.
LEMMA KnownListPending ==
  ASSUME TypeInv, KnownInv, NEW w \in Workers, ListPending(w)
  PROVE  KnownInv'
<1>0. PICK r \in RunIds : r = worker[w].run
  BY OwnRow DEF ListPending, EarlyPc
<1> DEFINE queue == {s \in Songs : runs[r].items[s] = "PENDING"}
           mem == [worker[w] EXCEPT !.pc = "processing", !.queue = queue]
<1>1. /\ worker[w] \in Worker /\ worker[w].pc = "listing"
      /\ UNCHANGED <<song, upstream, activity, flaw, runs, lane>>
  BY DEF TypeInv, WorkersOK, ListPending, env, db
<1>2. /\ worker'[w].pc = "processing" /\ worker'[w].run = r
      /\ worker'[w].queue = queue /\ Others(w)
  <2>1. mem.pc = "processing" /\ mem.run = r /\ mem.queue = queue
    BY <1>0, <1>1 DEF Worker
  <2>2. worker' = [worker EXCEPT ![w] = mem]
    BY <1>0, <1>1 DEF ListPending, TypeInv, WorkersOK
  <2> HIDE DEF mem
  <2>3. QED BY <2>1, <2>2, WorkerSet
<1> HIDE DEF mem
<1>3. Quiet
  BY <1>1, RowsSame DEF Quiet, KeepsRows, KeepsRow
<1>4. Learns
  BY <1>3, KnownQuiet
<1>5. WorkerKnown(w)'
  <2>1. runs[r].status # "FREE"
    BY <1>0, <1>1 DEF KnownInv, WorkerKnown, EarlyPc
  <2>2. \A l \in Lanes : LaneKnown(w, l)'
    BY <1>1, LanesRest DEF LaneKnown
  <2>3. QED BY <1>1, <1>2, <2>1, <2>2 DEF WorkerKnown
<1>6. ASSUME NEW v \in Workers \ {w}
      PROVE  WorkerKnown(v)'
  BY <1>1, <1>2, <1>4, ProceedsSame, RestRemembers DEF Others
<1>7. QED BY <1>3, <1>5, <1>6, KnownQuiet DEF KnownInv

\* A step that writes nothing and leaves its worker elsewhere.
LEMMA KnownMoves ==
  ASSUME TypeInv, KnownInv, Quiet, NEW w \in Workers, OthersRest(w),
         worker'[w].pc \notin {"processing", "discovered"},
         worker'[w].pc \notin EarlyPc =>
           runs'[worker'[w].run].status # "FREE",
         \A l \in Lanes : lane'[w][l].stage = "idle"
  PROVE  KnownInv'
  BY KnownQuiet, PlainLearns DEF KnownInv

\* A step of a lane that writes nothing.
LEMMA KnownLane ==
  ASSUME TypeInv, KnownInv, Quiet, NEW w \in Workers, NEW l \in Lanes,
         Proceeds(w), Others(w), OtherLanesRest(w, l), LaneKnown(w, l)'
  PROVE  KnownInv'
  BY KnownQuiet, LaneLearns DEF KnownInv

\* What a busy lane knows.
LEMMA BusyLane ==
  ASSUME TypeInv, KnownInv, NEW w \in Workers, NEW l \in Lanes,
         lane[w][l].stage # "idle"
  PROVE  /\ worker[w].pc = "processing"
         /\ lane[w][l].song \in Songs
         /\ worker[w].run \in RunIds
         /\ runs[worker[w].run].status # "FREE"
         /\ runs[worker[w].run].items[lane[w][l].song] # "NONE"
         /\ LaneKnown(w, l)
<1>1. LaneKnown(w, l) /\ WorkerKnown(w)
  BY DEF KnownInv, WorkerKnown
<1>2. /\ worker[w].pc = "processing"
      /\ runs[worker[w].run].items[lane[w][l].song] # "NONE"
  BY <1>1 DEF LaneKnown
<1>3. lane[w][l].song \in Songs
  BY DEF TypeInv, LanesOK, HasSong
<1>4. worker[w].run \in RunIds /\ runs[worker[w].run].status # "FREE"
  BY <1>1, <1>2, OwnRow DEF WorkerKnown, EarlyPc
<1>5. QED BY <1>1, <1>2, <1>3, <1>4

\* A song transaction keeps what is known, if what it writes is known.
LEMMA KnownWrite ==
  ASSUME TypeInv, KnownInv, NEW w \in Workers, NEW l \in Lanes,
         NEW row \in LocalRow, NEW stage,
         stage \in {"synced", "confirmed", "marked"},
         lane[w][l].stage # "idle", WriteSong(w, lane[w][l].song, row),
         LaneGoes(w, l, stage), UNCHANGED <<env, worker>>,
         song[lane[w][l].song].status # "NONE" => row.status # "NONE",
         row.status # "NONE" => Known(lane[w][l].song),
         row.deleted => NonLive(lane[w][l].song)
  PROVE  KnownInv'
<1>0. PICK s \in Songs : s = lane[w][l].song
  BY BusyLane
<1>1. /\ worker[w].pc = "processing" /\ worker[w].run \in RunIds
      /\ runs[worker[w].run].items[s] # "NONE"
  BY <1>0, BusyLane
<1>2. KeepsRows
  BY <1>1, RowsWrite DEF EarlyPc
<1>3. song' = [song EXCEPT ![s] = row] /\ song \in [Songs -> LocalRow]
  BY <1>0 DEF WriteSong, TypeInv, SongsOK
<1>4. /\ song'[s] = row
      /\ \A t \in Songs \ {s} : song'[t] = song[t]
  BY <1>3
<1>5. UNCHANGED <<upstream, activity, flaw>>
  BY DEF env
<1>6. \A t : (NonLive(t)' <=> NonLive(t)) /\ (Known(t)' <=> Known(t))
  BY <1>5 DEF NonLive, Known
<1>7. \A t \in Songs : song[t].status # "NONE" => song'[t].status # "NONE"
  BY <1>0, <1>4
<1>8. Learns
  BY <1>2, <1>5, <1>6, <1>7
  DEF Learns, KeepsRows, KeepsRow, KeepsHeader, KeepsManifest
<1>9. \A t \in Songs : SongKnown(t)'
  <2>1. \A t \in Songs \ {s} : SongKnown(t)'
    BY <1>4, <1>5, <1>6 DEF KnownInv, SongKnown
  <2>2. SongKnown(s)'
    BY <1>0, <1>4, <1>5, <1>6 DEF KnownInv, SongKnown
  <2>3. QED BY <2>1, <2>2
<1>10. ASSUME NEW q \in RunIds
       PROVE  RunKnown(q)'
  <2>1. RunKnown(q)
    BY DEF KnownInv
  <2>2. /\ runs'[q].mode = runs[q].mode /\ runs'[q].items = runs[q].items
        /\ runs'[q].present = runs[q].present
    BY <1>2 DEF KeepsRows, KeepsRow, KeepsHeader, KeepsManifest
  <2>3. QED BY <1>5, <1>6, <1>7, <2>1, <2>2 DEF RunKnown, Suspected
<1>11. LaneKnown(w, l)'
  <2>1. runs'[worker[w].run].items = runs[worker[w].run].items
    BY <1>1, <1>2 DEF KeepsRows, KeepsRow, KeepsManifest
  <2>2. lane'[w][l].song = s /\ lane'[w][l].stage = stage
    BY <1>0 DEF LaneGoes
  <2>3. QED BY <1>1, <2>1, <2>2 DEF LaneKnown
<1>12. \A v \in Workers : WorkerKnown(v)'
  BY <1>8, <1>11, ProceedsSame, LaneLearns DEF LaneGoes, Others
<1>13. QED BY <1>9, <1>10, <1>12 DEF KnownInv

\* Settling an item takes nothing off the manifest.
LEMMA KnownItem ==
  ASSUME TypeInv, KnownInv, NEW w \in Workers, NEW l \in Lanes, NEW status,
         status # "NONE", lane[w][l].stage # "idle", SetItem(w, l, status),
         SetLane(w, l, IdleLane), UNCHANGED <<env, song, worker>>
  PROVE  KnownInv'
<1>0. PICK r \in RunIds : r = worker[w].run
  BY BusyLane
<1>1. /\ lane[w][l].song \in Songs /\ worker[w].pc = "processing"
      /\ runs[r].items[lane[w][l].song] # "NONE"
  BY <1>0, BusyLane
<1>2. /\ KeepsHeaders
      /\ \A q \in RunIds : q # r => runs'[q] = runs[q]
      /\ runs'[r].status = runs[r].status
      /\ runs'[r].present = runs[r].present
      /\ \A s \in Songs :
           runs'[r].items[s] = IF s = lane[w][l].song THEN status
                               ELSE runs[r].items[s]
  BY <1>0, <1>1, RowsItem
<1>3. UNCHANGED <<upstream, activity, flaw, song>>
  BY DEF env
<1>4. \A t : (NonLive(t)' <=> NonLive(t)) /\ (Known(t)' <=> Known(t))
  BY <1>3 DEF NonLive, Known
<1>5. \A s \in Songs : runs'[r].items[s] # "NONE" <=> runs[r].items[s] # "NONE"
  BY <1>1, <1>2
<1>6. Learns
  BY <1>2, <1>3, <1>4, <1>5 DEF Learns, KeepsHeaders, KeepsHeader
<1>7. \A t \in Songs : SongKnown(t)'
  BY <1>3, <1>4 DEF KnownInv, SongKnown
<1>8. RunKnown(r)'
  BY <1>2, <1>3, <1>4, <1>5
  DEF KnownInv, RunKnown, Suspected, KeepsHeaders, KeepsHeader
<1>9. \A q \in RunIds \ {r} : RunKnown(q)'
  BY <1>2, <1>3, <1>4 DEF KnownInv, RunKnown, Suspected
<1>10. OtherLanesRest(w, l) /\ LaneKnown(w, l)'
  BY LaneSet, IdleLaneOK DEF LaneKnown
<1>11. \A v \in Workers : WorkerKnown(v)'
  BY <1>6, <1>10, ProceedsSame, LaneLearns DEF Others
<1>12. QED BY <1>7, <1>8, <1>9, <1>11 DEF KnownInv

\* A step that leaves the database and the environment alone is quiet.
LEMMA QuietElsewhere ==
  ASSUME UNCHANGED <<song, runs, env>>
  PROVE  Quiet
  BY RowsSame DEF Quiet, KeepsRows, KeepsRow, env

\* A lane takes an item that the manifest lists.
LEMMA KnownTakeItem ==
  ASSUME TypeInv, KnownInv, NEW w \in Workers, NEW l \in Lanes,
         NEW s \in Songs, TakeItem(w, l, s)
  PROVE  KnownInv'
<1> DEFINE rec == [IdleLane EXCEPT !.stage = "begun", !.song = s]
<1>1. rec.stage = "begun" /\ rec.song = s
  BY DEF IdleLane
<1>2. SetLane(w, l, rec) /\ worker[w].pc = "processing" /\ s \in worker[w].queue
  BY DEF TakeItem, AtStage, NextInQueue
<1> HIDE DEF rec
<1>3. OtherLanesRest(w, l) /\ lane'[w][l] = rec
  BY <1>2, LaneSet
<1>4. Proceeds(w) /\ Others(w)
  BY ProceedsTake DEF TakeItem
<1>5. Quiet /\ runs' = runs
  BY QuietElsewhere DEF TakeItem, db
<1>6. runs[worker[w].run].items[s] # "NONE"
  BY <1>2 DEF KnownInv, WorkerKnown
<1>7. LaneKnown(w, l)'
  BY <1>1, <1>2, <1>3, <1>4, <1>5, <1>6 DEF LaneKnown, Proceeds
<1>8. QED BY <1>3, <1>4, <1>5, <1>7, KnownLane

\* A lane learns what the detail request says.
LEMMA KnownFetchSong ==
  ASSUME TypeInv, KnownInv, NEW w \in Workers, NEW l \in Lanes,
         FetchSong(w, l)
  PROVE  KnownInv'
<1> DEFINE s == lane[w][l].song
           rec == [lane[w][l] EXCEPT !.stage = "fetched",
                                     !.deleted = (upstream[s].status = "deleted"),
                                     !.ver = upstream[s].changedAt]
<1>1. /\ lane[w][l].stage # "idle" /\ lane[w][l] \in Lane
      /\ upstream[s].status # "gone"
      /\ SetLane(w, l, rec) /\ worker' = worker
  BY DEF FetchSong, AtStage, TypeInv, LanesOK
<1>2. /\ s \in Songs /\ worker[w].pc = "processing"
      /\ runs[worker[w].run].items[s] # "NONE"
  BY <1>1, BusyLane
<1>3. /\ rec.stage = "fetched" /\ rec.song = s
      /\ rec.deleted <=> upstream[s].status = "deleted"
  BY <1>1 DEF Lane
<1>4. OtherLanesRest(w, l) /\ lane'[w][l] = rec
  BY <1>1, LaneSet
<1>5. Quiet /\ runs' = runs /\ UNCHANGED <<upstream, activity>>
  BY QuietElsewhere DEF FetchSong, db, env
<1>6. Known(s) /\ (upstream[s].status = "deleted" => NonLive(s))
  <2>1. upstream[s].status \in SourceStatus
    BY <1>2 DEF TypeInv, SourceOK
  <2>2. QED BY <1>1, <1>2, <2>1 DEF KnownInv, SongKnown, Known, SourceStatus
<1>7. LaneKnown(w, l)'
  <2>1. /\ lane'[w][l].stage = "fetched" /\ lane'[w][l].song = s
        /\ lane'[w][l].deleted <=> upstream[s].status = "deleted"
    BY <1>3, <1>4
  <2>2. QED BY <1>1, <1>2, <1>5, <1>6, <2>1 DEF LaneKnown, Known, NonLive
<1>8. QED BY <1>1, <1>4, <1>5, <1>7, KnownLane, ProceedsSame DEF Others

\* A 404 is an answer that is wrong, or one about a song that VocaDB has shown
\* and deleted; an IDS, SEED or INCREMENTAL run does not act on it.
LEMMA KnownFetchNotFound ==
  ASSUME TypeInv, KnownInv, NEW w \in Workers, NEW l \in Lanes,
         FetchNotFound(w, l)
  PROVE  KnownInv'
<1> DEFINE s == lane[w][l].song
<1>1. /\ lane[w][l].stage # "idle" /\ worker' = worker
      /\ upstream[s].status = "gone" \/ flaw = "detail"
      /\ LaneGoes(w, l, "missing")
  BY LaneStaged DEF FetchNotFound, AtStage
<1>2. /\ s \in Songs /\ worker[w].pc = "processing"
      /\ worker[w].run \in RunIds
      /\ runs[worker[w].run].items[s] # "NONE"
  BY <1>1, BusyLane
<1>3. Quiet /\ runs' = runs /\ UNCHANGED <<upstream, activity, flaw>>
  BY QuietElsewhere DEF FetchNotFound, db, env
<1>4. runs[worker[w].run].mode = "RECONCILE" => NonLive(s) \/ flaw = "detail"
  <2>1. RunKnown(worker[w].run) /\ SongKnown(s)
    BY <1>2 DEF KnownInv
  <2>2. runs[worker[w].run].mode = "RECONCILE" => Known(s)
    BY <1>2, <2>1 DEF RunKnown, Suspected, SongKnown
  <2>3. QED BY <1>1, <2>2 DEF Known
<1>5. LaneKnown(w, l)'
  <2>1. lane'[w][l].stage = "missing" /\ lane'[w][l].song = s
    BY <1>1 DEF LaneGoes
  <2>2. QED BY <1>1, <1>2, <1>3, <1>4, <2>1 DEF LaneKnown, NonLive
<1>6. OtherLanesRest(w, l)
  BY <1>1 DEF LaneGoes
<1>7. QED BY <1>1, <1>3, <1>5, <1>6, KnownLane, ProceedsSame DEF Others

\* A failed request leaves its lane where nothing more is known.
LEMMA KnownItemError ==
  ASSUME TypeInv, KnownInv, NEW w \in Workers, NEW l \in Lanes,
         ItemError(w, l)
  PROVE  KnownInv'
<1>1. lane[w][l].stage # "idle" /\ Quiet /\ runs' = runs
  BY QuietElsewhere DEF ItemError, AtStage, db
<1>2. CASE SetStage(w, l, "failing") /\ UNCHANGED worker
  <2>1. LaneGoes(w, l, "failing")
    BY <1>2, LaneStaged
  <2>2. LaneKnown(w, l)'
    <3>1. /\ lane'[w][l].stage = "failing"
          /\ lane'[w][l].song = lane[w][l].song
      BY <2>1 DEF LaneGoes
    <3>2. QED BY <1>1, <1>2, <3>1, BusyLane DEF LaneKnown
  <2>3. QED BY <1>1, <1>2, <2>1, <2>2, KnownLane, ProceedsSame
            DEF LaneGoes, Others
<1>3. CASE StopLanes(w, l)
  BY <1>1, <1>3, ProceedsStop, KnownLane DEF LaneKnown
<1>4. QED BY <1>2, <1>3 DEF ItemError

\* Stopping the lanes is quiet.
LEMMA KnownStop ==
  ASSUME TypeInv, KnownInv, NEW w \in Workers, NEW l \in Lanes,
         StopLanes(w, l), UNCHANGED <<env, db>>
  PROVE  KnownInv'
<1>1. Quiet
  BY QuietElsewhere DEF db
<1>2. QED BY <1>1, ProceedsStop, KnownLane DEF LaneKnown

\* beginItem fails: the item is off the queue, and no lane has it.
LEMMA KnownBeginFails ==
  ASSUME TypeInv, KnownInv, NEW w \in Workers, NEW l \in Lanes,
         NEW s \in Songs, BeginFails(w, l, s)
  PROVE  KnownInv'
<1>1. Quiet /\ lane' = lane
  BY QuietElsewhere DEF BeginFails, db
<1>2. Proceeds(w) /\ Others(w)
  BY ProceedsBegin DEF BeginFails
<1>3. LaneKnown(w, l)'
  BY <1>1, <1>2, KnownQuiet, LaneRemembers
<1>4. QED BY <1>1, <1>2, <1>3, KnownLane DEF OtherLanesRest

\* A signal is quiet, with or without lanes.
LEMMA KnownSignal ==
  ASSUME TypeInv, KnownInv, NEW w \in Workers, Signal(w)
  PROVE  KnownInv'
<1>1. Quiet /\ Learns
  BY QuietElsewhere, KnownQuiet DEF Signal, db
<1>2. \A v \in Workers : Proceeds(v) /\ lane'[v] = lane[v]
  BY ProceedsSignal, ProceedsSame DEF OthersRest
<1>3. QED BY <1>1, <1>2, KnownQuiet, RestRemembers DEF KnownInv

\* The row a sync writes is what the lane has fetched.
LEMMA KnownSyncSong ==
  ASSUME TypeInv, KnownInv, NEW w \in Workers, NEW l \in Lanes,
         SyncSong(w, l)
  PROVE  KnownInv'
<1> DEFINE got == lane[w][l]
           row == [status |-> IF got.deleted THEN "SOURCE_DELETED"
                                             ELSE "SYNCED",
                   deleted |-> got.deleted, ver |-> got.ver]
<1>1. /\ got.stage = "fetched" /\ WriteSong(w, got.song, row)
      /\ LaneGoes(w, l, "synced") /\ UNCHANGED <<env, worker>>
  BY LaneStaged DEF SyncSong, AtStage
<1>2. got \in Lane
  BY DEF TypeInv, LanesOK
<1>3. row \in LocalRow /\ row.status # "NONE" /\ row.deleted = got.deleted
  BY <1>2 DEF Lane, LocalRow, LocalStatus
<1>4. Known(got.song) /\ (got.deleted => NonLive(got.song))
  BY <1>1, BusyLane DEF LaneKnown
<1> HIDE DEF row
<1>5. QED BY <1>1, <1>3, <1>4, KnownWrite

\* A deletion is confirmed by two answers, of which one was right: the song was
\* deleted, whichever of the two endpoints is flawed.
LEMMA KnownMarkDeleted ==
  ASSUME TypeInv, KnownInv, NEW w \in Workers, NEW l \in Lanes,
         MarkDeleted(w, l)
  PROVE  KnownInv'
<1>0. PICK s : s = lane[w][l].song
  OBVIOUS
<1> DEFINE row == IF song[s].status = "NONE" THEN song[s]
                  ELSE [song[s] EXCEPT !.status = "SOURCE_DELETED",
                                       !.deleted = TRUE]
<1>1. /\ lane[w][l].stage = "missing" /\ WriteSong(w, s, row)
      /\ runs[worker[w].run].mode = "RECONCILE"
      /\ s \notin runs[worker[w].run].present
      /\ LaneGoes(w, l, "confirmed") /\ UNCHANGED <<env, worker>>
  BY <1>0, LaneStaged DEF MarkDeleted, AtStage, ConfirmsDeletion
<1>2. /\ s \in Songs /\ worker[w].run \in RunIds
      /\ runs[worker[w].run].items[s] # "NONE" /\ LaneKnown(w, l)
  BY <1>0, <1>1, BusyLane
<1>3. song[s] \in LocalRow
  BY <1>2 DEF TypeInv, SongsOK
<1>4. row \in LocalRow /\ (song[s].status # "NONE" => row.status # "NONE")
  BY <1>3 DEF LocalRow, LocalStatus
<1>5. NonLive(s)
  <2>1. NonLive(s) \/ flaw = "detail"
    BY <1>0, <1>1, <1>2 DEF LaneKnown
  <2>2. Suspected(s, runs[worker[w].run].present)
    BY <1>1, <1>2 DEF KnownInv, RunKnown
  <2>3. QED BY <1>1, <2>1, <2>2 DEF Suspected
<1> HIDE DEF row
<1>6. QED BY <1>0, <1>1, <1>4, <1>5, KnownWrite DEF Known

\* A failure changes a row's status and nothing else of it.
LEMMA KnownMarkFailure ==
  ASSUME TypeInv, KnownInv, NEW w \in Workers, NEW l \in Lanes,
         MarkFailure(w, l)
  PROVE  KnownInv'
<1>0. PICK s : s = lane[w][l].song
  OBVIOUS
<1> DEFINE row == IF song[s].status = "NONE" THEN song[s]
                  ELSE [song[s] EXCEPT !.status =
                          IF lane[w][l].stage = "missing"
                            THEN "SOURCE_MISSING" ELSE "FAILED"]
<1>1. /\ lane[w][l].stage # "idle" /\ WriteSong(w, s, row)
      /\ LaneGoes(w, l, "marked") /\ UNCHANGED <<env, worker>>
  BY <1>0, LaneStaged DEF MarkFailure, AtStage
<1>2. s \in Songs /\ SongKnown(s)
  BY <1>0, <1>1, BusyLane DEF KnownInv
<1>3. song[s] \in LocalRow
  BY <1>2 DEF TypeInv, SongsOK
<1>4. /\ row \in LocalRow
      /\ row.status # "NONE" <=> song[s].status # "NONE"
      /\ row.deleted = song[s].deleted
  BY <1>3 DEF LocalRow, LocalStatus
<1> HIDE DEF row
<1>5. QED BY <1>0, <1>1, <1>2, <1>4, KnownWrite DEF SongKnown

\* A step that keeps the rows of the runs and every song is quiet.
LEMMA QuietRows ==
  ASSUME KeepsRows, UNCHANGED <<song, env>>
  PROVE  Quiet
  BY DEF Quiet, KeepsRows, KeepsRow, env

\* Finalizing changes the status of a run that exists, and no song.
LEMMA QuietCommit ==
  ASSUME TypeInv, NEW w \in Workers, FinalizeCommit(w),
         UNCHANGED <<song, env>>
  PROVE  Quiet /\ runs'[worker[w].run].status # "FREE"
<1>1. /\ worker[w].run \in RunIds
      /\ worker[w].verdict \in Terminal
      /\ \A q \in RunIds : KeepsHeader(q) /\ KeepsManifest(q)
      /\ \A q \in RunIds : q # worker[w].run => runs'[q] = runs[q]
      /\ runs'[worker[w].run].status = worker[w].verdict
  BY RowsCommit
<1>2. worker[w].verdict # "FREE"
  BY <1>1 DEF Terminal
<1>3. QED BY <1>1, <1>2 DEF Quiet, env

\* A worker that ends, whatever it has written to the runs.
LEMMA KnownExit ==
  ASSUME TypeInv, KnownInv, Quiet, NEW w \in Workers, Exit(w)
  PROVE  KnownInv'
  BY ExitSet, KnownMoves DEF EarlyPc

\* A worker that jumps from where its lanes are idle.
LEMMA KnownJump ==
  ASSUME TypeInv, KnownInv, Quiet, NEW w \in Workers, NEW pc,
         worker[w].pc # "processing", Goto(w, pc), lane' = lane,
         pc \notin {"processing", "discovered"},
         worker[w].pc \in EarlyPc => pc \in EarlyPc
  PROVE  KnownInv'
<1>1. /\ worker'[w].pc = pc /\ worker'[w].run = worker[w].run /\ Others(w)
  BY GotoSet
<1>2. OthersRest(w) /\ \A l \in Lanes : lane'[w][l].stage = "idle"
  BY <1>1, LanesRest DEF Others, OthersRest
<1>3. pc \notin EarlyPc => runs'[worker[w].run].status # "FREE"
  <2>1. ASSUME pc \notin EarlyPc
        PROVE  worker[w].run \in RunIds /\ runs[worker[w].run].status # "FREE"
    BY <2>1, OwnRow DEF KnownInv, WorkerKnown
  <2>2. QED BY <2>1 DEF Quiet
<1>4. QED BY <1>1, <1>2, <1>3, KnownMoves

\* Taking up a RUNNING run is quiet.
LEMMA KnownResumeRun ==
  ASSUME TypeInv, KnownInv, NEW w \in Workers, NEW r \in RunIds,
         ResumeRun(w, r)
  PROVE  KnownInv'
<1> DEFINE mem == [worker[w] EXCEPT !.pc = "chosen", !.run = r]
<1>1. /\ worker[w] \in Worker /\ worker[w].pc = "locked"
      /\ runs[r].status = "RUNNING" /\ lane' = lane
  BY DEF TypeInv, WorkersOK, ResumeRun, Running
<1>2. worker'[w].pc = "chosen" /\ worker'[w].run = r /\ Others(w)
  <2>1. mem.pc = "chosen" /\ mem.run = r
    BY <1>1 DEF Worker
  <2>2. worker' = [worker EXCEPT ![w] = mem]
    BY <1>1 DEF ResumeRun, TypeInv, WorkersOK
  <2> HIDE DEF mem
  <2>3. QED BY <2>1, <2>2, WorkerSet
<1> HIDE DEF mem
<1>3. Quiet
  BY RowsResume, QuietRows DEF ResumeRun, catalog
<1>4. runs'[r].status # "FREE"
  BY <1>1, <1>3 DEF Quiet
<1>5. OthersRest(w) /\ \A l \in Lanes : lane'[w][l].stage = "idle"
  BY <1>1, <1>2, LanesRest DEF Others, OthersRest
<1>6. QED BY <1>2, <1>3, <1>4, <1>5, KnownMoves

\* When every lane is done, nothing is left to know of them.
LEMMA KnownSettleLanes ==
  ASSUME TypeInv, KnownInv, NEW w \in Workers, SettleLanes(w)
  PROVE  KnownInv'
<1> DEFINE mem == [worker[w] EXCEPT !.pc = AfterLanes(w), !.queue = {}]
<1>1. /\ worker[w] \in Worker /\ worker[w].pc = "processing"
      /\ \A l \in Lanes : lane'[w][l].stage = "idle"
      /\ lane' = lane /\ runs' = runs
  BY DEF TypeInv, WorkersOK, SettleLanes, db
<1>2. /\ worker'[w].pc = AfterLanes(w) /\ worker'[w].run = worker[w].run
      /\ Others(w)
  <2>1. mem.pc = AfterLanes(w) /\ mem.run = worker[w].run
    BY <1>1 DEF Worker
  <2>2. worker' = [worker EXCEPT ![w] = mem]
    BY <1>1 DEF SettleLanes, TypeInv, WorkersOK
  <2> HIDE DEF mem
  <2>3. QED BY <2>1, <2>2, WorkerSet
<1> HIDE DEF mem
<1>3. Quiet /\ OthersRest(w)
  BY <1>1, <1>2, QuietElsewhere DEF SettleLanes, db, Others, OthersRest
<1>4. runs'[worker'[w].run].status # "FREE"
  BY <1>1, <1>2 DEF KnownInv, WorkerKnown, EarlyPc
<1>5. AfterLanes(w) \notin {"processing", "discovered"}
  BY DEF AfterLanes
<1>6. QED BY <1>1, <1>2, <1>3, <1>4, <1>5, KnownMoves

\* Counting the items notes a verdict.
LEMMA KnownCountItems ==
  ASSUME TypeInv, KnownInv, NEW w \in Workers, CountItems(w)
  PROVE  KnownInv'
<1> DEFINE verdict == Verdict(runs[worker[w].run].items)
           mem == [worker[w] EXCEPT !.pc = "committing", !.verdict = verdict]
<1>1. /\ worker[w] \in Worker /\ worker[w].pc = "counting"
      /\ lane' = lane /\ runs' = runs
  BY DEF TypeInv, WorkersOK, CountItems, db
<1>2. /\ worker'[w].pc = "committing" /\ worker'[w].run = worker[w].run
      /\ Others(w)
  <2>1. mem.pc = "committing" /\ mem.run = worker[w].run
    BY <1>1 DEF Worker
  <2>2. worker' = [worker EXCEPT ![w] = mem]
    BY <1>1 DEF CountItems, TypeInv, WorkersOK
  <2> HIDE DEF mem
  <2>3. QED BY <2>1, <2>2, WorkerSet
<1> HIDE DEF mem
<1>3. Quiet /\ OthersRest(w)
  BY <1>1, <1>2, QuietElsewhere DEF CountItems, db, Others, OthersRest
<1>4. runs'[worker'[w].run].status # "FREE"
  BY <1>1, <1>2 DEF KnownInv, WorkerKnown, EarlyPc
<1>5. \A l \in Lanes : lane'[w][l].stage = "idle"
  BY <1>1, LanesRest
<1>6. QED BY <1>2, <1>3, <1>4, <1>5, KnownMoves

\* A new process knows nothing.
LEMMA KnownStart ==
  ASSUME TypeInv, KnownInv, NEW w \in Workers, NEW req \in Requests,
         Start(w, req)
  PROVE  KnownInv'
<1> DEFINE mem == [IdleWorker EXCEPT !.pc = "locked", !.kind = req.kind,
                                     !.mode = req.mode, !.ids = req.ids]
<1>1. /\ worker[w].pc = "idle" /\ lane' = lane
      /\ worker' = [worker EXCEPT ![w] = mem]
  BY DEF Start
<1>2. mem.pc = "locked"
  BY DEF IdleWorker
<1> HIDE DEF mem
<1>3. worker'[w].pc = "locked" /\ Others(w)
  BY <1>1, <1>2, WorkerSet
<1>4. Quiet /\ OthersRest(w)
  BY <1>1, <1>3, QuietElsewhere DEF Start, db, Others, OthersRest
<1>5. \A l \in Lanes : lane'[w][l].stage = "idle"
  BY <1>1, LanesRest
<1>6. QED BY <1>3, <1>4, <1>5, KnownMoves DEF EarlyPc

\* Every step of a worker.
LEMMA KnownWorker ==
  ASSUME TypeInv, KnownInv, NEW w \in Workers, WorkerStep(w)
  PROVE  KnownInv'
<1>1. CASE \E r \in RunIds : ResumeRun(w, r) \/ CreateRun(w, r)
  BY <1>1, KnownResumeRun, KnownCreate
<1>2. CASE Discover(w) \/ PersistManifest(w) \/ ListPending(w)
           \/ SettleLanes(w) \/ CountItems(w)
  BY <1>2, KnownDiscover, KnownPersist, KnownListPending, KnownSettleLanes,
     KnownCountItems
<1>3. CASE RejectRequest(w) \/ RefuseToCreate(w)
  <2>1. Exit(w) /\ Quiet
    BY <1>3, QuietElsewhere DEF RejectRequest, RefuseToCreate, db
  <2>2. QED BY <2>1, KnownExit
<1>4. CASE DecideToCreate(w)
  <2>1. /\ worker[w].pc = "locked" /\ Goto(w, "creating") /\ lane' = lane
        /\ Quiet
    BY <1>4, QuietElsewhere DEF DecideToCreate, db
  <2>2. QED BY <2>1, KnownJump DEF EarlyPc
<1>5. CASE SkipDiscovery(w)
  <2>1. /\ worker[w].pc = "chosen" /\ Goto(w, "listing") /\ lane' = lane
        /\ Quiet
    BY <1>5, QuietElsewhere DEF SkipDiscovery, db
  <2>2. QED BY <2>1, KnownJump DEF EarlyPc
<1>6. CASE CheckpointConflict(w) \/ ObserveSignal(w) \/ WindowSaturates(w)
  <2>1. /\ worker[w].pc \notin EarlyPc /\ worker[w].pc # "processing"
        /\ Goto(w, "interrupt") /\ lane' = lane /\ Quiet
    BY <1>6, QuietElsewhere
    DEF CheckpointConflict, ObserveSignal, WindowSaturates, db, EarlyPc
  <2>2. QED BY <2>1, KnownJump
<1>7. CASE FinalizeRun(w)
  BY <1>7, QuietCommit, KnownExit DEF FinalizeRun
<1>8. CASE RecordInterruption(w)
  BY <1>8, RowsInterruption, QuietRows, KnownExit DEF RecordInterruption
<1>9. QED BY <1>1, <1>2, <1>3, <1>4, <1>5, <1>6, <1>7, <1>8 DEF WorkerStep

\* Every step of a lane.
LEMMA KnownLaneStep ==
  ASSUME TypeInv, KnownInv, NEW w \in Workers, NEW l \in Lanes, LaneStep(w, l)
  PROVE  KnownInv'
<1>1. CASE FinishItem(w, l) \/ SettleMarkedItem(w, l)
  <2>1. /\ lane[w][l].stage # "idle" /\ SetLane(w, l, IdleLane)
        /\ UNCHANGED <<env, song, worker>>
        /\ \/ SetItem(w, l, "SOURCE_DELETED") \/ SetItem(w, l, "SYNCED")
           \/ SetItem(w, l, "FAILED")
    BY <1>1 DEF FinishItem, SettleMarkedItem, AtStage, MarkedItem, catalog
  <2>2. QED BY <2>1, KnownItem
<1>2. CASE LaneCancelled(w, l)
  BY <1>2, KnownStop DEF LaneCancelled
<1>3. QED BY <1>1, <1>2, KnownTakeItem, KnownFetchSong, KnownFetchNotFound,
             KnownSyncSong, KnownMarkDeleted, KnownMarkFailure DEF LaneStep

\* Every fault.
LEMMA KnownFault ==
  ASSUME TypeInv, KnownInv, NEW w \in Workers, FaultStep(w)
  PROVE  KnownInv'
<1>1. ASSUME NEW l \in Lanes, MarkFails(w, l)
      PROVE  KnownInv'
  BY <1>1, KnownStop DEF MarkFails
<1>2. CASE StepFails(w)
  <2>1. Quiet
    BY <1>2, QuietElsewhere DEF StepFails, db
  <2>2. CASE Exit(w)
    BY <2>1, <2>2, KnownExit
  <2>3. CASE /\ worker[w].pc \in {"chosen", "discovered", "listing",
                                  "counting", "committing"}
             /\ Goto(w, "interrupt") /\ lane' = lane
    BY <2>1, <2>3, KnownJump DEF EarlyPc
  <2>4. QED BY <1>2, <2>2, <2>3 DEF StepFails
<1>3. CASE Crash(w)
  BY <1>3, QuietElsewhere, KnownExit DEF Crash, db
<1>4. CASE FinalizeAnswerLost(w)
  <2>1. /\ Quiet /\ Goto(w, "interrupt") /\ lane' = lane
        /\ worker[w].pc = "committing"
    BY <1>4, QuietCommit DEF FinalizeAnswerLost, FinalizeCommit
  <2>2. QED BY <2>1, KnownJump DEF EarlyPc
<1>5. QED BY <1>1, <1>2, <1>3, <1>4, KnownItemError, KnownBeginFails,
             KnownSignal DEF FaultStep

\* Nothing is local yet, and no song is deleted.
LEMMA KnownInit == Init => KnownInv
<1>1. ASSUME Init
      PROVE  KnownInv
  <2>1. \A s \in Songs : SongKnown(s)
    BY <1>1 DEF Init, SongKnown, Absent
  <2>2. \A r \in RunIds : RunKnown(r)
    BY <1>1 DEF Init, RunKnown, FreeRun
  <2>3. \A w \in Workers : WorkerKnown(w)
    BY <1>1, IdleLaneOK
    DEF Init, WorkerKnown, LaneKnown, IdleWorker, EarlyPc
  <2>4. QED BY <2>1, <2>2, <2>3 DEF KnownInv
<1>2. QED BY <1>1

\* Every step keeps what is known.
LEMMA KnownNext ==
  ASSUME TypeInv, KnownInv, [Next]_vars
  PROVE  KnownInv'
<1>1. CASE Tick \/ Burst \/ DropLock \/ UNCHANGED vars
  <2>1. /\ UNCHANGED <<song, upstream, activity, flaw, runs, worker, lane>>
    BY <1>1 DEF Tick, Burst, DropLock, db, catalog, memory, vars, env
  <2>2. Quiet
    BY <2>1, RowsSame DEF Quiet, KeepsRows, KeepsRow
  <2>3. \A w \in Workers : WorkerKnown(w)'
    BY <2>1, <2>2, KnownQuiet, ProceedsSame, RestRemembers
  <2>4. QED BY <2>2, <2>3, KnownQuiet DEF KnownInv
<1>2. QED BY <1>1, KnownChange, KnownStart, KnownWorker, KnownLaneStep,
             KnownFault DEF Next

\* In every reachable state, with or without a lock that holds.
THEOREM KnownInvariant == Spec => [](TypeInv /\ KnownInv)
<1>1. Init => TypeInv /\ KnownInv
  BY TypeInit, KnownInit
<1>2. (TypeInv /\ KnownInv) /\ [Next]_vars => (TypeInv /\ KnownInv)'
  BY TypeNext, KnownNext
<1>3. QED BY <1>1, <1>2, PTL DEF Spec

\* RECONCILE asks two endpoints before it marks a song deleted, the inventory
\* and the detail.  As long as one of them answers right, no song is marked
\* deleted that VocaDB has never deleted: not with any number of workers, not
\* when one goes on after its lock's session was lost, and not when songs are
\* deleted, restored and edited between the two answers.
THEOREM DeletionsConfirmed == Spec => []DeletionConfirmed
<1>1. KnownInv => DeletionConfirmed
  BY DEF KnownInv, SongKnown, NonLive, DeletionConfirmed
<1>2. QED BY <1>1, KnownInvariant, PTL

-----------------------------------------------------------------------------
(***************************************************************************)
(* Under the lock: a terminal run has settled its items                    *)
(***************************************************************************)
\* Where a worker relies on its run's manifest.
Ready == {"listing", "processing", "counting", "committing"}

\* What is PENDING is in the worker's hands, until nothing is.
Covered(w) ==
  LET run == runs[worker[w].run] IN
  /\ worker[w].pc \in Ready => run.discovered
  /\ worker[w].pc = "processing" /\ ~worker[w].stopped =>
       \A s \in Songs : run.items[s] = "PENDING" =>
         \/ s \in worker[w].queue
         \/ \E l \in Lanes : lane[w][l].stage # "idle" /\ lane[w][l].song = s
  /\ worker[w].pc \in {"counting", "committing"} =>
       \A s \in Songs : run.items[s] # "PENDING"
  /\ worker[w].pc = "committing" => worker[w].verdict = Verdict(run.items)

SettledInv == SettledRuns /\ \A w \in Workers : Covered(w)

\* What a step does to the rows of the runs: nothing that is recorded here, a
\* commit, a new run, a manifest or an item.
LEMMA RowStep ==
  ASSUME TypeInv, [Next]_vars
  PROVE  \/ KeepsRows
         \/ \E w \in Workers : FinalizeCommit(w) \/ PersistManifest(w)
         \/ \E w \in Workers, r \in RunIds : CreateRun(w, r)
         \/ \E w \in Workers, l \in Lanes :
              FinishItem(w, l) \/ SettleMarkedItem(w, l)
<1>1. ASSUME NEW w \in Workers, WorkerStep(w)
      PROVE  \/ KeepsRows \/ FinalizeCommit(w) \/ PersistManifest(w)
             \/ \E r \in RunIds : CreateRun(w, r)
  <2>1. CASE \/ DecideToCreate(w) \/ RejectRequest(w) \/ RefuseToCreate(w)
             \/ Discover(w) \/ SkipDiscovery(w) \/ ListPending(w)
             \/ SettleLanes(w) \/ CountItems(w) \/ CheckpointConflict(w)
             \/ ObserveSignal(w) \/ WindowSaturates(w)
    BY <2>1, RowsSame
    DEF DecideToCreate, RejectRequest, RefuseToCreate, Discover,
        SkipDiscovery, ListPending, SettleLanes, CountItems,
        CheckpointConflict, ObserveSignal, WindowSaturates, db
  <2>2. CASE FinalizeRun(w)
    BY <2>2 DEF FinalizeRun
  <2>3. QED BY <1>1, <2>1, <2>2, RowsResume, RowsInterruption DEF WorkerStep
<1>2. ASSUME NEW w \in Workers, FaultStep(w)
      PROVE  KeepsRows \/ FinalizeCommit(w)
  <2>1. CASE FinalizeAnswerLost(w)
    BY <2>1 DEF FinalizeAnswerLost
  <2>2. CASE ~FinalizeAnswerLost(w)
    BY <1>2, <2>2, RowsSame
    DEF FaultStep, ItemError, MarkFails, BeginFails, StepFails, Crash, Signal,
        db
  <2>3. QED BY <2>1, <2>2
<1>3. ASSUME NEW w \in Workers, NEW l \in Lanes, LaneStep(w, l)
      PROVE  KeepsRows \/ FinishItem(w, l) \/ SettleMarkedItem(w, l)
  <2>1. CASE \/ \E s \in Songs : TakeItem(w, l, s)
             \/ LaneCancelled(w, l) \/ FetchSong(w, l) \/ FetchNotFound(w, l)
    BY <2>1, RowsSame
    DEF TakeItem, LaneCancelled, FetchSong, FetchNotFound, db
  <2>2. CASE SyncSong(w, l) \/ MarkDeleted(w, l) \/ MarkFailure(w, l)
    <3>1. worker[w].pc = "processing" /\ \E s, row : WriteSong(w, s, row)
      BY <2>2 DEF SyncSong, MarkDeleted, MarkFailure, AtStage
    <3>2. QED BY <3>1, RowsWrite DEF EarlyPc
  <2>3. QED BY <1>3, <2>1, <2>2 DEF LaneStep
<1>4. CASE \/ Tick \/ Burst \/ DropLock \/ UNCHANGED vars
           \/ \E s \in Songs, status \in SourceStatus : SourceChange(s, status)
           \/ \E w \in Workers, req \in Requests : Start(w, req)
  BY <1>4, RowsSame DEF Tick, Burst, DropLock, SourceChange, Start, db, vars
<1>5. QED BY <1>1, <1>2, <1>3, <1>4 DEF Next

\* Only the commit makes a run terminal, with the worker's verdict.
LEMMA NewlyTerminal ==
  ASSUME TypeInv, [Next]_vars, NEW r \in RunIds,
         runs'[r].status \in Terminal, runs[r].status \notin Terminal
  PROVE  \E w \in Workers : FinalizeCommit(w) /\ worker[w].run = r
<1>1. CASE KeepsRows
  BY <1>1 DEF KeepsRows, KeepsRow
<1>2. ASSUME NEW w \in Workers, PersistManifest(w)
      PROVE  FALSE
  BY <1>2, RowsPersist
<1>3. ASSUME NEW w \in Workers, NEW q \in RunIds, CreateRun(w, q)
      PROVE  FALSE
  <2>1. /\ runs'[q] = NewRun(worker[w].mode, worker[w].ids)
        /\ r # q => runs'[r] = runs[r]
    BY <1>3, RowsCreate
  <2>2. NewRun(worker[w].mode, worker[w].ids).status = "RUNNING"
    BY DEF NewRun
  <2>3. QED BY <2>1, <2>2 DEF Terminal
<1>4. ASSUME NEW w \in Workers, NEW l \in Lanes,
             FinishItem(w, l) \/ SettleMarkedItem(w, l)
      PROVE  FALSE
  <2>1. /\ worker[w].pc = "processing" /\ lane[w][l].song \in Songs
        /\ \E status : SetItem(w, l, status)
    BY <1>4 DEF FinishItem, SettleMarkedItem, AtStage, TypeInv, LanesOK,
                HasSong
  <2>2. QED BY <2>1, RowsItem
<1>5. ASSUME NEW w \in Workers, FinalizeCommit(w)
      PROVE  worker[w].run = r
  BY <1>5, RowsCommit
<1>6. QED BY <1>1, <1>2, <1>3, <1>4, <1>5, RowStep

\* A verdict says of the items what SettledRuns asks for.
LEMMA VerdictHonest ==
  ASSUME NEW items
  PROVE  /\ Verdict(items) = "SUCCEEDED" <=> Failures(items) = {}
         /\ Verdict(items) = "FAILED" => Successes(items) = {}
  BY DEF Verdict

\* A run becomes terminal when its items are settled, and stays as it is.
LEMMA SettledStep ==
  ASSUME LockMayDrop = FALSE, SyncInv, SettledInv, [Next]_vars
  PROVE  SettledRuns'
<1> DEFINE Honest(run) ==
      /\ run.discovered
      /\ \A s \in Songs : run.items[s] # "PENDING"
      /\ run.status = "SUCCEEDED" <=> Failures(run.items) = {}
      /\ run.status = "FAILED" => Successes(run.items) = {}
<1>1. SUFFICES ASSUME NEW r \in RunIds, runs'[r].status \in Terminal
               PROVE  Honest(runs'[r])
  BY DEF SettledRuns, Failures, Successes
<1>2. CASE runs[r].status \in Terminal
  BY <1>2, FrozenStep DEF SettledInv, SettledRuns
<1>3. CASE runs[r].status \notin Terminal
  <2>1. PICK w \in Workers : FinalizeCommit(w) /\ worker[w].run = r
    BY <1>1, <1>3, NewlyTerminal DEF SyncInv
  <2>2. KeepsManifest(r) /\ runs'[r].status = worker[w].verdict
    BY <2>1, RowsCommit DEF SyncInv
  <2>3. worker[w].pc = "committing" /\ Covered(w)
    BY <2>1 DEF FinalizeCommit, SettledInv
  <2>4. /\ runs[r].discovered
        /\ \A s \in Songs : runs[r].items[s] # "PENDING"
        /\ worker[w].verdict = Verdict(runs[r].items)
    BY <2>1, <2>3 DEF Covered, Ready
  <2>5. QED BY <2>2, <2>4, VerdictHonest DEF KeepsManifest
<1>4. QED BY <1>2, <1>3

\* Outside of Ready there is nothing to cover.
LEMMA NotReady ==
  ASSUME NEW v \in Workers, worker'[v].pc \notin Ready
  PROVE  Covered(v)'
  BY DEF Covered, Ready

\* A worker that is not the one that moves is not running.
LEMMA OthersCovered ==
  ASSUME SyncInv, NEW w \in Workers, worker[w].pc # "idle", Others(w)
  PROVE  \A v \in Workers \ {w} : Covered(v)'
<1>1. \A v \in Workers \ {w} : worker'[v].pc = "idle"
  BY HolderExcludes DEF SyncInv, Others
<1>2. QED BY <1>1, NotReady DEF Ready

\* A worker that proceeds with its run as it was, and its lanes where they were
\* or busy with the same song, still covers it.
LEMMA CoversOn ==
  ASSUME TypeInv, NEW w \in Workers, worker[w].pc \notin EarlyPc,
         Covered(w), KeepsRows, Proceeds(w),
         worker'[w].queue = worker[w].queue,
         worker[w].pc # "committing" \/ worker'[w].verdict = worker[w].verdict,
         \A l \in Lanes :
           lane[w][l].stage # "idle" =>
             lane'[w][l].stage # "idle" /\ lane'[w][l].song = lane[w][l].song
  PROVE  Covered(w)'
<1>0. PICK r \in RunIds : r = worker[w].run
  BY OwnRow
<1>1. /\ worker'[w].pc = worker[w].pc /\ worker'[w].run = r
      /\ worker[w].stopped => worker'[w].stopped
  BY <1>0 DEF Proceeds
<1>2. runs'[r].items = runs[r].items /\ runs'[r].discovered = runs[r].discovered
  BY DEF KeepsRows, KeepsRow, KeepsManifest
<1>3. Verdict(runs'[r].items) = Verdict(runs[r].items)
  BY <1>2
<1>4. QED BY <1>0, <1>1, <1>2, <1>3 DEF Covered, Verdict, Failures, Successes

\* A worker whose lanes are stopped has only to have a manifest.
LEMMA CoversStopped ==
  ASSUME TypeInv, NEW w \in Workers, worker[w].pc = "processing",
         Covered(w), UNCHANGED runs, Proceeds(w), worker'[w].stopped
  PROVE  Covered(w)'
<1>1. worker'[w].pc = "processing" /\ worker'[w].run = worker[w].run
  BY DEF Proceeds
<1>2. QED BY <1>1 DEF Covered, Ready

\* A lane that goes to another stage keeps its song in hand.
LEMMA CoversGoing ==
  ASSUME TypeInv, NEW w \in Workers, NEW l \in Lanes, NEW stage,
         stage # "idle", worker[w].pc = "processing", Covered(w), KeepsRows,
         UNCHANGED worker, LaneGoes(w, l, stage)
  PROVE  Covered(w)'
<1>1. \A k \in Lanes :
        lane[w][k].stage # "idle" =>
          lane'[w][k].stage # "idle" /\ lane'[w][k].song = lane[w][k].song
  BY DEF LaneGoes, OtherLanesRest
<1>2. QED BY <1>1, CoversOn, ProceedsSame DEF EarlyPc

\* An item leaves the queue for a lane.
LEMMA CoversTake ==
  ASSUME TypeInv, NEW w \in Workers, NEW l \in Lanes, NEW s \in Songs,
         Covered(w), TakeItem(w, l, s)
  PROVE  Covered(w)'
<1>0. PICK r \in RunIds : r = worker[w].run
  BY OwnRow DEF TakeItem, AtStage, EarlyPc
<1> DEFINE rec == [IdleLane EXCEPT !.stage = "begun", !.song = s]
<1>1. rec.stage = "begun" /\ rec.song = s
  BY DEF IdleLane
<1>2. /\ SetLane(w, l, rec) /\ worker[w].pc = "processing"
      /\ ~worker[w].stopped /\ lane[w][l].stage = "idle" /\ runs' = runs
  BY DEF TakeItem, AtStage, db
<1> HIDE DEF rec
<1>3. /\ \A k \in Lanes \ {l} : lane'[w][k] = lane[w][k]
      /\ lane'[w][l].stage = "begun" /\ lane'[w][l].song = s
  BY <1>1, <1>2, LaneSet DEF OtherLanesRest
<1>4. /\ worker'[w].pc = "processing" /\ worker'[w].run = r
      /\ worker'[w].queue = worker[w].queue \ {s}
  BY <1>0, <1>2, ProceedsTake DEF TakeItem, Proceeds
<1>5. /\ runs[r].discovered
      /\ \A t \in Songs : runs[r].items[t] = "PENDING" =>
           \/ t \in worker[w].queue
           \/ \E k \in Lanes : lane[w][k].stage # "idle" /\ lane[w][k].song = t
  BY <1>0, <1>2 DEF Covered, Ready
<1>6. ASSUME NEW t \in Songs, runs[r].items[t] = "PENDING"
      PROVE  \/ t \in worker'[w].queue
             \/ \E k \in Lanes :
                  lane'[w][k].stage # "idle" /\ lane'[w][k].song = t
  <2>1. CASE t = s
    BY <1>3, <2>1
  <2>2. CASE t # s /\ t \in worker[w].queue
    BY <1>4, <2>2
  <2>3. CASE t # s /\ t \notin worker[w].queue
    <3>1. PICK k \in Lanes : lane[w][k].stage # "idle" /\ lane[w][k].song = t
      BY <1>5, <1>6, <2>3
    <3>2. lane'[w][k] = lane[w][k]
      BY <1>2, <1>3, <3>1
    <3>3. QED BY <3>1, <3>2
  <2>4. QED BY <2>1, <2>2, <2>3
<1>7. QED BY <1>2, <1>4, <1>5, <1>6 DEF Covered, Ready

\* An item is settled when its lane lets go of it.
LEMMA CoversItem ==
  ASSUME TypeInv, NEW w \in Workers, NEW l \in Lanes, NEW status,
         worker[w].pc = "processing", lane[w][l].stage # "idle", Covered(w),
         status # "PENDING", SetItem(w, l, status), SetLane(w, l, IdleLane),
         UNCHANGED worker
  PROVE  Covered(w)'
<1>0. PICK r \in RunIds : r = worker[w].run
  BY OwnRow DEF EarlyPc
<1>1. lane[w][l].song \in Songs
  BY DEF TypeInv, LanesOK, HasSong
<1>2. /\ runs'[r].discovered = runs[r].discovered
      /\ \A s \in Songs :
           runs'[r].items[s] = IF s = lane[w][l].song THEN status
                               ELSE runs[r].items[s]
  BY <1>0, <1>1, RowsItem
<1>3. \A k \in Lanes \ {l} : lane'[w][k] = lane[w][k]
  BY LaneSet DEF OtherLanesRest
<1>4. ASSUME ~worker[w].stopped, NEW t \in Songs,
             runs'[r].items[t] = "PENDING"
      PROVE  \/ t \in worker[w].queue
             \/ \E k \in Lanes :
                  lane'[w][k].stage # "idle" /\ lane'[w][k].song = t
  <2>1. t # lane[w][l].song /\ runs[r].items[t] = "PENDING"
    BY <1>2, <1>4
  <2>2. \/ t \in worker[w].queue
        \/ \E k \in Lanes : lane[w][k].stage # "idle" /\ lane[w][k].song = t
    BY <1>0, <1>4, <2>1 DEF Covered
  <2>3. QED BY <1>3, <2>1, <2>2
<1>5. runs'[r].discovered
  BY <1>0, <1>2 DEF Covered, Ready
<1>6. QED BY <1>0, <1>4, <1>5 DEF Covered

\* The manifest makes a run discovered; a run that is so may skip discovery.
LEMMA CoversListing ==
  ASSUME TypeInv, NEW w \in Workers, PersistManifest(w) \/ SkipDiscovery(w)
  PROVE  Covered(w)' /\ Others(w) /\ worker[w].pc # "idle"
<1>0. PICK r \in RunIds : r = worker[w].run
  BY OwnRow DEF PersistManifest, SkipDiscovery, EarlyPc
<1>1. worker[w] \in Worker /\ worker \in [Workers -> Worker]
  BY DEF TypeInv, WorkersOK
<1>2. CASE PersistManifest(w)
  <2> DEFINE mem == [worker[w] EXCEPT !.pc = "listing", !.found = {},
                                      !.present = {}]
  <2>1. mem.pc = "listing" /\ mem.run = r
    BY <1>0, <1>1 DEF Worker
  <2>2. worker' = [worker EXCEPT ![w] = mem]
    BY <1>1, <1>2 DEF PersistManifest
  <2> HIDE DEF mem
  <2>3. worker'[w].pc = "listing" /\ worker'[w].run = r /\ Others(w)
    BY <2>1, <2>2, WorkerSet
  <2>4. runs'[r].discovered
    BY <1>0, <1>2, RowsPersist
  <2>5. QED BY <1>2, <2>3, <2>4 DEF Covered, PersistManifest
<1>3. CASE SkipDiscovery(w)
  <2>1. /\ worker'[w].pc = "listing" /\ worker'[w].run = r /\ Others(w)
        /\ runs' = runs /\ runs[r].discovered
    BY <1>0, <1>3, GotoSet DEF SkipDiscovery, db
  <2>2. QED BY <1>3, <2>1 DEF Covered, SkipDiscovery
<1>4. QED BY <1>2, <1>3

\* Every PENDING item is on the queue to begin with.
LEMMA CoversListPending ==
  ASSUME TypeInv, NEW w \in Workers, Covered(w), ListPending(w)
  PROVE  Covered(w)' /\ Others(w)
<1>0. PICK r \in RunIds : r = worker[w].run
  BY OwnRow DEF ListPending, EarlyPc
<1> DEFINE queue == {s \in Songs : runs[r].items[s] = "PENDING"}
           mem == [worker[w] EXCEPT !.pc = "processing", !.queue = queue]
<1>1. /\ worker[w] \in Worker /\ worker[w].pc = "listing" /\ runs' = runs
  BY DEF TypeInv, WorkersOK, ListPending, db
<1>2. /\ worker'[w].pc = "processing" /\ worker'[w].run = r
      /\ worker'[w].queue = queue /\ Others(w)
  <2>1. mem.pc = "processing" /\ mem.run = r /\ mem.queue = queue
    BY <1>0, <1>1 DEF Worker
  <2>2. worker' = [worker EXCEPT ![w] = mem]
    BY <1>0, <1>1 DEF ListPending, TypeInv, WorkersOK
  <2> HIDE DEF mem
  <2>3. QED BY <2>1, <2>2, WorkerSet
<1> HIDE DEF mem
<1>3. runs[r].discovered
  BY <1>0, <1>1 DEF Covered, Ready
<1>4. QED BY <1>1, <1>2, <1>3 DEF Covered

\* Idle lanes and an empty queue, without an error, leave nothing PENDING.
LEMMA CoversSettleLanes ==
  ASSUME TypeInv, NEW w \in Workers, Covered(w), SettleLanes(w)
  PROVE  Covered(w)' /\ Others(w)
<1> DEFINE mem == [worker[w] EXCEPT !.pc = AfterLanes(w), !.queue = {}]
<1>1. /\ worker[w] \in Worker /\ worker[w].pc = "processing"
      /\ \A l \in Lanes : lane[w][l].stage = "idle"
      /\ worker[w].stopped \/ worker[w].queue = {}
      /\ runs' = runs
  BY DEF TypeInv, WorkersOK, SettleLanes, db
<1>2. /\ worker'[w].pc = AfterLanes(w) /\ worker'[w].run = worker[w].run
      /\ Others(w)
  <2>1. mem.pc = AfterLanes(w) /\ mem.run = worker[w].run
    BY <1>1 DEF Worker
  <2>2. worker' = [worker EXCEPT ![w] = mem]
    BY <1>1 DEF SettleLanes, TypeInv, WorkersOK
  <2> HIDE DEF mem
  <2>3. QED BY <2>1, <2>2, WorkerSet
<1> HIDE DEF mem
<1>3. CASE worker[w].stopped \/ worker[w].aborted
  BY <1>2, <1>3, NotReady DEF AfterLanes, Ready
<1>4. CASE ~worker[w].stopped /\ ~worker[w].aborted
  <2>1. worker'[w].pc = "counting"
    BY <1>2, <1>4 DEF AfterLanes
  <2>2. /\ runs[worker[w].run].discovered
        /\ \A s \in Songs : runs[worker[w].run].items[s] # "PENDING"
    BY <1>1, <1>4 DEF Covered, Ready
  <2>3. QED BY <1>1, <1>2, <2>1, <2>2 DEF Covered
<1>5. QED BY <1>2, <1>3, <1>4

\* The verdict is that of items nobody changes any more.
LEMMA CoversCountItems ==
  ASSUME TypeInv, NEW w \in Workers, Covered(w), CountItems(w)
  PROVE  Covered(w)' /\ Others(w)
<1>0. PICK r \in RunIds : r = worker[w].run
  BY OwnRow DEF CountItems, EarlyPc
<1> DEFINE mem == [worker[w] EXCEPT !.pc = "committing",
                                    !.verdict = Verdict(runs[r].items)]
<1>1. worker[w] \in Worker /\ worker[w].pc = "counting" /\ runs' = runs
  BY DEF TypeInv, WorkersOK, CountItems, db
<1>2. /\ worker'[w].pc = "committing" /\ worker'[w].run = r
      /\ worker'[w].verdict = Verdict(runs[r].items) /\ Others(w)
  <2>1. /\ mem.pc = "committing" /\ mem.run = r
        /\ mem.verdict = Verdict(runs[r].items)
    BY <1>0, <1>1 DEF Worker
  <2>2. worker' = [worker EXCEPT ![w] = mem]
    BY <1>0, <1>1 DEF CountItems, TypeInv, WorkersOK
  <2> HIDE DEF mem
  <2>3. QED BY <2>1, <2>2, WorkerSet
<1> HIDE DEF mem
<1>3. /\ runs[r].discovered
      /\ \A s \in Songs : runs[r].items[s] # "PENDING"
  BY <1>0, <1>1 DEF Covered, Ready
<1>4. Verdict(runs'[r].items) = Verdict(runs[r].items)
  BY <1>1
<1>5. QED BY <1>1, <1>2, <1>3, <1>4 DEF Covered, Verdict, Failures, Successes

\* A worker that ends, or goes where it does not rely on its manifest.
LEMMA CoversLeaving ==
  ASSUME TypeInv, NEW w \in Workers,
         \/ Exit(w)
         \/ Goto(w, "interrupt") \/ Goto(w, "creating")
  PROVE  Covered(w)' /\ Others(w)
<1>1. worker'[w].pc \notin Ready /\ Others(w)
  BY ExitSet, GotoSet DEF Ready, OthersRest, Others
<1>2. QED BY <1>1, NotReady

\* Starting, choosing a run and discovering.
LEMMA CoversChoosing ==
  ASSUME TypeInv, NEW w \in Workers,
         \/ \E r \in RunIds : ResumeRun(w, r) \/ CreateRun(w, r)
         \/ Discover(w)
  PROVE  Covered(w)' /\ Others(w)
<1>1. worker[w] \in Worker
  BY DEF TypeInv, WorkersOK
<1>2. ASSUME NEW r \in RunIds, ResumeRun(w, r) \/ CreateRun(w, r)
      PROVE  worker'[w].pc = "chosen" /\ Others(w)
  <2> DEFINE mem == [worker[w] EXCEPT !.pc = "chosen", !.run = r]
  <2>1. mem.pc = "chosen"
    BY <1>1 DEF Worker
  <2>2. worker' = [worker EXCEPT ![w] = mem]
    BY <1>1, <1>2 DEF ResumeRun, CreateRun, TypeInv, WorkersOK
  <2> HIDE DEF mem
  <2>3. QED BY <2>1, <2>2, WorkerSet
<1>3. CASE Discover(w)
  <2> DEFINE Rec(found, present) ==
        [worker[w] EXCEPT !.pc = "discovered", !.found = found,
                          !.present = present]
  <2>1. PICK found \in SUBSET Songs, present \in SUBSET Songs :
          worker' = [worker EXCEPT ![w] = Rec(found, present)]
    BY <1>3, DiscoverEffect
  <2>2. Rec(found, present).pc = "discovered"
    BY <1>1 DEF Worker
  <2> HIDE DEF Rec
  <2>3. worker'[w].pc = "discovered" /\ Others(w)
    BY <2>1, <2>2, WorkerSet
  <2>4. QED BY <2>3, NotReady DEF Ready
<1>4. QED BY <1>2, <1>3, NotReady DEF Ready

\* Every step of a worker leaves its run covered.
LEMMA CoversWorker ==
  ASSUME TypeInv, NEW w \in Workers, Covered(w), WorkerStep(w)
  PROVE  Covered(w)' /\ Others(w) /\ worker[w].pc # "idle"
<1>1. worker[w].pc # "idle"
  BY DEF WorkerStep, ResumeRun, CreateRun, DecideToCreate, RejectRequest,
         RefuseToCreate, Discover, PersistManifest, SkipDiscovery,
         ListPending, SettleLanes, CountItems, FinalizeRun, FinalizeCommit,
         CheckpointConflict, ObserveSignal, WindowSaturates, RecordInterruption
<1>2. CASE \/ DecideToCreate(w) \/ RejectRequest(w) \/ RefuseToCreate(w)
           \/ FinalizeRun(w) \/ CheckpointConflict(w) \/ ObserveSignal(w)
           \/ WindowSaturates(w) \/ RecordInterruption(w)
  <2>1. Exit(w) \/ Goto(w, "interrupt") \/ Goto(w, "creating")
    BY <1>2 DEF DecideToCreate, RejectRequest, RefuseToCreate, FinalizeRun,
                CheckpointConflict, ObserveSignal, WindowSaturates,
                RecordInterruption
  <2>2. QED BY <1>1, <2>1, CoversLeaving
<1>3. QED BY <1>1, <1>2, CoversChoosing, CoversListing, CoversListPending,
             CoversSettleLanes, CoversCountItems DEF WorkerStep

\* Every step of a lane leaves the worker's run covered.
LEMMA CoversLane ==
  ASSUME TypeInv, NEW w \in Workers, NEW l \in Lanes, Covered(w),
         LaneStep(w, l)
  PROVE  Covered(w)' /\ Others(w) /\ worker[w].pc # "idle"
<1>1. worker[w].pc = "processing"
  BY DEF LaneStep, TakeItem, LaneCancelled, FetchSong, FetchNotFound,
         SyncSong, FinishItem, MarkDeleted, MarkFailure, SettleMarkedItem,
         AtStage
<1>2. ASSUME NEW s \in Songs, TakeItem(w, l, s)
      PROVE  Covered(w)' /\ Others(w)
  BY <1>2, CoversTake, ProceedsTake DEF TakeItem
<1>3. CASE LaneCancelled(w, l)
  <2>1. StopLanes(w, l) /\ runs' = runs
    BY <1>3 DEF LaneCancelled, db
  <2>2. QED BY <1>1, <2>1, ProceedsStop, CoversStopped
<1>4. CASE FetchSong(w, l)
  <2> DEFINE s == lane[w][l].song
             rec == [lane[w][l] EXCEPT
                       !.stage = "fetched",
                       !.deleted = (upstream[s].status = "deleted"),
                       !.ver = upstream[s].changedAt]
  <2>1. SetLane(w, l, rec) /\ worker' = worker /\ runs' = runs
    BY <1>4 DEF FetchSong, db
  <2>2. rec.stage = "fetched" /\ rec.song = s
    BY DEF TypeInv, LanesOK, Lane
  <2> HIDE DEF rec
  <2>3. OtherLanesRest(w, l) /\ lane'[w][l] = rec
    BY <2>1, LaneSet
  <2>4. \A k \in Lanes :
          lane[w][k].stage # "idle" =>
            lane'[w][k].stage # "idle" /\ lane'[w][k].song = lane[w][k].song
    BY <2>2, <2>3 DEF OtherLanesRest
  <2>5. KeepsRows
    BY <2>1, RowsSame
  <2>6. QED BY <1>1, <2>1, <2>4, <2>5, CoversOn, ProceedsSame
            DEF EarlyPc, Others
<1>5. CASE \/ FetchNotFound(w, l) \/ SyncSong(w, l) \/ MarkDeleted(w, l)
           \/ MarkFailure(w, l)
  <2>1. /\ worker' = worker
        /\ \/ SetStage(w, l, "missing") \/ SetStage(w, l, "synced")
           \/ SetStage(w, l, "confirmed") \/ SetStage(w, l, "marked")
        /\ UNCHANGED runs \/ \E s, row : WriteSong(w, s, row)
    BY <1>5 DEF FetchNotFound, SyncSong, MarkDeleted, MarkFailure, db
  <2>2. KeepsRows
    BY <1>1, <2>1, RowsSame, RowsWrite DEF EarlyPc
  <2>3. \/ LaneGoes(w, l, "missing") \/ LaneGoes(w, l, "synced")
        \/ LaneGoes(w, l, "confirmed") \/ LaneGoes(w, l, "marked")
    BY <2>1, LaneStaged
  <2>4. QED BY <1>1, <2>1, <2>2, <2>3, CoversGoing DEF Others
<1>6. CASE FinishItem(w, l) \/ SettleMarkedItem(w, l)
  <2>1. /\ lane[w][l].stage # "idle" /\ SetLane(w, l, IdleLane)
        /\ worker' = worker
        /\ \/ SetItem(w, l, "SOURCE_DELETED") \/ SetItem(w, l, "SYNCED")
           \/ SetItem(w, l, "FAILED")
    BY <1>6 DEF FinishItem, SettleMarkedItem, AtStage, MarkedItem
  <2>2. QED BY <1>1, <2>1, CoversItem DEF Others
<1>7. QED BY <1>1, <1>2, <1>3, <1>4, <1>5, <1>6 DEF LaneStep

\* Every fault does, too: a lane that fails stops the others first.
LEMMA CoversFault ==
  ASSUME TypeInv, NEW w \in Workers, Covered(w), FaultStep(w)
  PROVE  Covered(w)' /\ Others(w) /\ worker[w].pc # "idle"
<1>1. ASSUME NEW l \in Lanes, ItemError(w, l) \/ MarkFails(w, l)
      PROVE  Covered(w)' /\ Others(w) /\ worker[w].pc # "idle"
  <2>1. /\ worker[w].pc = "processing" /\ runs' = runs
        /\ \/ StopLanes(w, l)
           \/ SetStage(w, l, "failing") /\ UNCHANGED worker
    BY <1>1 DEF ItemError, MarkFails, AtStage, db
  <2>2. CASE StopLanes(w, l)
    BY <2>1, <2>2, ProceedsStop, CoversStopped
  <2>3. CASE SetStage(w, l, "failing") /\ UNCHANGED worker
    BY <2>1, <2>3, LaneStaged, RowsSame, CoversGoing DEF Others
  <2>4. QED BY <2>1, <2>2, <2>3
<1>2. ASSUME NEW l \in Lanes, NEW s \in Songs, BeginFails(w, l, s)
      PROVE  Covered(w)' /\ Others(w) /\ worker[w].pc # "idle"
  <2>1. worker[w].pc = "processing" /\ runs' = runs
    BY <1>2 DEF BeginFails, AtStage, db
  <2>2. Proceeds(w) /\ Others(w) /\ worker'[w].stopped
    BY <1>2, ProceedsBegin DEF BeginFails
  <2>3. QED BY <2>1, <2>2, CoversStopped
<1>3. CASE StepFails(w) \/ FinalizeAnswerLost(w) \/ Crash(w)
  <2>1. /\ worker[w].pc # "idle"
        /\ Exit(w) \/ Goto(w, "interrupt")
    BY <1>3 DEF StepFails, FinalizeAnswerLost, FinalizeCommit, Crash
  <2>2. QED BY <2>1, CoversLeaving
<1>4. CASE Signal(w)
  <2>1. /\ Proceeds(w) /\ OthersRest(w) /\ lane'[w] = lane[w]
        /\ worker'[w].queue = worker[w].queue
        /\ worker'[w].verdict = worker[w].verdict
        /\ runs' = runs /\ worker[w].pc # "idle"
    BY <1>4, ProceedsSignal DEF Signal, db
  <2>2. CASE worker[w].pc \in EarlyPc
    BY <2>1, <2>2, NotReady DEF Proceeds, EarlyPc, Ready, OthersRest, Others
  <2>3. CASE worker[w].pc \notin EarlyPc
    BY <2>1, <2>3, RowsSame, CoversOn DEF OthersRest, Others
  <2>4. QED BY <2>2, <2>3, <2>1
<1>5. QED BY <1>1, <1>2, <1>3, <1>4 DEF FaultStep

\* Nothing is terminal and nobody is working.
LEMMA SettledInit == Init => SettledInv
<1>1. ASSUME Init
      PROVE  SettledInv
  <2>1. SettledRuns
    BY <1>1 DEF Init, SettledRuns, FreeRun, Terminal
  <2>2. \A w \in Workers : Covered(w)
    BY <1>1, IdleWorkerOK DEF Init, Covered, Ready
  <2>3. QED BY <2>1, <2>2 DEF SettledInv
<1>2. QED BY <1>1

\* Every step keeps the runs covered while no session loses the lock unnoticed.
LEMMA SettledNext ==
  ASSUME LockMayDrop = FALSE, SyncInv, SettledInv, [Next]_vars
  PROVE  SettledInv'
<1>1. SettledRuns'
  BY SettledStep
<1>2. ASSUME NEW w \in Workers,
             \/ WorkerStep(w)
             \/ \E l \in Lanes : LaneStep(w, l)
             \/ FaultStep(w)
      PROVE  \A v \in Workers : Covered(v)'
  <2>1. Covered(w)' /\ Others(w) /\ worker[w].pc # "idle"
    BY <1>2, CoversWorker, CoversLane, CoversFault DEF SettledInv, SyncInv
  <2>2. QED BY <2>1, OthersCovered
<1>3. ASSUME NEW w \in Workers, NEW req \in Requests, Start(w, req)
      PROVE  \A v \in Workers : Covered(v)'
  <2> DEFINE mem == [IdleWorker EXCEPT !.pc = "locked", !.kind = req.kind,
                                       !.mode = req.mode, !.ids = req.ids]
  <2>1. worker' = [worker EXCEPT ![w] = mem] /\ mem.pc = "locked"
    BY <1>3 DEF Start, IdleWorker
  <2> HIDE DEF mem
  <2>2. worker'[w].pc = "locked" /\ Others(w)
    BY <2>1, WorkerSet DEF SyncInv
  <2>3. \A v \in Workers : worker[v].pc = "idle"
    BY <1>3, WorkersAssumption DEF Start, LockFree, SyncInv, Holder
  <2>4. \A v \in Workers : worker'[v].pc \notin Ready
    BY <2>2, <2>3 DEF Others, Ready
  <2>5. QED BY <2>4, NotReady
<1>4. ASSUME \/ Tick \/ Burst \/ DropLock \/ UNCHANGED vars
             \/ \E s \in Songs, status \in SourceStatus :
                  SourceChange(s, status)
      PROVE  \A v \in Workers : Covered(v)'
  <2>1. UNCHANGED <<runs, worker, lane>>
    BY <1>4 DEF Tick, Burst, DropLock, SourceChange, db, memory, vars
  <2>2. \A v \in Workers : Covered(v)'
    BY <2>1 DEF SettledInv, Covered, Verdict, Failures, Successes
  <2>3. QED BY <2>2
<1>5. \A v \in Workers : Covered(v)'
  BY <1>2, <1>3, <1>4 DEF Next
<1>6. QED BY <1>1, <1>5 DEF SettledInv

\* In every reachable state of a system that keeps its lock.
THEOREM SettledInvariant ==
  ASSUME LockMayDrop = FALSE
  PROVE  Spec => [](SyncInv /\ SettledInv)
<1>1. Init => SyncInv /\ SettledInv
  BY SafeInit, SettledInit
<1>2. (SyncInv /\ SettledInv) /\ [Next]_vars => (SyncInv /\ SettledInv)'
  BY SafeNext, SettledNext
<1>3. QED BY <1>1, <1>2, PTL DEF Spec

\* A run that is SUCCEEDED, PARTIAL or FAILED has its whole manifest settled,
\* and its status is what its items say: however many lanes a worker has, one
\* that was stopped by an error, a signal or a crash never finalizes its run
\* early, and the worker that resumes it takes up every item left.
THEOREM RunsSettled ==
  ASSUME LockMayDrop = FALSE
  PROVE  Spec => []SettledRuns
<1>1. SettledInv => SettledRuns
  BY DEF SettledInv
<1>2. QED BY <1>1, SettledInvariant, PTL

-----------------------------------------------------------------------------
(***************************************************************************)
(* Under the lock: no change at VocaDB falls between two windows           *)
(***************************************************************************)
\* The feed has an entry for the song's latest change; a song that has not
\* changed since the beginning has none.
Listed(s) == \E e \in activity : e.song = s /\ e.at = upstream[s].changedAt

Fresh(s) == song[s].ver = upstream[s].changedAt /\ ~song[s].deleted

\* Without an overlap, a change in the instant of a checkpoint is let go.
Spared(s) == Overlap = 0 => upstream[s].changedAt \notin Boundaries

\* What a checkpoint at t promises: the live songs it speaks for.
Due(s, t) ==
  /\ s \in Live
  /\ Listed(s) => upstream[s].changedAt < t /\ Spared(s)

\* What the checkpoint promises, and what a RUNNING run will promise with its.
Kept(s) == state.seeded /\ Due(s, state.checkpoint)
Wanted(r, s) == runs[r].status = "RUNNING" /\ r \in Timed /\ Due(s, Target(r))

\* The window of an incremental run starts early enough and has settled, or is
\* empty; its manifest, once there, lists what it will promise, unless that is
\* promised already; what is settled is fresh; and what RECONCILE does not find
\* in the inventory was not promised.
RunFresh(r) ==
  LET run == runs[r] IN
  run.status = "RUNNING" =>
    /\ run.mode = "INCREMENTAL" =>
         /\ state.seeded
         /\ run.start <= state.checkpoint - Overlap
         /\ run.end = state.checkpoint \/ run.end + Lag <= now
    /\ \A s \in Songs : Wanted(r, s) =>
         /\ run.discovered => run.items[s] # "NONE" \/ Kept(s)
         /\ run.items[s] \in {"SYNCED", "SOURCE_DELETED"} => Fresh(s)
    /\ run.mode = "RECONCILE" =>
         \A s \in Songs :
           run.items[s] # "NONE" /\ s \notin run.present => ~Kept(s)

\* The same of what a worker has discovered.
FoundFresh(w) ==
  LET r == worker[w].run IN
  worker[w].pc = "discovered" =>
    /\ \A s \in Songs : Wanted(r, s) =>
         s \in worker[w].found \/ runs[r].items[s] # "NONE" \/ Kept(s)
    /\ runs[r].mode = "RECONCILE" =>
         \A s \in worker[w].found \ worker[w].present : ~Kept(s)

\* A lane has fetched, or written, the latest state of a song that is or will
\* be promised.
LaneFresh(w, l) ==
  LET s == lane[w][l].song
      r == worker[w].run
  IN
  /\ lane[w][l].stage = "fetched" /\ (Kept(s) \/ Wanted(r, s)) =>
       lane[w][l].ver = upstream[s].changedAt /\ ~lane[w][l].deleted
  /\ lane[w][l].stage = "synced" /\ (Kept(s) \/ Wanted(r, s)) => Fresh(s)
  /\ lane[w][l].stage = "confirmed" => runs[r].mode = "RECONCILE"

\* The checkpoint is where the last window ended.
AtBoundary == state.seeded => state.checkpoint \in Boundaries

FreshInv ==
  /\ AtBoundary
  /\ \A s \in Songs : Kept(s) => Fresh(s)
  /\ \A r \in RunIds : RunFresh(r)
  /\ \A w \in Workers : FoundFresh(w)
  /\ \A w \in Workers, l \in Lanes : LaneFresh(w, l)

WindowInv == flaw # "inventory" => FreshInv

\* A step leaves a song's latest change as it was, or makes one just now.
Ages(s) == upstream'[s] = upstream[s] /\ (Listed(s)' <=> Listed(s))
Stirs(s) == upstream'[s].changedAt = now /\ Listed(s)'

\* A step that moves neither the checkpoint nor a run's window or status.
Calm ==
  /\ UNCHANGED <<state, flaw>> /\ now' \in {now, now + 1}
  /\ \A q \in RunIds : KeepsHeader(q) /\ runs'[q].status = runs[q].status
  /\ \A s \in Songs : Ages(s) \/ Stirs(s)

\* A step that leaves the rows of promised songs fresh.
KeepsFresh ==
  \A s \in Songs :
    /\ Kept(s) \/ \E r \in RunIds : Wanted(r, s)
    /\ Ages(s) /\ Fresh(s)
    => Fresh(s)'

\* A run that has succeeded stays as it is, and with it the boundary it made.
Succeeds(q) == runs[q].status = "SUCCEEDED"
KeepsSuccess(q) == KeepsHeader(q) /\ runs'[q].status = runs[q].status

LEMMA BoundaryOf ==
  ASSUME NEW b
  PROVE  b \in Boundaries <=> \E q \in Timed : Succeeds(q) /\ b = Target(q)
  BY DEF Boundaries, Timed, Target, Succeeds

LEMMA MoreBoundaries ==
  ASSUME \A q \in RunIds : Succeeds(q) => KeepsSuccess(q)
  PROVE  Boundaries \subseteq Boundaries'
<1>1. ASSUME NEW b \in Boundaries
      PROVE  b \in Boundaries'
  <2>1. PICK q \in Timed : Succeeds(q) /\ b = Target(q)
    BY BoundaryOf
  <2>2. q \in Timed' /\ Succeeds(q)' /\ b = Target(q)'
    BY <2>1 DEF Timed, Succeeds, Target, KeepsSuccess, KeepsHeader
  <2>3. QED BY <2>2 DEF Boundaries, Timed, Target, Succeeds
<1>2. QED BY <1>1

LEMMA SameBoundaries ==
  ASSUME \A q \in RunIds : Succeeds(q) \/ Succeeds(q)' => KeepsSuccess(q)
  PROVE  Boundaries' = Boundaries
<1>1. ASSUME NEW b \in Boundaries'
      PROVE  b \in Boundaries
  <2>1. PICK q \in Timed' : Succeeds(q)' /\ b = Target(q)'
    BY <1>1 DEF Boundaries, Timed, Target, Succeeds
  <2>2. q \in Timed /\ Succeeds(q) /\ b = Target(q)
    BY <2>1 DEF Timed, Succeeds, Target, KeepsSuccess, KeepsHeader
  <2>3. QED BY <2>2, BoundaryOf
<1>2. QED BY <1>1, MoreBoundaries

\* A calm step makes no boundary, and the checkpoint stays at one.
LEMMA CalmBoundaries ==
  ASSUME Calm
  PROVE  /\ Boundaries' = Boundaries
         /\ AtBoundary => AtBoundary'
<1>1. Boundaries' = Boundaries
  BY SameBoundaries DEF Calm, KeepsSuccess
<1>2. QED BY <1>1 DEF AtBoundary, Calm

\* What is due by a moment that has passed was due before the step.
LEMMA DuePast ==
  ASSUME TypeInv, NEW s \in Songs, NEW t \in Int, t <= now, Calm, Due(s, t)'
  PROVE  Ages(s) /\ Due(s, t)
<1>1. now \in Nat
  BY DEF TypeInv, CountersOK
<1>2. CASE Ages(s)
  BY <1>2, CalmBoundaries DEF Ages, Due, Live, Spared
<1>3. CASE Stirs(s)
  <2>1. upstream'[s].changedAt = now /\ Listed(s)'
    BY <1>3 DEF Stirs
  <2>2. ~(now < t)
    BY <1>1
  <2>3. QED BY <2>1, <2>2 DEF Due
<1>4. QED BY <1>2, <1>3 DEF Calm

\* So a calm step promises nothing new and forgets nothing of what ages.
LEMMA CalmKept ==
  ASSUME TypeInv, CheckpointInv, Calm, NEW s \in Songs
  PROVE  /\ Kept(s)' => Ages(s) /\ Kept(s)
         /\ Ages(s) /\ Kept(s) => Kept(s)'
         /\ \A r \in RunIds : Wanted(r, s)' => Ages(s) /\ Wanted(r, s)
<1>0. PICK t : t = state.checkpoint
  OBVIOUS
<1>1. /\ t \in Int /\ t <= now /\ state' = state
      /\ Ages(s) \/ Stirs(s)
  BY <1>0 DEF TypeInv, StateOK, CheckpointInv, Calm
<1>2. Kept(s)' => Ages(s) /\ Kept(s)
  <2>1. ASSUME Kept(s)'
        PROVE  Ages(s) /\ Kept(s)
    <3>1. state.seeded /\ Due(s, t)'
      BY <1>0, <1>1, <2>1 DEF Kept, Due
    <3>2. QED BY <1>0, <1>1, <3>1, DuePast DEF Kept
  <2>2. QED BY <2>1
<1>3. Ages(s) /\ Kept(s) => Kept(s)'
  BY <1>1, CalmBoundaries DEF Kept, Due, Ages, Live, Spared
<1>4. ASSUME NEW r \in RunIds, Wanted(r, s)'
      PROVE  Ages(s) /\ Wanted(r, s)
  <2>0. PICK u : u = Target(r)
    OBVIOUS
  <2>1. r \in Timed /\ Target(r)' = u /\ runs[r].status = "RUNNING"
    BY <1>4, <2>0 DEF Wanted, Timed, Target, Calm, KeepsHeader
  <2>2. u \in Int /\ u <= now
    BY <2>0, <2>1 DEF TypeInv, RunsOK, Run, CheckpointInv, Target
  <2>3. Due(s, u)'
    BY <1>4, <2>1 DEF Wanted, Due
  <2>4. QED BY <1>1, <2>0, <2>1, <2>2, <2>3, DuePast DEF Wanted
<1>5. QED BY <1>2, <1>3, <1>4

\* What the checkpoint promises stays fresh.
LEMMA CalmSongs ==
  ASSUME TypeInv, CheckpointInv, FreshInv, Calm, KeepsFresh
  PROVE  \A s \in Songs : Kept(s)' => Fresh(s)'
  BY CalmKept DEF FreshInv, KeepsFresh

\* A run whose manifest is left alone keeps its promises.
LEMMA CalmRun ==
  ASSUME TypeInv, CheckpointInv, FreshInv, Calm, KeepsFresh,
         NEW r \in RunIds, KeepsManifest(r)
  PROVE  RunFresh(r)'
<1>1. /\ runs'[r].status = runs[r].status /\ runs'[r].mode = runs[r].mode
      /\ runs'[r].start = runs[r].start /\ runs'[r].end = runs[r].end
      /\ runs'[r].items = runs[r].items /\ runs'[r].present = runs[r].present
      /\ runs'[r].discovered = runs[r].discovered
      /\ state' = state /\ now' \in {now, now + 1}
  BY DEF Calm, KeepsHeader, KeepsManifest
<1>2. SUFFICES ASSUME runs[r].status = "RUNNING"
               PROVE  RunFresh(r)'
  BY <1>1 DEF RunFresh
<1>3. RunFresh(r)
  BY DEF FreshInv
<1>4. now \in Nat /\ runs[r].end \in Int
  BY DEF TypeInv, CountersOK, RunsOK, Run
<1>5. runs[r].mode = "INCREMENTAL" =>
        /\ state.seeded /\ runs[r].start <= state.checkpoint - Overlap
        /\ runs[r].end = state.checkpoint \/ runs[r].end + Lag <= now'
  BY <1>1, <1>2, <1>3, <1>4, TimingAssumption DEF RunFresh
<1>6. ASSUME NEW s \in Songs, Wanted(r, s)'
      PROVE  /\ runs[r].discovered => runs[r].items[s] # "NONE" \/ Kept(s)'
             /\ runs[r].items[s] \in {"SYNCED", "SOURCE_DELETED"} => Fresh(s)'
  BY <1>2, <1>3, <1>6, CalmKept DEF RunFresh, KeepsFresh
<1>7. runs[r].mode = "RECONCILE" =>
        \A s \in Songs :
          runs[r].items[s] # "NONE" /\ s \notin runs[r].present => ~Kept(s)'
  BY <1>2, <1>3, CalmKept DEF RunFresh
<1>8. QED BY <1>1, <1>5, <1>6, <1>7 DEF RunFresh

\* A lane that rests has what it had.
LEMMA CalmLane ==
  ASSUME TypeInv, CheckpointInv, FreshInv, Calm, KeepsFresh,
         NEW w \in Workers, NEW l \in Lanes, Proceeds(w),
         lane[w][l].stage # "idle" => worker[w].pc \notin EarlyPc,
         lane'[w][l] = lane[w][l]
  PROVE  LaneFresh(w, l)'
<1>1. CASE lane[w][l].stage = "idle"
  BY <1>1 DEF LaneFresh
<1>2. CASE lane[w][l].stage # "idle"
  <2>1. PICK s \in Songs, r \in RunIds :
          s = lane[w][l].song /\ r = worker[w].run
    BY <1>2, OwnRow DEF TypeInv, LanesOK, HasSong
  <2>2. lane'[w][l].song = s /\ worker'[w].run = r
    BY <2>1 DEF Proceeds
  <2>3. LaneFresh(w, l) /\ runs'[r].mode = runs[r].mode
    BY DEF FreshInv, Calm, KeepsHeader
  <2>4. Kept(s)' \/ Wanted(r, s)' =>
          Ages(s) /\ (Kept(s) \/ Wanted(r, s))
    BY CalmKept
  <2>5. Ages(s) => upstream'[s] = upstream[s]
    BY DEF Ages
  <2>6. QED BY <2>1, <2>2, <2>3, <2>4, <2>5 DEF LaneFresh, KeepsFresh
<1>3. QED BY <1>1, <1>2

\* A worker that has discovered and waits has found what it had.
LEMMA CalmFound ==
  ASSUME TypeInv, CheckpointInv, FreshInv, Calm, NEW w \in Workers,
         Proceeds(w), \A q \in RunIds : KeepsManifest(q)
  PROVE  FoundFresh(w)'
<1>1. CASE worker[w].pc # "discovered"
  BY <1>1 DEF FoundFresh, Proceeds
<1>2. CASE worker[w].pc = "discovered"
  <2>1. PICK r \in RunIds : r = worker[w].run
    BY <1>2, OwnRow DEF EarlyPc
  <2>2. /\ worker'[w].run = r /\ worker'[w].found = worker[w].found
        /\ worker'[w].present = worker[w].present
        /\ runs'[r].items = runs[r].items /\ runs'[r].mode = runs[r].mode
        /\ worker[w].found \subseteq Songs
    BY <2>1 DEF Proceeds, KeepsManifest, Calm, KeepsHeader, TypeInv,
                WorkersOK, Worker
  <2>3. /\ \A s \in Songs : Wanted(r, s) =>
             s \in worker[w].found \/ runs[r].items[s] # "NONE" \/ Kept(s)
        /\ runs[r].mode = "RECONCILE" =>
             \A s \in worker[w].found \ worker[w].present : ~Kept(s)
    BY <1>2, <2>1 DEF FreshInv, FoundFresh
  <2>4. \A s \in Songs : Wanted(r, s)' =>
          s \in worker[w].found \/ runs[r].items[s] # "NONE" \/ Kept(s)'
    BY <2>3, CalmKept
  <2>5. runs[r].mode = "RECONCILE" =>
          \A s \in worker[w].found \ worker[w].present : ~Kept(s)'
    BY <2>2, <2>3, CalmKept
  <2>6. QED BY <2>2, <2>4, <2>5 DEF FoundFresh
<1>3. QED BY <1>1, <1>2

\* A step that leaves VocaDB, the state row and the rows of the runs alone.
LEMMA CalmRows ==
  ASSUME TypeInv, KeepsRows, UNCHANGED <<env, state>>
  PROVE  /\ Calm /\ \A s \in Songs : Ages(s)
         /\ \A q \in RunIds : KeepsManifest(q)
         /\ UNCHANGED song => KeepsFresh
<1>1. \A s \in Songs : Ages(s)
  BY DEF env, Ages, Listed
<1>2. Calm
  BY <1>1 DEF Calm, KeepsRows, KeepsRow, env
<1>3. UNCHANGED song => KeepsFresh
  BY DEF env, KeepsFresh, Fresh
<1>4. QED BY <1>1, <1>2, <1>3 DEF KeepsRows, KeepsRow

\* Where nobody moves, a calm step keeps everything.
LEMMA WindowRest ==
  ASSUME TypeInv, CheckpointInv, KnownInv, FreshInv, Calm, KeepsFresh,
         \A q \in RunIds : KeepsManifest(q),
         \A v \in Workers : Proceeds(v), UNCHANGED lane
  PROVE  FreshInv'
<1>1. \A r \in RunIds : RunFresh(r)'
  BY CalmRun
<1>2. \A v \in Workers : FoundFresh(v)'
  BY CalmFound
<1>3. ASSUME NEW v \in Workers, NEW l \in Lanes
      PROVE  LaneFresh(v, l)'
  <2>1. lane[v][l].stage # "idle" => worker[v].pc \notin EarlyPc
    BY BusyLane DEF EarlyPc
  <2>2. QED BY <2>1, CalmLane
<1>4. AtBoundary' /\ \A s \in Songs : Kept(s)' => Fresh(s)'
  BY CalmSongs, CalmBoundaries DEF FreshInv
<1>5. QED BY <1>1, <1>2, <1>3, <1>4 DEF FreshInv

\* The others are not running.
LEMMA OthersFresh ==
  ASSUME KnownInv, NEW w \in Workers, OthersRest(w),
         \A v \in Workers \ {w} : worker[v].pc = "idle"
  PROVE  \A v \in Workers \ {w} :
           FoundFresh(v)' /\ \A l \in Lanes : LaneFresh(v, l)'
<1>1. ASSUME NEW v \in Workers \ {w}
      PROVE  FoundFresh(v)' /\ \A l \in Lanes : LaneFresh(v, l)'
  <2>1. worker'[v].pc = "idle" /\ lane'[v] = lane[v]
    BY DEF OthersRest
  <2>2. \A l \in Lanes : lane'[v][l].stage = "idle"
    BY <2>1, LanesRest
  <2>3. QED BY <2>1, <2>2 DEF FoundFresh, LaneFresh
<1>2. QED BY <1>1

\* A worker whose lanes are idle moves, and has not discovered anything.
LEMMA WindowPlain ==
  ASSUME TypeInv, CheckpointInv, KnownInv, FreshInv, NEW w \in Workers,
         \A v \in Workers \ {w} : worker[v].pc = "idle", OthersRest(w),
         worker'[w].pc # "discovered",
         \A l \in Lanes : lane'[w][l].stage = "idle",
         KeepsRows, UNCHANGED <<env, state, song>>
  PROVE  FreshInv'
<1>1. Calm /\ KeepsFresh /\ \A q \in RunIds : KeepsManifest(q)
  BY CalmRows
<1>2. \A r \in RunIds : RunFresh(r)'
  BY <1>1, CalmRun
<1>3. AtBoundary' /\ \A s \in Songs : Kept(s)' => Fresh(s)'
  BY <1>1, CalmSongs, CalmBoundaries DEF FreshInv
<1>4. FoundFresh(w)' /\ \A l \in Lanes : LaneFresh(w, l)'
  BY DEF FoundFresh, LaneFresh
<1>5. QED BY <1>2, <1>3, <1>4, OthersFresh DEF FreshInv

\* One lane of a worker moves.
LEMMA WindowLane ==
  ASSUME TypeInv, CheckpointInv, KnownInv, FreshInv, Calm, KeepsFresh,
         NEW w \in Workers, NEW l \in Lanes, worker[w].pc = "processing",
         \A v \in Workers \ {w} : worker[v].pc = "idle",
         Proceeds(w), Others(w), OtherLanesRest(w, l),
         \A r \in RunIds : RunFresh(r)', LaneFresh(w, l)'
  PROVE  FreshInv'
<1>1. OthersRest(w)
  BY DEF Others, OtherLanesRest, OthersRest
<1>2. AtBoundary' /\ \A s \in Songs : Kept(s)' => Fresh(s)'
  BY CalmSongs, CalmBoundaries DEF FreshInv
<1>3. FoundFresh(w)'
  BY DEF FoundFresh, Proceeds
<1>4. ASSUME NEW k \in Lanes \ {l}
      PROVE  LaneFresh(w, k)'
  BY CalmLane DEF OtherLanesRest, EarlyPc
<1>5. QED BY <1>1, <1>2, <1>3, <1>4, OthersFresh DEF FreshInv

\* It moves to a stage of which nothing is promised, and writes nothing.
LEMMA WindowLanePlain ==
  ASSUME TypeInv, CheckpointInv, KnownInv, FreshInv,
         NEW w \in Workers, NEW l \in Lanes, worker[w].pc = "processing",
         \A v \in Workers \ {w} : worker[v].pc = "idle",
         Proceeds(w), Others(w), OtherLanesRest(w, l),
         lane'[w][l].stage \notin {"fetched", "synced", "confirmed"},
         KeepsRows, UNCHANGED <<env, state, song>>
  PROVE  FreshInv'
<1>1. Calm /\ KeepsFresh /\ \A q \in RunIds : KeepsManifest(q)
  BY CalmRows
<1>2. \A r \in RunIds : RunFresh(r)'
  BY <1>1, CalmRun
<1>3. LaneFresh(w, l)'
  BY DEF LaneFresh
<1>4. QED BY <1>1, <1>2, <1>3, WindowLane

\* The run that a worker works on is the only one that promises anything.
LEMMA OnlyWanted ==
  ASSUME SyncInv, NEW w \in Workers,
         worker[w].pc \notin EarlyPc \cup {"interrupt"}
  PROVE  /\ worker[w].run \in RunIds
         /\ runs[worker[w].run].status = "RUNNING"
         /\ \A r \in RunIds : runs[r].status = "RUNNING" => r = worker[w].run
         /\ \A r \in RunIds : \A s : Wanted(r, s) => r = worker[w].run
<1>1. /\ worker[w].run \in RunIds
      /\ runs[worker[w].run].status = "RUNNING"
  BY DEF SyncInv, TypeInv, WorkersOK, HasRun, Busy
<1>2. \A r \in RunIds : runs[r].status = "RUNNING" => r = worker[w].run
  BY <1>1 DEF SyncInv, AtMostOneRunning, Running
<1>3. QED BY <1>1, <1>2 DEF Wanted

\* A lane fetches the latest state of its song.
LEMMA WindowFetch ==
  ASSUME SyncInv, CheckpointInv, KnownInv, FreshInv,
         NEW w \in Workers, NEW l \in Lanes, FetchSong(w, l)
  PROVE  FreshInv'
<1>0. PICK s : s = lane[w][l].song
  OBVIOUS
<1> DEFINE rec == [lane[w][l] EXCEPT !.stage = "fetched",
                     !.deleted = (upstream[s].status = "deleted"),
                     !.ver = upstream[s].changedAt]
<1>1. /\ TypeInv /\ worker[w].pc = "processing" /\ SetLane(w, l, rec)
      /\ UNCHANGED <<env, db, worker>>
  BY <1>0 DEF FetchSong, AtStage, SyncInv
<1>2. s \in Songs /\ lane[w][l] \in Lane
  BY <1>0, <1>1, BusyLane DEF FetchSong, AtStage, TypeInv, LanesOK
<1>3. /\ rec.stage = "fetched" /\ rec.song = s
      /\ rec.deleted = (upstream[s].status = "deleted")
      /\ rec.ver = upstream[s].changedAt
  BY <1>0, <1>2 DEF Lane
<1> HIDE DEF rec
<1>4. OtherLanesRest(w, l) /\ lane'[w][l] = rec
  BY <1>1, LaneSet
<1>5. /\ \A v \in Workers \ {w} : worker[v].pc = "idle"
      /\ Proceeds(w) /\ Others(w)
  BY <1>1, HolderExcludes, ProceedsSame DEF SyncInv, Others
<1>6. /\ Calm /\ KeepsFresh /\ upstream' = upstream
      /\ \A q \in RunIds : KeepsManifest(q)
  BY <1>1, RowsSame, CalmRows DEF db, catalog, env
<1>7. LaneFresh(w, l)'
  <2>1. \A r : Kept(s)' \/ Wanted(r, s)' => s \in Live'
    BY DEF Kept, Wanted, Due
  <2>2. s \in Live' => upstream[s].status # "deleted"
    BY <1>6 DEF Live
  <2>3. QED BY <1>3, <1>4, <1>6, <2>1, <2>2 DEF LaneFresh
<1>8. \A r \in RunIds : RunFresh(r)'
  BY <1>1, <1>6, CalmRun
<1>9. QED BY <1>1, <1>4, <1>5, <1>6, <1>7, <1>8, WindowLane

\* A lane writes the row of its song.  What it writes is fresh if the song is
\* promised, and then the lane may say so.
LEMMA WindowWrite ==
  ASSUME SyncInv, CheckpointInv, KnownInv, FreshInv,
         NEW w \in Workers, NEW l \in Lanes, NEW s, NEW row, NEW stage,
         lane[w][l].stage # "idle", s = lane[w][l].song,
         WriteSong(w, s, row), LaneGoes(w, l, stage),
         UNCHANGED <<env, state, worker>>,
         stage \in {"synced", "confirmed", "marked"},
         Kept(s) \/ Wanted(worker[w].run, s) =>
           \/ row.ver = upstream[s].changedAt /\ ~row.deleted
           \/ stage = "marked" /\ row.ver = song[s].ver
                /\ row.deleted = song[s].deleted,
         stage = "confirmed" => runs[worker[w].run].mode = "RECONCILE"
  PROVE  FreshInv'
<1>1. /\ TypeInv /\ worker[w].pc = "processing" /\ s \in Songs
  BY BusyLane DEF SyncInv
<1>2. PICK r \in RunIds : r = worker[w].run
  BY <1>1, OwnRow DEF EarlyPc
<1>3. /\ \A q \in RunIds : Wanted(q, s) => q = r
      /\ \A v \in Workers \ {w} : worker[v].pc = "idle"
      /\ Proceeds(w) /\ Others(w)
  BY <1>1, <1>2, OnlyWanted, HolderExcludes, ProceedsSame
     DEF SyncInv, Others, EarlyPc
<1>4. /\ song'[s] = row
      /\ \A t \in Songs \ {s} : song'[t] = song[t]
  BY <1>1 DEF WriteSong, TypeInv, SongsOK
<1>5. KeepsRows
  BY <1>1, RowsWrite DEF EarlyPc
<1>6. /\ Calm /\ upstream' = upstream
      /\ \A q \in RunIds : KeepsManifest(q)
  BY <1>1, <1>5, CalmRows DEF env
<1>7. KeepsFresh
  <2>1. ASSUME NEW t \in Songs, t # s, Fresh(t)
        PROVE  Fresh(t)'
    BY <1>4, <1>6, <2>1 DEF Fresh
  <2>2. ASSUME Kept(s) \/ Wanted(r, s), Fresh(s)
        PROVE  Fresh(s)'
    BY <1>2, <1>4, <1>6, <2>2 DEF Fresh
  <2>3. QED BY <1>3, <2>1, <2>2 DEF KeepsFresh
<1>8. LaneFresh(w, l)'
  <2>1. /\ lane'[w][l].stage = stage /\ lane'[w][l].song = s
        /\ worker'[w].run = r /\ runs'[r].mode = runs[r].mode
    BY <1>2, <1>5 DEF LaneGoes, KeepsRows, KeepsRow, KeepsHeader
  <2>2. ASSUME stage = "synced", Kept(s)' \/ Wanted(r, s)'
        PROVE  Fresh(s)'
    <3>1. Kept(s) \/ Wanted(r, s)
      BY <1>1, <1>6, <2>2, CalmKept
    <3>2. QED BY <1>2, <1>4, <1>6, <2>2, <3>1 DEF Fresh
  <2>3. QED BY <1>2, <2>1, <2>2 DEF LaneFresh
<1>9. \A q \in RunIds : RunFresh(q)'
  BY <1>1, <1>6, <1>7, CalmRun
<1>10. OtherLanesRest(w, l)
  BY DEF LaneGoes
<1>11. QED BY <1>1, <1>3, <1>6, <1>7, <1>8, <1>9, <1>10, WindowLane

\* syncVocaDbSong writes what was fetched.
LEMMA WindowSyncSong ==
  ASSUME SyncInv, CheckpointInv, KnownInv, FreshInv,
         NEW w \in Workers, NEW l \in Lanes, SyncSong(w, l)
  PROVE  FreshInv'
<1>0. PICK s : s = lane[w][l].song
  OBVIOUS
<1> DEFINE got == lane[w][l]
           row == [status |-> IF got.deleted THEN "SOURCE_DELETED"
                                             ELSE "SYNCED",
                   deleted |-> got.deleted, ver |-> got.ver]
<1>1. /\ got.stage = "fetched" /\ WriteSong(w, s, row)
      /\ LaneGoes(w, l, "synced") /\ UNCHANGED <<env, state, worker>>
  BY <1>0, LaneStaged DEF SyncSong, AtStage, SyncInv
<1>2. row.ver = got.ver /\ row.deleted = got.deleted
  OBVIOUS
<1>3. Kept(s) \/ Wanted(worker[w].run, s) =>
        got.ver = upstream[s].changedAt /\ ~got.deleted
  BY <1>0, <1>1 DEF FreshInv, LaneFresh
<1> HIDE DEF row
<1>4. QED BY <1>0, <1>1, <1>2, <1>3, WindowWrite

\* markSongSyncFailure keeps the row's data.
LEMMA WindowMarkFailure ==
  ASSUME SyncInv, CheckpointInv, KnownInv, FreshInv,
         NEW w \in Workers, NEW l \in Lanes, MarkFailure(w, l)
  PROVE  FreshInv'
<1>0. PICK s : s = lane[w][l].song
  OBVIOUS
<1> DEFINE row == IF song[s].status = "NONE" THEN song[s]
                  ELSE [song[s] EXCEPT !.status =
                          IF lane[w][l].stage = "missing"
                            THEN "SOURCE_MISSING" ELSE "FAILED"]
<1>1. /\ lane[w][l].stage # "idle" /\ WriteSong(w, s, row)
      /\ LaneGoes(w, l, "marked") /\ UNCHANGED <<env, state, worker>>
  BY <1>0, LaneStaged DEF MarkFailure, AtStage, SyncInv
<1>2. song[s] \in LocalRow
  BY <1>0, <1>1, BusyLane DEF SyncInv, TypeInv, SongsOK
<1>3. row.ver = song[s].ver /\ row.deleted = song[s].deleted
  BY <1>2 DEF LocalRow
<1> HIDE DEF row
<1>4. QED BY <1>0, <1>1, <1>3, WindowWrite

\* RECONCILE marks deleted only what nothing has promised.
LEMMA WindowMarkDeleted ==
  ASSUME SyncInv, CheckpointInv, KnownInv, FreshInv,
         NEW w \in Workers, NEW l \in Lanes, MarkDeleted(w, l)
  PROVE  FreshInv'
<1>0. PICK s : s = lane[w][l].song
  OBVIOUS
<1> DEFINE row == IF song[s].status = "NONE" THEN song[s]
                  ELSE [song[s] EXCEPT !.status = "SOURCE_DELETED",
                                       !.deleted = TRUE]
           r == worker[w].run
<1>1. /\ lane[w][l].stage # "idle" /\ WriteSong(w, s, row)
      /\ runs[r].mode = "RECONCILE" /\ s \notin runs[r].present
      /\ LaneGoes(w, l, "confirmed") /\ UNCHANGED <<env, state, worker>>
  BY <1>0, LaneStaged DEF MarkDeleted, AtStage, ConfirmsDeletion, SyncInv
<1>2. /\ s \in Songs /\ worker[w].pc = "processing" /\ r \in RunIds
      /\ runs[r].items[s] # "NONE"
  BY <1>0, <1>1, BusyLane DEF SyncInv
<1>3. ~Kept(s)
  BY <1>1, <1>2, OnlyWanted DEF FreshInv, RunFresh, EarlyPc
<1>4. ~Wanted(r, s)
  BY <1>1 DEF Wanted, Timed
<1> HIDE DEF row
<1>5. QED BY <1>0, <1>1, <1>3, <1>4, WindowWrite

\* An item is settled, as fresh only if its song is.
LEMMA WindowItem ==
  ASSUME SyncInv, CheckpointInv, KnownInv, FreshInv,
         NEW w \in Workers, NEW l \in Lanes,
         NEW status \in {"SYNCED", "SOURCE_DELETED", "FAILED"},
         lane[w][l].stage # "idle", SetItem(w, l, status),
         SetLane(w, l, IdleLane), UNCHANGED <<env, catalog, state, worker>>,
         \/ status = "FAILED"
         \/ runs[worker[w].run].mode = "RECONCILE"
         \/ Wanted(worker[w].run, lane[w][l].song) => Fresh(lane[w][l].song)
  PROVE  FreshInv'
<1>1. /\ TypeInv /\ worker[w].pc = "processing"
  BY BusyLane DEF SyncInv
<1>2. PICK r \in RunIds, s \in Songs :
        /\ r = worker[w].run /\ s = lane[w][l].song
        /\ runs[r].items[s] # "NONE"
  BY <1>1, BusyLane
<1>3. /\ KeepsHeaders
      /\ \A q \in RunIds : q # r => runs'[q] = runs[q]
      /\ runs'[r].status = runs[r].status
      /\ runs'[r].present = runs[r].present
      /\ runs'[r].discovered = runs[r].discovered
      /\ \A t \in Songs :
           runs'[r].items[t] = IF t = s THEN status ELSE runs[r].items[t]
  BY <1>1, <1>2, RowsItem
<1>4. /\ \A t \in Songs : Ages(t)
      /\ UNCHANGED <<song, upstream, state, now, flaw>>
  BY DEF env, catalog, Ages, Listed
<1>5. Calm /\ KeepsFresh
  BY <1>3, <1>4 DEF Calm, KeepsFresh, KeepsHeaders, Fresh
<1>6. \A q \in RunIds \ {r} : RunFresh(q)'
  BY <1>1, <1>3, <1>5, CalmRun DEF KeepsManifest
<1>7. RunFresh(r)'
  <2>1. RunFresh(r) /\ runs[r].status = "RUNNING"
    BY <1>1, <1>2, OnlyWanted DEF FreshInv, EarlyPc
  <2>2. /\ runs'[r].mode = runs[r].mode /\ runs'[r].start = runs[r].start
        /\ runs'[r].end = runs[r].end
    BY <1>3 DEF KeepsHeaders, KeepsHeader
  <2>3. ASSUME NEW t \in Songs, Wanted(r, t)'
        PROVE  /\ runs'[r].discovered =>
                    runs'[r].items[t] # "NONE" \/ Kept(t)'
               /\ runs'[r].items[t] \in {"SYNCED", "SOURCE_DELETED"} =>
                    Fresh(t)'
    <3>1. Wanted(r, t) /\ (Kept(t) => Kept(t)') /\ (Fresh(t) => Fresh(t)')
      BY <1>1, <1>4, <1>5, <2>3, CalmKept DEF Fresh
    <3>2. runs[r].mode # "RECONCILE"
      BY <3>1 DEF Wanted, Timed
    <3>3. CASE t = s
      BY <1>2, <1>3, <3>1, <3>2, <3>3
    <3>4. CASE t # s
      BY <1>3, <2>1, <3>1, <3>4 DEF RunFresh
    <3>5. QED BY <3>3, <3>4
  <2>4. runs'[r].mode = "RECONCILE" =>
          \A t \in Songs : runs'[r].items[t] # "NONE"
                             /\ t \notin runs'[r].present => ~Kept(t)'
    BY <1>1, <1>2, <1>3, <1>5, <2>1, <2>2, CalmKept DEF RunFresh
  <2>5. QED BY <1>4, <2>1, <2>2, <2>3, <2>4 DEF RunFresh
<1>8. /\ OtherLanesRest(w, l) /\ lane'[w][l].stage = "idle"
      /\ Proceeds(w) /\ Others(w)
  BY <1>1, LaneSet, ProceedsSame DEF IdleLane, Others
<1>9. LaneFresh(w, l)'
  BY <1>8 DEF LaneFresh
<1>10. \A v \in Workers \ {w} : worker[v].pc = "idle"
  BY <1>1, HolderExcludes DEF SyncInv
<1>11. QED BY <1>1, <1>5, <1>6, <1>7, <1>8, <1>9, <1>10, WindowLane

\* Every step of a lane.
LEMMA WindowLaneStep ==
  ASSUME SyncInv, CheckpointInv, KnownInv, FreshInv,
         NEW w \in Workers, NEW l \in Lanes, LaneStep(w, l)
  PROVE  FreshInv'
<1>0. TypeInv
  BY DEF SyncInv
<1>1. ASSUME worker[w].pc = "processing", UNCHANGED <<env, db>>,
             Proceeds(w), Others(w), OtherLanesRest(w, l),
             lane'[w][l].stage \in {"idle", "begun", "missing"}
      PROVE  FreshInv'
  <2>1. \A v \in Workers \ {w} : worker[v].pc = "idle"
    BY <1>1, HolderExcludes DEF SyncInv
  <2>2. KeepsRows /\ UNCHANGED <<env, state, song>>
    BY <1>1, RowsSame DEF db
  <2>3. QED BY <1>0, <1>1, <2>1, <2>2, WindowLanePlain
<1>2. ASSUME NEW s \in Songs, TakeItem(w, l, s)
      PROVE  FreshInv'
  <2> DEFINE rec == [IdleLane EXCEPT !.stage = "begun", !.song = s]
  <2>1. rec.stage = "begun" /\ SetLane(w, l, rec)
    BY <1>2 DEF TakeItem, IdleLane
  <2> HIDE DEF rec
  <2>2. OtherLanesRest(w, l) /\ lane'[w][l].stage = "begun"
    BY <1>0, <2>1, LaneSet
  <2>3. /\ worker[w].pc = "processing" /\ UNCHANGED <<env, db>>
        /\ Proceeds(w) /\ Others(w)
    BY <1>0, <1>2, ProceedsTake DEF TakeItem, AtStage
  <2>4. QED BY <1>1, <2>2, <2>3
<1>3. CASE LaneCancelled(w, l)
  BY <1>0, <1>1, <1>3, ProceedsStop DEF LaneCancelled, AtStage
<1>4. CASE FetchNotFound(w, l)
  BY <1>0, <1>1, <1>4, LaneStaged, ProceedsSame
     DEF FetchNotFound, AtStage, LaneGoes, Others
<1>5. CASE FinishItem(w, l)
  <2> DEFINE status == IF lane[w][l].deleted THEN "SOURCE_DELETED"
                                             ELSE "SYNCED"
  <2>1. /\ lane[w][l].stage = "synced" /\ SetItem(w, l, status)
        /\ SetLane(w, l, IdleLane) /\ UNCHANGED <<env, catalog, state, worker>>
    BY <1>5 DEF FinishItem, AtStage
  <2>2. Wanted(worker[w].run, lane[w][l].song) => Fresh(lane[w][l].song)
    BY <2>1 DEF FreshInv, LaneFresh
  <2>3. status \in {"SYNCED", "SOURCE_DELETED", "FAILED"}
    OBVIOUS
  <2> HIDE DEF status
  <2>4. QED BY <2>1, <2>2, <2>3, WindowItem
<1>6. CASE SettleMarkedItem(w, l)
  <2> DEFINE status == MarkedItem(w, l)
  <2>1. /\ lane[w][l].stage \in {"confirmed", "marked"}
        /\ SetItem(w, l, status)
        /\ SetLane(w, l, IdleLane) /\ UNCHANGED <<env, catalog, state, worker>>
    BY <1>6 DEF SettleMarkedItem, AtStage
  <2>2. status = "FAILED" \/ runs[worker[w].run].mode = "RECONCILE"
    BY <2>1 DEF FreshInv, LaneFresh, MarkedItem
  <2>3. status \in {"SYNCED", "SOURCE_DELETED", "FAILED"}
    BY DEF MarkedItem
  <2> HIDE DEF status
  <2>4. QED BY <2>1, <2>2, <2>3, WindowItem
<1>7. QED BY <1>2, <1>3, <1>4, <1>5, <1>6, WindowFetch, WindowSyncSong,
             WindowMarkFailure, WindowMarkDeleted DEF LaneStep

\* What an unflawed discovery leaves out is not wanted by a seed, was promised
\* before the window of an incremental run, or, for RECONCILE, is not live.
LEMMA WindowDiscover ==
  ASSUME SyncInv, CheckpointInv, KnownInv, FreshInv, flaw # "inventory",
         NEW w \in Workers, Discover(w)
  PROVE  FreshInv'
<1> DEFINE r == worker[w].run
           Rec(found, present) ==
             [worker[w] EXCEPT !.pc = "discovered", !.found = found,
                               !.present = present]
<1>1. /\ TypeInv /\ worker[w] \in Worker /\ worker \in [Workers -> Worker]
      /\ worker[w].pc = "chosen" /\ UNCHANGED <<env, db, lane>>
  BY DEF SyncInv, TypeInv, WorkersOK, Discover
<1>2. r \in RunIds /\ runs[r].status = "RUNNING" /\ runs[r] \in Run
  BY <1>1, OnlyWanted, OwnRow DEF EarlyPc
<1>3. /\ worker'[w].pc = "discovered" /\ worker'[w].run = r
      /\ Others(w)
      /\ runs[r].mode = "SEED" => worker'[w].found = Live
      /\ runs[r].mode = "INCREMENTAL" =>
           worker'[w].found \in FeedAnswers(runs[r].start, runs[r].end)
      /\ runs[r].mode = "RECONCILE" =>
           worker'[w].found = Suspects(Live) /\ worker'[w].present = Live
  <2>1. PICK found \in SUBSET Songs, present \in SUBSET Songs :
          worker' = [worker EXCEPT ![w] = Rec(found, present)]
    BY <1>1, DiscoverEffect
  <2>2. worker'[w] = Rec(found, present) /\ Others(w)
    BY <1>1, <2>1, WorkerSet
  <2>3. worker'[w].pc = "discovered" /\ worker'[w].run = r
    BY <1>1, <2>2 DEF Worker
  <2>4. Inventories = {Live}
    BY DEF Inventories
  <2>5. CASE runs[r].mode = "SEED"
    <3>1. worker' = [worker EXCEPT ![w].pc = "discovered", ![w].found = Live]
      BY <2>4, <2>5 DEF Discover
    <3>2. worker'[w].found = Live
      BY <1>1, <3>1 DEF Worker
    <3>3. QED BY <2>2, <2>3, <2>5, <3>2
  <2>6. CASE runs[r].mode = "INCREMENTAL"
    <3>1. PICK ids \in FeedAnswers(runs[r].start, runs[r].end) :
            worker' = [worker EXCEPT ![w].pc = "discovered", ![w].found = ids]
      BY <2>6 DEF Discover
    <3>2. worker'[w].found = ids
      BY <1>1, <3>1 DEF Worker
    <3>3. QED BY <2>2, <2>3, <2>6, <3>2
  <2>7. CASE runs[r].mode = "RECONCILE"
    <3>1. worker' = [worker EXCEPT ![w].pc = "discovered",
                                   ![w].found = Suspects(Live),
                                   ![w].present = Live]
      BY <2>4, <2>7 DEF Discover
    <3>2. worker' = [worker EXCEPT ![w] = Rec(Suspects(Live), Live)]
      BY <1>1, <3>1
    <3>3. worker'[w] = Rec(Suspects(Live), Live)
      BY <1>1, <3>2, WorkerSet
    <3>4. worker'[w].found = Suspects(Live) /\ worker'[w].present = Live
      BY <1>1, <3>3 DEF Worker
    <3>5. QED BY <2>2, <2>3, <2>7, <3>4
  <2>8. CASE runs[r].mode = "IDS"
    BY <2>2, <2>3, <2>8
  <2>9. QED BY <1>2, <2>5, <2>6, <2>7, <2>8 DEF Run, Modes
<1> HIDE DEF Rec
<1>4. /\ Calm /\ KeepsFresh /\ \A q \in RunIds : KeepsManifest(q)
      /\ runs' = runs
  BY <1>1, RowsSame, CalmRows DEF db, catalog
<1>5. /\ \A q \in RunIds : RunFresh(q)'
      /\ AtBoundary' /\ \A s \in Songs : Kept(s)' => Fresh(s)'
  BY <1>1, <1>4, CalmRun, CalmSongs, CalmBoundaries DEF FreshInv
<1>6. ASSUME NEW s \in Songs, Wanted(r, s)
      PROVE  s \in worker'[w].found \/ Kept(s)
  <2>1. runs[r].mode \in {"SEED", "INCREMENTAL"} /\ s \in Live
    BY <1>6 DEF Wanted, Timed, Due
  <2>2. CASE runs[r].mode = "SEED"
    BY <1>3, <2>1, <2>2
  <2>3. CASE runs[r].mode = "INCREMENTAL"
    <3>1. /\ state.seeded
          /\ runs[r].start <= state.checkpoint - Overlap
          /\ runs[r].end = state.checkpoint \/ runs[r].end + Lag <= now
      BY <1>2, <2>3 DEF FreshInv, RunFresh
    <3>2. /\ runs[r].start \in Int /\ runs[r].end \in Int
          /\ state.checkpoint \in Int /\ upstream[s].changedAt \in Int
          /\ now \in Int /\ Lag \in Nat /\ Overlap \in Nat
      BY <1>1, <1>2, TimingAssumption
         DEF Run, TypeInv, StateOK, SourceOK, CountersOK
    <3>3. Due(s, runs[r].end)
      BY <1>6, <2>3 DEF Wanted, Target
    <3>4. CASE Due(s, state.checkpoint)
      BY <3>1, <3>4 DEF Kept
    <3>5. CASE ~Due(s, state.checkpoint)
      <4>1. Listed(s) /\ upstream[s].changedAt < runs[r].end /\ Spared(s)
        BY <2>1, <3>3, <3>5 DEF Due
      <4>2. ~(upstream[s].changedAt < state.checkpoint)
        BY <2>1, <3>5, <4>1 DEF Due
      <4>3. Overlap = 0 => upstream[s].changedAt # state.checkpoint
        BY <3>1, <4>1 DEF FreshInv, AtBoundary, Spared
      <4>4. /\ runs[r].start < upstream[s].changedAt
            /\ upstream[s].changedAt + Lag <= now
        BY <3>1, <3>2, <4>1, <4>2, <4>3
      <4>5. PICK e \in activity :
              e.song = s /\ e.at = upstream[s].changedAt
        BY <4>1 DEF Listed
      <4>6. e \in Between(runs[r].start, runs[r].end) /\ e.at + Lag <= now
        BY <4>1, <4>4, <4>5 DEF Between
      <4>7. \A ids \in FeedAnswers(runs[r].start, runs[r].end) : e.song \in ids
        BY <4>6 DEF FeedAnswers
      <4>8. QED BY <1>3, <2>3, <4>5, <4>7
    <3>6. QED BY <3>4, <3>5
  <2>4. QED BY <2>1, <2>2, <2>3
<1>7. ASSUME runs[r].mode = "RECONCILE",
             NEW s \in worker'[w].found \ worker'[w].present
      PROVE  ~Kept(s)
  BY <1>3, <1>7 DEF Kept, Due
<1>8. FoundFresh(w)'
  <2>1. PICK q \in RunIds : q = r
    BY <1>2
  <2>2. \A s \in Songs : Wanted(q, s)' => s \in worker'[w].found \/ Kept(s)'
    BY <1>1, <1>4, <1>6, <2>1, CalmKept
  <2>3. runs[q].mode = "RECONCILE" =>
          \A s \in worker'[w].found \ worker'[w].present : ~Kept(s)'
    <3>1. \A s : Kept(s)' => s \in Songs
      BY DEF Kept, Due, Live
    <3>2. QED BY <1>1, <1>4, <1>7, <2>1, <3>1, CalmKept
  <2>4. worker'[w].run = q /\ runs'[q].mode = runs[q].mode
    BY <1>3, <1>4, <2>1
  <2>5. QED BY <2>2, <2>3, <2>4 DEF FoundFresh
<1>9. \A l \in Lanes : LaneFresh(w, l)'
  <2>1. \A l \in Lanes : lane'[w][l].stage = "idle"
    BY <1>1, LanesRest
  <2>2. QED BY <2>1 DEF LaneFresh
<1>10. /\ OthersRest(w)
       /\ \A v \in Workers \ {w} : worker[v].pc = "idle"
  BY <1>1, <1>3, HolderExcludes DEF Others, OthersRest, SyncInv
<1>11. QED BY <1>5, <1>8, <1>9, <1>10, OthersFresh DEF FreshInv

\* The manifest lists what was found, and remembers what was present.
LEMMA WindowPersist ==
  ASSUME SyncInv, CheckpointInv, KnownInv, FreshInv,
         NEW w \in Workers, PersistManifest(w)
  PROVE  FreshInv'
<1>0. PICK r \in RunIds : r = worker[w].run
  BY OwnRow DEF PersistManifest, EarlyPc, SyncInv
<1> DEFINE fresh == {s \in worker[w].found : runs[r].items[s] = "NONE"}
           mem == [worker[w] EXCEPT !.pc = "listing", !.found = {},
                                    !.present = {}]
<1>1. /\ TypeInv /\ worker[w] \in Worker /\ worker[w].pc = "discovered"
      /\ UNCHANGED <<env, state, song, lane>>
  BY DEF SyncInv, TypeInv, WorkersOK, PersistManifest, catalog
<1>2. worker'[w].pc = "listing" /\ Others(w)
  <2>1. mem.pc = "listing"
    BY <1>1 DEF Worker
  <2>2. worker' = [worker EXCEPT ![w] = mem]
    BY <1>1 DEF PersistManifest, TypeInv, WorkersOK
  <2> HIDE DEF mem
  <2>3. QED BY <1>1, <2>1, <2>2, WorkerSet
<1> HIDE DEF mem
<1>3. /\ KeepsHeaders
      /\ \A q \in RunIds : q # r => runs'[q] = runs[q]
      /\ runs'[r].status = runs[r].status
      /\ runs'[r].present = runs[r].present \cup (fresh \cap worker[w].present)
      /\ \A s \in Songs : runs'[r].items[s] = IF s \in fresh THEN "PENDING"
                                              ELSE runs[r].items[s]
  BY <1>0, <1>1, RowsPersist
<1>4. /\ \A t \in Songs : Ages(t)
      /\ UNCHANGED <<song, upstream, state, now, flaw>>
  BY <1>1 DEF env, Ages, Listed
<1>5. Calm /\ KeepsFresh
  BY <1>3, <1>4 DEF Calm, KeepsFresh, KeepsHeaders, Fresh
<1>6. \A q \in RunIds \ {r} : RunFresh(q)'
  BY <1>1, <1>3, <1>5, CalmRun DEF KeepsManifest
<1>7. RunFresh(r)'
  <2>1. /\ RunFresh(r) /\ runs[r].status = "RUNNING"
        /\ \A s \in Songs : Wanted(r, s) =>
             s \in worker[w].found \/ runs[r].items[s] # "NONE" \/ Kept(s)
        /\ runs[r].mode = "RECONCILE" =>
             \A s \in worker[w].found \ worker[w].present : ~Kept(s)
    BY <1>0, <1>1, OnlyWanted DEF FreshInv, FoundFresh, EarlyPc
  <2>2. /\ runs'[r].mode = runs[r].mode /\ runs'[r].start = runs[r].start
        /\ runs'[r].end = runs[r].end
    BY <1>3 DEF KeepsHeaders, KeepsHeader
  <2>3. ASSUME NEW t \in Songs, Wanted(r, t)'
        PROVE  /\ runs'[r].items[t] # "NONE" \/ Kept(t)'
               /\ runs'[r].items[t] \in {"SYNCED", "SOURCE_DELETED"} =>
                    Fresh(t)'
    <3>1. Wanted(r, t) /\ (Kept(t) => Kept(t)') /\ (Fresh(t) => Fresh(t)')
      BY <1>1, <1>4, <1>5, <2>3, CalmKept DEF Fresh
    <3>2. CASE t \in fresh
      BY <1>3, <3>2
    <3>3. CASE t \notin fresh
      BY <1>3, <2>1, <3>1, <3>3 DEF RunFresh
    <3>4. QED BY <3>2, <3>3
  <2>4. ASSUME runs[r].mode = "RECONCILE", NEW t \in Songs,
               runs'[r].items[t] # "NONE", t \notin runs'[r].present
        PROVE  ~Kept(t)'
    <3>1. Kept(t)' => Kept(t)
      BY <1>1, <1>5, CalmKept
    <3>2. CASE t \in fresh
      BY <1>3, <2>1, <2>4, <3>1, <3>2
    <3>3. CASE t \notin fresh
      BY <1>3, <2>1, <2>4, <3>1, <3>3 DEF RunFresh
    <3>4. QED BY <3>2, <3>3
  <2>5. QED BY <1>4, <2>1, <2>2, <2>3, <2>4 DEF RunFresh
<1>8. \A l \in Lanes : lane'[w][l].stage = "idle"
  BY <1>1, LanesRest
<1>9. FoundFresh(w)' /\ \A l \in Lanes : LaneFresh(w, l)'
  BY <1>2, <1>8 DEF FoundFresh, LaneFresh
<1>10. /\ OthersRest(w)
       /\ \A v \in Workers \ {w} : worker[v].pc = "idle"
  BY <1>1, <1>2, HolderExcludes DEF Others, OthersRest, SyncInv
<1>11. AtBoundary' /\ \A s \in Songs : Kept(s)' => Fresh(s)'
  BY <1>1, <1>5, CalmSongs, CalmBoundaries DEF FreshInv
<1>12. QED BY <1>6, <1>7, <1>9, <1>10, <1>11, OthersFresh DEF FreshInv

\* A step that leaves VocaDB, the songs and the state row alone leaves what the
\* checkpoint promises as it was.
LEMMA KeptSame ==
  ASSUME UNCHANGED <<env, state, song>>, Boundaries' = Boundaries
  PROVE  \A s \in Songs : (Kept(s)' <=> Kept(s)) /\ (Fresh(s)' <=> Fresh(s))
<1>1. ASSUME NEW s \in Songs
      PROVE  (Kept(s)' <=> Kept(s)) /\ (Fresh(s)' <=> Fresh(s))
  BY DEF Kept, Due, Spared, Live, Listed, Fresh, env
<1>2. QED BY <1>1

\* The window of a new run starts before the checkpoint less the overlap, and
\* ends at the checkpoint or when the feed has settled.
LEMMA WindowCreate ==
  ASSUME SyncInv, CheckpointInv, KnownInv, FreshInv,
         NEW w \in Workers, NEW r \in RunIds, CreateRun(w, r)
  PROVE  FreshInv'
<1> DEFINE mem == [worker[w] EXCEPT !.pc = "chosen", !.run = r]
<1>1. /\ TypeInv /\ worker[w] \in Worker /\ worker[w].pc = "creating"
      /\ UNCHANGED <<env, state, song, lane>>
      /\ worker[w].mode = "INCREMENTAL" => state.seeded
  BY DEF SyncInv, TypeInv, WorkersOK, CreateRun, catalog
<1>2. worker'[w].pc = "chosen" /\ Others(w)
  <2>1. mem.pc = "chosen"
    BY <1>1 DEF Worker
  <2>2. worker' = [worker EXCEPT ![w] = mem]
    BY <1>1 DEF CreateRun, TypeInv, WorkersOK
  <2> HIDE DEF mem
  <2>3. QED BY <1>1, <2>1, <2>2, WorkerSet
<1> HIDE DEF mem
<1>3. /\ \A q \in RunIds : q # r => runs'[q] = runs[q]
      /\ runs'[r] = NewRun(worker[w].mode, worker[w].ids)
      /\ runs[r].status = "FREE"
  BY <1>1, RowsCreate
<1>4. \A q \in RunIds : runs[q].status # "RUNNING"
  BY <1>1 DEF SyncInv, Alone, Running
<1>5. \A q \in RunIds \ {r} : RunFresh(q)'
  BY <1>3, <1>4 DEF RunFresh
<1>6. RunFresh(r)'
  <2>1. /\ runs'[r].mode = worker[w].mode
        /\ runs'[r].mode = "INCREMENTAL" =>
             runs'[r].start = WindowStart /\ runs'[r].end = WindowEnd
        /\ runs'[r].mode # "IDS" =>
             \A s \in Songs : runs'[r].items[s] = "NONE"
    BY <1>3 DEF NewRun
  <2>2. runs'[r].mode # "IDS" => ~runs'[r].discovered
    <3>1. runs'[r].discovered = (worker[w].mode = "IDS")
      BY <1>3 DEF NewRun
    <3>2. QED BY <2>1, <3>1
  <2>3. /\ WindowStart <= state.checkpoint - Overlap
        /\ WindowEnd = state.checkpoint \/ WindowEnd + Lag <= now
    <3>1. now \in Int /\ state.checkpoint \in Int /\ Lag \in Int
          /\ Overlap \in Int
      BY <1>1, TimingAssumption DEF TypeInv, CountersOK, StateOK
    <3>2. QED BY <3>1 DEF WindowStart, WindowEnd, MinOf, MaxOf
  <2>4. \A s : Wanted(r, s)' => runs'[r].mode \in {"SEED", "INCREMENTAL"}
    BY DEF Wanted, Timed
  <2>5. now' = now /\ state' = state
    BY <1>1 DEF env
  <2>6. QED BY <1>1, <2>1, <2>2, <2>3, <2>4, <2>5 DEF RunFresh
<1>7. \A l \in Lanes : lane'[w][l].stage = "idle"
  BY <1>1, LanesRest
<1>8. FoundFresh(w)' /\ \A l \in Lanes : LaneFresh(w, l)'
  BY <1>2, <1>7 DEF FoundFresh, LaneFresh
<1>9. /\ OthersRest(w)
      /\ \A v \in Workers \ {w} : worker[v].pc = "idle"
  BY <1>1, <1>2, HolderExcludes DEF Others, OthersRest, SyncInv
<1>10. AtBoundary' /\ \A s \in Songs : Kept(s)' => Fresh(s)'
  <2>1. \A q \in RunIds : ~Succeeds(q) \/ KeepsSuccess(q)
    BY <1>3, RowSame DEF Succeeds, KeepsSuccess, KeepsRow
  <2>2. \A q \in RunIds : ~Succeeds(q)' \/ KeepsSuccess(q)
    BY <1>3, RowSame DEF NewRun, Succeeds, KeepsSuccess, KeepsRow
  <2>3. Boundaries' = Boundaries
    BY <2>1, <2>2, SameBoundaries
  <2>4. QED BY <1>1, <2>3, KeptSame DEF FreshInv, AtBoundary
<1>11. QED BY <1>5, <1>6, <1>8, <1>9, <1>10, OthersFresh DEF FreshInv

\* A commit moves the checkpoint to the target of a run that has settled every
\* song it promises, and none as failed.
LEMMA WindowCommit ==
  ASSUME SyncInv, CheckpointInv, KnownInv, SettledInv, FreshInv,
         NEW w \in Workers, FinalizeCommit(w), UNCHANGED <<env, song>>,
         Others(w), worker'[w].pc \in {"idle", "interrupt"},
         \A v \in Workers \ {w} : lane'[v] = lane[v],
         \A l \in Lanes : lane'[w][l].stage = "idle"
  PROVE  FreshInv'
<1>0. TypeInv /\ worker[w].pc = "committing"
  BY DEF SyncInv, FinalizeCommit
<1>1. PICK r \in RunIds : r = worker[w].run
  BY <1>0, OwnRow DEF EarlyPc
<1>2. /\ runs[r].status = "RUNNING" /\ runs[r] \in Run
      /\ \A q \in RunIds : runs[q].status = "RUNNING" => q = r
  BY <1>0, <1>1, OnlyWanted, OwnRow DEF EarlyPc
<1>3. /\ \A q \in RunIds : q # r => runs'[q] = runs[q]
      /\ runs'[r].status = worker[w].verdict /\ worker[w].verdict \in Terminal
  BY <1>0, <1>1, RowsCommit
<1>4. \A q \in RunIds : RunFresh(q)'
  <2>1. \A q \in RunIds : runs'[q].status # "RUNNING"
    BY <1>2, <1>3 DEF Terminal
  <2>2. QED BY <2>1 DEF RunFresh
<1>5. ASSUME worker[w].verdict = "SUCCEEDED", NEW s \in Songs, Wanted(r, s)
      PROVE  Fresh(s)
  <2>1. /\ runs[r].discovered /\ runs[r].items[s] # "PENDING"
        /\ Verdict(runs[r].items) = "SUCCEEDED"
    BY <1>0, <1>1, <1>5 DEF SettledInv, Covered, Ready
  <2>2. runs[r].items[s] # "FAILED"
    BY <2>1, VerdictHonest DEF Failures
  <2>3. runs[r].items[s] \in ItemStatus
    BY <1>2 DEF Run
  <2>4. CASE Kept(s)
    BY <2>4 DEF FreshInv
  <2>5. CASE ~Kept(s)
    <3>1. runs[r].items[s] \in {"SYNCED", "SOURCE_DELETED"}
      BY <1>2, <1>5, <2>1, <2>2, <2>3, <2>5
         DEF FreshInv, RunFresh, ItemStatus, Settled
    <3>2. QED BY <1>2, <1>5, <3>1 DEF FreshInv, RunFresh
  <2>6. QED BY <2>4, <2>5
<1>6. \/ /\ state'.seeded = state.seeded
         /\ state'.checkpoint = state.checkpoint
      \/ /\ worker[w].verdict = "SUCCEEDED" /\ r \in Timed
         /\ state'.checkpoint = Target(r)
  <2>1. CASE state' = state
    BY <2>1
  <2>2. CASE state' # state
    <3>1. /\ state' = AdvancedState(runs[r])
          /\ worker[w].verdict = "SUCCEEDED" /\ runs[r].mode # "IDS"
      BY <1>1, <2>2 DEF FinalizeCommit, Advances
    <3>2. CASE runs[r].mode = "RECONCILE"
      BY <1>0, <3>1, <3>2 DEF AdvancedState, TypeInv, StateOK
    <3>3. CASE runs[r].mode \in {"SEED", "INCREMENTAL"}
      BY <3>1, <3>3 DEF AdvancedState, Target, Timed
    <3>4. QED BY <1>2, <3>1, <3>2, <3>3 DEF Run, Modes
  <2>3. QED BY <2>1, <2>2
<1>7. Boundaries \subseteq Boundaries'
  <2>1. \A q \in RunIds : Succeeds(q) => KeepsSuccess(q)
    BY <1>2, <1>3, RowSame DEF Succeeds, KeepsSuccess, KeepsRow
  <2>2. QED BY <2>1, MoreBoundaries
<1>8. AtBoundary'
  <2>1. CASE /\ state'.seeded = state.seeded
             /\ state'.checkpoint = state.checkpoint
    BY <1>7, <2>1 DEF FreshInv, AtBoundary
  <2>2. CASE /\ worker[w].verdict = "SUCCEEDED" /\ r \in Timed
             /\ state'.checkpoint = Target(r)
    <3>1. KeepsHeader(r)
      BY <1>0, <1>1, RowsCommit
    <3>2. r \in Timed' /\ Succeeds(r)' /\ state'.checkpoint = Target(r)'
      BY <1>3, <2>2, <3>1 DEF Timed, Target, Succeeds, KeepsHeader
    <3>3. QED BY <3>2 DEF AtBoundary, Boundaries, Timed, Target, Succeeds
  <2>3. QED BY <1>6, <2>1, <2>2
<1>9. ASSUME NEW s \in Songs, Kept(s)'
      PROVE  Fresh(s)'
  <2>1. PICK t : t = state'.checkpoint
    OBVIOUS
  <2>2. state'.seeded /\ Due(s, t)
    BY <1>7, <1>9, <2>1 DEF Kept, Due, Spared, Live, Listed, env
  <2>3. Fresh(s)' <=> Fresh(s)
    BY DEF Fresh, env
  <2>4. CASE state'.seeded = state.seeded /\ t = state.checkpoint
    BY <2>2, <2>3, <2>4 DEF FreshInv, Kept
  <2>5. CASE worker[w].verdict = "SUCCEEDED" /\ r \in Timed /\ t = Target(r)
    <3>1. Wanted(r, s)
      BY <1>2, <2>2, <2>5 DEF Wanted
    <3>2. QED BY <1>5, <2>3, <2>5, <3>1
  <2>6. QED BY <1>6, <2>1, <2>4, <2>5
<1>10. FoundFresh(w)' /\ \A l \in Lanes : LaneFresh(w, l)'
  BY DEF FoundFresh, LaneFresh
<1>11. /\ OthersRest(w)
       /\ \A v \in Workers \ {w} : worker[v].pc = "idle"
  BY <1>0, HolderExcludes DEF Others, OthersRest, SyncInv
<1>12. QED BY <1>4, <1>8, <1>9, <1>10, <1>11, OthersFresh DEF FreshInv

\* The steps of a worker that promise nothing.
LEMMA WindowMoves ==
  ASSUME SyncInv, CheckpointInv, KnownInv, FreshInv, NEW w \in Workers,
         \/ \E r \in RunIds : ResumeRun(w, r)
         \/ DecideToCreate(w) \/ RejectRequest(w) \/ RefuseToCreate(w)
         \/ SkipDiscovery(w) \/ ListPending(w) \/ SettleLanes(w)
         \/ CountItems(w) \/ CheckpointConflict(w) \/ ObserveSignal(w)
         \/ WindowSaturates(w)
         \/ RecordInterruption(w) \/ StepFails(w) \/ Crash(w)
  PROVE  FreshInv'
<1>0. TypeInv /\ worker[w] \in Worker /\ worker \in [Workers -> Worker]
  BY DEF SyncInv, TypeInv, WorkersOK
<1>1. ASSUME worker[w].pc # "idle", OthersRest(w),
             worker'[w].pc # "discovered",
             \A l \in Lanes : lane'[w][l].stage = "idle",
             KeepsRows, UNCHANGED <<env, state, song>>
      PROVE  FreshInv'
  BY <1>0, <1>1, HolderExcludes, WindowPlain DEF SyncInv
<1>2. ASSUME worker[w].pc \notin {"idle", "processing"}, NEW mem,
             worker' = [worker EXCEPT ![w] = mem], mem.pc # "discovered",
             lane' = lane, KeepsRows, UNCHANGED <<env, state, song>>
      PROVE  FreshInv'
  <2>1. worker'[w] = mem /\ Others(w)
    BY <1>0, <1>2, WorkerSet
  <2>2. OthersRest(w) /\ \A l \in Lanes : lane'[w][l].stage = "idle"
    BY <1>2, <2>1, LanesRest DEF Others, OthersRest
  <2>3. QED BY <1>1, <1>2, <2>1, <2>2
<1>3. ASSUME worker[w].pc # "idle", Exit(w), KeepsRows,
             UNCHANGED <<env, state, song>>
      PROVE  FreshInv'
  BY <1>0, <1>1, <1>3, ExitSet
<1>4. ASSUME worker[w].pc \notin {"idle", "processing"}, NEW pc,
             Goto(w, pc), pc # "discovered", lane' = lane, UNCHANGED <<env, db>>
      PROVE  FreshInv'
  <2> DEFINE mem == [worker[w] EXCEPT !.pc = pc]
  <2>1. worker' = [worker EXCEPT ![w] = mem] /\ mem.pc # "discovered"
    BY <1>0, <1>4 DEF Goto, Worker
  <2> HIDE DEF mem
  <2>2. QED BY <1>2, <1>4, <2>1, RowsSame DEF db
<1>5. ASSUME NEW r \in RunIds, ResumeRun(w, r)
      PROVE  FreshInv'
  <2> DEFINE mem == [worker[w] EXCEPT !.pc = "chosen", !.run = r]
  <2>1. worker' = [worker EXCEPT ![w] = mem] /\ mem.pc # "discovered"
    BY <1>0, <1>5 DEF ResumeRun, Worker
  <2> HIDE DEF mem
  <2>2. /\ worker[w].pc = "locked" /\ KeepsRows
        /\ UNCHANGED <<env, state, song, lane>>
    BY <1>0, <1>5, RowsResume DEF ResumeRun, catalog
  <2>3. QED BY <1>2, <2>1, <2>2
<1>6. CASE ListPending(w)
  <2> DEFINE queue == {s \in Songs : runs[worker[w].run].items[s] = "PENDING"}
             mem == [worker[w] EXCEPT !.pc = "processing", !.queue = queue]
  <2>1. worker' = [worker EXCEPT ![w] = mem] /\ mem.pc # "discovered"
    BY <1>0, <1>6 DEF ListPending, Worker
  <2> HIDE DEF mem
  <2>2. QED BY <1>2, <1>6, <2>1, RowsSame DEF ListPending, db, catalog
<1>7. CASE CountItems(w)
  <2> DEFINE mem == [worker[w] EXCEPT !.pc = "committing",
                       !.verdict = Verdict(runs[worker[w].run].items)]
  <2>1. worker' = [worker EXCEPT ![w] = mem] /\ mem.pc # "discovered"
    BY <1>0, <1>7 DEF CountItems, Worker
  <2> HIDE DEF mem
  <2>2. QED BY <1>2, <1>7, <2>1, RowsSame DEF CountItems, db, catalog
<1>8. CASE SettleLanes(w)
  <2> DEFINE mem == [worker[w] EXCEPT !.pc = AfterLanes(w), !.queue = {}]
  <2>1. worker' = [worker EXCEPT ![w] = mem] /\ mem.pc # "discovered"
    BY <1>0, <1>8 DEF SettleLanes, Worker, AfterLanes
  <2> HIDE DEF mem
  <2>2. worker'[w].pc # "discovered" /\ Others(w)
    BY <1>0, <2>1, WorkerSet
  <2>3. /\ worker[w].pc = "processing" /\ UNCHANGED <<env, db, lane>>
        /\ \A l \in Lanes : lane[w][l].stage = "idle"
    BY <1>8 DEF SettleLanes
  <2>4. QED BY <1>1, <2>2, <2>3, RowsSame DEF db, catalog, Others, OthersRest
<1>9. CASE RejectRequest(w) \/ RefuseToCreate(w) \/ Crash(w)
  BY <1>3, <1>9, RowsSame DEF RejectRequest, RefuseToCreate, Crash, db, catalog
<1>10. CASE RecordInterruption(w)
  BY <1>0, <1>3, <1>10, RowsInterruption DEF RecordInterruption
<1>11. CASE StepFails(w)
  <2>1. CASE worker[w].pc # "idle" /\ Exit(w) /\ UNCHANGED <<env, db>>
    BY <1>3, <2>1, RowsSame DEF db, catalog
  <2>2. CASE /\ worker[w].pc \notin {"idle", "processing"}
             /\ Goto(w, "interrupt") /\ lane' = lane /\ UNCHANGED <<env, db>>
    BY <1>4, <2>2
  <2>3. QED BY <1>11, <2>1, <2>2 DEF StepFails
<1>12. CASE \/ DecideToCreate(w) \/ SkipDiscovery(w) \/ CheckpointConflict(w)
            \/ ObserveSignal(w) \/ WindowSaturates(w)
  BY <1>4, <1>12
     DEF DecideToCreate, SkipDiscovery, CheckpointConflict, ObserveSignal,
         WindowSaturates
<1>13. QED BY <1>5, <1>6, <1>7, <1>8, <1>9, <1>10, <1>11, <1>12

\* A commit, answered or not.
LEMMA WindowFinalize ==
  ASSUME SyncInv, CheckpointInv, KnownInv, SettledInv, FreshInv,
         NEW w \in Workers, FinalizeRun(w) \/ FinalizeAnswerLost(w)
  PROVE  FreshInv'
<1>0. TypeInv
  BY DEF SyncInv
<1>1. CASE FinalizeRun(w)
  BY <1>0, <1>1, ExitSet, WindowCommit DEF FinalizeRun, OthersRest, Others
<1>2. CASE FinalizeAnswerLost(w)
  <2>1. /\ FinalizeCommit(w) /\ Goto(w, "interrupt") /\ lane' = lane
        /\ UNCHANGED <<env, song>> /\ worker[w].pc = "committing"
    BY <1>2 DEF FinalizeAnswerLost, FinalizeCommit
  <2>2. worker'[w].pc = "interrupt" /\ Others(w)
    BY <1>0, <2>1, GotoSet
  <2>3. \A l \in Lanes : lane'[w][l].stage = "idle"
    BY <2>1, LanesRest
  <2>4. QED BY <2>1, <2>2, <2>3, WindowCommit
<1>3. QED BY <1>1, <1>2

\* The faults of the lanes, and a signal.
LEMMA WindowFault ==
  ASSUME SyncInv, CheckpointInv, KnownInv, SettledInv, FreshInv,
         NEW w \in Workers, FaultStep(w)
  PROVE  FreshInv'
<1>0. TypeInv
  BY DEF SyncInv
<1>1. ASSUME NEW l \in Lanes, worker[w].pc = "processing",
             UNCHANGED <<env, db>>, Proceeds(w), Others(w),
             OtherLanesRest(w, l), lane'[w][l].stage \in {"idle", "failing"}
      PROVE  FreshInv'
  <2>1. \A v \in Workers \ {w} : worker[v].pc = "idle"
    BY <1>1, HolderExcludes DEF SyncInv
  <2>2. KeepsRows /\ UNCHANGED <<env, state, song>>
    BY <1>1, RowsSame DEF db
  <2>3. QED BY <1>0, <1>1, <2>1, <2>2, WindowLanePlain
<1>2. ASSUME NEW l \in Lanes, MarkFails(w, l)
      PROVE  FreshInv'
  BY <1>0, <1>1, <1>2, ProceedsStop DEF MarkFails, AtStage
<1>3. ASSUME NEW l \in Lanes, ItemError(w, l)
      PROVE  FreshInv'
  <2>1. worker[w].pc = "processing" /\ UNCHANGED <<env, db>>
    BY <1>3 DEF ItemError, AtStage
  <2>2. CASE StopLanes(w, l)
    BY <1>0, <1>1, <2>1, <2>2, ProceedsStop
  <2>3. CASE SetStage(w, l, "failing") /\ UNCHANGED worker
    BY <1>0, <1>1, <2>1, <2>3, LaneStaged, ProceedsSame DEF LaneGoes, Others
  <2>4. QED BY <1>3, <2>2, <2>3 DEF ItemError
<1>4. ASSUME NEW l \in Lanes, NEW s \in Songs, BeginFails(w, l, s)
      PROVE  FreshInv'
  <2>1. /\ worker[w].pc = "processing" /\ UNCHANGED <<env, db, lane>>
        /\ lane[w][l].stage = "idle" /\ Proceeds(w) /\ Others(w)
    BY <1>0, <1>4, ProceedsBegin DEF BeginFails, AtStage
  <2>2. OtherLanesRest(w, l)
    BY <2>1 DEF OtherLanesRest
  <2>3. QED BY <1>1, <2>1, <2>2
<1>5. CASE Signal(w)
  <2>1. /\ Proceeds(w) /\ Others(w) /\ lane' = lane /\ UNCHANGED <<env, db>>
    BY <1>0, <1>5, ProceedsSignal DEF Signal, OthersRest, Others
  <2>2. \A v \in Workers : Proceeds(v)
    BY <2>1, ProceedsSame DEF Others
  <2>3. KeepsRows /\ UNCHANGED <<env, state, song>>
    BY <2>1, RowsSame DEF db, catalog
  <2>4. QED BY <1>0, <2>1, <2>2, <2>3, CalmRows, WindowRest
<1>6. QED BY <1>2, <1>3, <1>4, <1>5, WindowMoves, WindowFinalize DEF FaultStep

\* The clock, VocaDB, the lock's session and a process that starts.
LEMMA WindowEnvironment ==
  ASSUME SyncInv, CheckpointInv, KnownInv, FreshInv,
         \/ Tick \/ Burst \/ DropLock \/ UNCHANGED vars
         \/ \E s \in Songs, status \in SourceStatus : SourceChange(s, status)
         \/ \E w \in Workers, req \in Requests : Start(w, req)
  PROVE  FreshInv'
<1>0. TypeInv
  BY DEF SyncInv
<1>1. ASSUME Calm, UNCHANGED <<song, runs, worker, lane>>,
             \A s \in Songs : Ages(s) => upstream'[s] = upstream[s]
      PROVE  FreshInv'
  <2>1. KeepsFresh
    BY <1>1 DEF KeepsFresh, Fresh
  <2>2. \A v \in Workers : Proceeds(v)
    BY <1>1, ProceedsSame
  <2>3. \A q \in RunIds : KeepsManifest(q)
    BY <1>1 DEF KeepsManifest
  <2>4. QED BY <1>0, <1>1, <2>1, <2>2, <2>3, WindowRest
<1>2. CASE Tick \/ Burst \/ DropLock \/ UNCHANGED vars
  <2>1. /\ UNCHANGED <<upstream, activity, flaw, song, state, runs, worker,
                       lane>>
        /\ now' \in {now, now + 1}
    BY <1>2 DEF Tick, Burst, DropLock, vars, env, db, memory
  <2>2. \A s \in Songs : Ages(s)
    BY <2>1 DEF Ages, Listed
  <2>3. Calm
    BY <2>1, <2>2 DEF Calm, KeepsHeader
  <2>4. QED BY <1>1, <2>1, <2>3 DEF Ages
<1>3. ASSUME NEW s \in Songs, NEW status \in SourceStatus,
             SourceChange(s, status)
      PROVE  FreshInv'
  <2> DEFINE entry == [song |-> s, at |-> now, status |-> status]
             mem == [status |-> status, changedAt |-> now]
  <2>1. /\ activity' = activity \cup {entry}
        /\ upstream \in [Songs -> [status : SourceStatus, changedAt : Int]]
        /\ upstream' = [upstream EXCEPT ![s] = mem]
        /\ UNCHANGED <<song, state, runs, worker, lane, flaw, now>>
    BY <1>0, <1>3 DEF SourceChange, TypeInv, SourceOK, db, memory
  <2>2. entry.song = s /\ entry.at = now /\ mem.changedAt = now
    OBVIOUS
  <2> HIDE DEF entry, mem
  <2>3. /\ upstream'[s] = mem
        /\ \A t \in Songs \ {s} : upstream'[t] = upstream[t]
    BY <2>1
  <2>4. Stirs(s)
    BY <2>1, <2>2, <2>3 DEF Stirs, Listed
  <2>5. \A t \in Songs \ {s} : Ages(t)
    BY <2>1, <2>2, <2>3 DEF Ages, Listed
  <2>6. Calm
    BY <2>1, <2>4, <2>5 DEF Calm, KeepsHeader
  <2>7. QED BY <1>1, <2>1, <2>6 DEF Ages
<1>4. ASSUME NEW w \in Workers, NEW req \in Requests, Start(w, req)
      PROVE  FreshInv'
  <2> DEFINE mem == [IdleWorker EXCEPT !.pc = "locked", !.kind = req.kind,
                                       !.mode = req.mode, !.ids = req.ids]
  <2>1. /\ worker' = [worker EXCEPT ![w] = mem] /\ mem.pc = "locked"
        /\ UNCHANGED <<env, db, lane>>
    BY <1>4 DEF Start, IdleWorker
  <2> HIDE DEF mem
  <2>2. worker'[w].pc = "locked" /\ Others(w)
    BY <1>0, <2>1, WorkerSet
  <2>3. \A v \in Workers : worker[v].pc = "idle"
    BY <1>4, WorkersAssumption DEF Start, LockFree, SyncInv, Holder
  <2>4. OthersRest(w) /\ \A l \in Lanes : lane'[w][l].stage = "idle"
    BY <2>1, <2>2, <2>3, LanesRest DEF Others, OthersRest
  <2>5. KeepsRows /\ UNCHANGED <<env, state, song>>
    BY <2>1, RowsSame DEF db, catalog
  <2>6. QED BY <1>0, <2>2, <2>3, <2>4, <2>5, WindowPlain
<1>5. QED BY <1>2, <1>3, <1>4

\* No step of a process changes which endpoint of VocaDB is flawed.
LEMMA FlawConstant ==
  ASSUME [Next]_vars
  PROVE  flaw' = flaw
<1>1. CASE Tick \/ Burst \/ DropLock \/ UNCHANGED vars
           \/ \E s \in Songs, status \in SourceStatus : SourceChange(s, status)
  BY <1>1 DEF Tick, Burst, DropLock, SourceChange, vars, env
<1>2. ASSUME NEW w \in Workers, NEW req \in Requests, Start(w, req)
      PROVE  flaw' = flaw
  BY <1>2 DEF Start, env
<1>3. ASSUME NEW w \in Workers, WorkerStep(w)
      PROVE  flaw' = flaw
  BY <1>3 DEF WorkerStep, ResumeRun, CreateRun, DecideToCreate, RejectRequest,
     RefuseToCreate, Discover, PersistManifest, SkipDiscovery, ListPending,
     SettleLanes, CountItems, FinalizeRun, CheckpointConflict, ObserveSignal,
     WindowSaturates, RecordInterruption, env
<1>4. ASSUME NEW w \in Workers, NEW l \in Lanes, LaneStep(w, l)
      PROVE  flaw' = flaw
  BY <1>4 DEF LaneStep, TakeItem, LaneCancelled, FetchSong, FetchNotFound,
     SyncSong, FinishItem, MarkDeleted, MarkFailure, SettleMarkedItem, env
<1>5. ASSUME NEW w \in Workers, FaultStep(w)
      PROVE  flaw' = flaw
  BY <1>5 DEF FaultStep, ItemError, MarkFails, BeginFails, StepFails,
     FinalizeAnswerLost, Crash, Signal, env
<1>6. QED BY <1>1, <1>2, <1>3, <1>4, <1>5 DEF Next

\* Nothing is promised yet.
LEMMA WindowInit == Init => WindowInv
<1>1. SUFFICES ASSUME Init
               PROVE  FreshInv
  BY DEF WindowInv
<1>2. AtBoundary /\ \A s \in Songs : ~Kept(s)
  BY <1>1 DEF Init, Kept, AtBoundary
<1>3. ASSUME NEW r \in RunIds
      PROVE  RunFresh(r)
  BY <1>1 DEF Init, FreeRun, RunFresh
<1>4. ASSUME NEW w \in Workers
      PROVE  FoundFresh(w)
  BY <1>1, IdleWorkerOK DEF Init, FoundFresh
<1>5. ASSUME NEW w \in Workers, NEW l \in Lanes
      PROVE  LaneFresh(w, l)
  BY <1>1, IdleLaneOK DEF Init, LaneFresh
<1>6. QED BY <1>2, <1>3, <1>4, <1>5 DEF FreshInv

\* Every step keeps what is promised fresh.
LEMMA WindowNext ==
  ASSUME SyncInv, CheckpointInv, KnownInv, SettledInv, WindowInv, [Next]_vars
  PROVE  WindowInv'
<1>1. SUFFICES ASSUME flaw # "inventory"
               PROVE  FreshInv'
  BY FlawConstant DEF WindowInv
<1>2. FreshInv
  BY <1>1 DEF WindowInv
<1>3. ASSUME NEW w \in Workers, WorkerStep(w)
      PROVE  FreshInv'
  BY <1>1, <1>2, <1>3, WindowMoves, WindowCreate, WindowDiscover,
     WindowPersist, WindowFinalize DEF WorkerStep
<1>4. QED BY <1>2, <1>3, WindowEnvironment, WindowLaneStep, WindowFault
          DEF Next

\* In every reachable state of a system that keeps its lock.
THEOREM WindowInvariant ==
  ASSUME LockMayDrop = FALSE
  PROVE  Spec => []WindowInv
<1> DEFINE I == SyncInv /\ CheckpointInv /\ KnownInv /\ SettledInv
<1>1. Spec => []I
  BY SettledInvariant, CheckpointInvariant, KnownInvariant, PTL
<1>2. Init => WindowInv
  BY WindowInit
<1>3. I /\ WindowInv /\ [Next]_vars => WindowInv'
  BY WindowNext
<1> HIDE DEF I
<1>4. QED BY <1>1, <1>2, <1>3, PTL DEF Spec

\* No change at VocaDB falls between two windows.  While VocaDB's inventory is
\* complete and its feed shows every change at most Lag late, the latest change
\* of a live song that is before the checkpoint is in its local row: for every
\* Lag and Overlap, across runs that are interrupted, resumed, stopped by a
\* failed item or by a saturated window, or finished without an answer, with
\* songs that change, go and come back while a run is listing or fetching them,
\* and with any number of lanes.  Without an overlap (Overlap = 0) the promise
\* leaves out a change in the very instant of a checkpoint, as windows that
\* exclude both their ends do.
THEOREM NothingSkipped ==
  ASSUME LockMayDrop = FALSE
  PROVE  Spec => []NoChangeSkipped
<1>1. WindowInv => NoChangeSkipped
  <2>1. ASSUME WindowInv, state.seeded, flaw # "inventory", NEW s \in Live,
               upstream[s].changedAt < state.checkpoint, Spared(s)
        PROVE  song[s].ver = upstream[s].changedAt /\ ~song[s].deleted
    <3>1. s \in Songs /\ Kept(s)
      BY <2>1 DEF Kept, Due, Live
    <3>2. QED BY <2>1, <3>1 DEF WindowInv, FreshInv, Fresh
  <2>2. QED BY <2>1 DEF NoChangeSkipped, Spared
<1>2. QED BY <1>1, WindowInvariant, PTL
=============================================================================
