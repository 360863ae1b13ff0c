--------------------------- MODULE SongSyncProofs ---------------------------
(***************************************************************************)
(* Type correctness of the song sync worker, for every set of songs,       *)
(* workers, lanes and requests and every bound.                            *)
(*                                                                         *)
(* TypeOK is not inductive: FinalizeRun writes to the run of a worker and  *)
(* FinishItem to the item of a lane's song, so a worker that has chosen a  *)
(* run must have one (HasRun) and a busy lane must have a song (HasSong).  *)
(* TypeInv adds both.  The proof has one lemma per action, and each splits *)
(* TypeInv into the parts the action changes and the parts it keeps.       *)
(***************************************************************************)
EXTENDS SongSync, TLAPS

\* A worker that has not chosen its run yet.
EarlyPc == {"idle", "locked", "creating"}

HasRun ==
  \A w \in Workers : worker[w].pc \notin EarlyPc => worker[w].run \in RunIds
HasSong ==
  \A w \in Workers, l \in Lanes :
    lane[w][l].stage # "idle" => lane[w][l].song \in Songs

WorkersOK == worker \in [Workers -> Worker] /\ HasRun
LanesOK == lane \in [Workers -> [Lanes -> Lane]] /\ HasSong
RunsOK == runs \in [RunIds -> Run]
LocalRow == [status : LocalStatus, deleted : BOOLEAN, ver : Int]
SongsOK == song \in [Songs -> LocalRow]
AnnouncedOK == announced \in [Songs -> [public : BOOLEAN, ver : Int]]
StateOK == state \in [version : Int, seeded : BOOLEAN, checkpoint : Int]
SourceOK ==
  /\ upstream \in [Songs -> [status : SourceStatus, changedAt : Int]]
  /\ activity \subseteq Entry
  /\ bursts \subseteq Nat
  /\ flaw \in Flaws
CountersOK == now \in Nat /\ faults \in Nat
LockOK == lock \in Workers \cup {NoWorker}

TypeInv ==
  /\ WorkersOK /\ LanesOK /\ RunsOK /\ SongsOK /\ AnnouncedOK
  /\ StateOK /\ SourceOK /\ CountersOK /\ LockOK

\* The strengthened invariant implies the type invariant the runs check.
LEMMA TypeOKFromInv == TypeInv => TypeOK
  BY DEF TypeInv, TypeOK, WorkersOK, LanesOK, RunsOK, SongsOK, AnnouncedOK,
         StateOK, SourceOK, CountersOK, LockOK, LocalRow

-----------------------------------------------------------------------------
(***************************************************************************)
(* What the building blocks of the actions preserve                        *)
(***************************************************************************)

\* A part of TypeInv holds after a step that leaves its variables alone.
LEMMA KeepsParts ==
  ASSUME TypeInv
  PROVE  /\ UNCHANGED worker => WorkersOK'
         /\ UNCHANGED lane => LanesOK'
         /\ UNCHANGED runs => RunsOK'
         /\ UNCHANGED song => SongsOK'
         /\ UNCHANGED announced => AnnouncedOK'
         /\ UNCHANGED state => StateOK'
         /\ UNCHANGED <<upstream, activity, bursts, flaw>> => SourceOK'
         /\ UNCHANGED <<now, faults>> => CountersOK'
         /\ UNCHANGED lock => LockOK'
  BY DEF TypeInv, WorkersOK, HasRun, LanesOK, HasSong, RunsOK, SongsOK,
         AnnouncedOK, StateOK, SourceOK, CountersOK, LockOK

\* The idle lane is a lane, and a worker's lanes are idle when it exits.
LEMMA IdleLaneOK ==
  /\ IdleLane \in Lane /\ IdleLane.stage = "idle"
  /\ IdleLanes \in [Lanes -> Lane]
  /\ \A l \in Lanes : IdleLanes[l].stage = "idle"
  BY DEF IdleLane, IdleLanes, Lane, Stage, NoRun

\* The memory of a process that is not running is a worker's.
LEMMA IdleWorkerOK == IdleWorker \in Worker /\ IdleWorker.pc = "idle"
  BY DEF IdleWorker, Worker, Pc, Modes, Terminal, NoRun

\* A SyncRun row that is not created yet is a run.
LEMMA FreeRunOK == FreeRun \in Run
  BY DEF FreeRun, Run, Modes, ItemStatus, Settled, Terminal

\* A process that ends leaves idle lanes.
LEMMA LanesExit ==
  ASSUME LanesOK, NEW w \in Workers, Exit(w)
  PROVE  LanesOK'
  BY IdleLaneOK DEF LanesOK, HasSong, Exit

\* A lane may be given any lane record that has a song when it is busy.
LEMMA LanesSet ==
  ASSUME LanesOK, NEW w \in Workers, NEW l \in Lanes, NEW rec \in Lane,
         rec.stage # "idle" => rec.song \in Songs, SetLane(w, l, rec)
  PROVE  LanesOK'
  BY DEF LanesOK, HasSong, SetLane

\* A busy lane may move to another stage.
LEMMA LanesStage ==
  ASSUME LanesOK, NEW w \in Workers, NEW l \in Lanes, NEW stage \in Stage,
         lane[w][l].stage # "idle", SetStage(w, l, stage)
  PROVE  LanesOK'
<1> DEFINE rec == [lane[w][l] EXCEPT !.stage = stage]
<1>0. lane[w][l] \in Lane
  BY DEF LanesOK
<1>1. rec \in Lane /\ rec.song = lane[w][l].song
  BY <1>0 DEF Lane
<1>2. lane' = [lane EXCEPT ![w][l] = rec]
  BY DEF SetStage
<1>3. rec.stage # "idle" => rec.song \in Songs
  BY <1>1 DEF LanesOK, HasSong
<1> HIDE DEF rec
<1>4. QED BY <1>1, <1>2, <1>3, LanesSet DEF SetLane

\* A process that ends has the memory of no process.
LEMMA WorkersExit ==
  ASSUME WorkersOK, NEW w \in Workers, Exit(w)
  PROVE  WorkersOK'
  BY IdleWorkerOK DEF WorkersOK, HasRun, Exit, EarlyPc

\* A worker may go anywhere, past the choice of its run only when it has one.
LEMMA WorkersGoto ==
  ASSUME WorkersOK, NEW w \in Workers, NEW pc \in Pc,
         pc \in EarlyPc \/ worker[w].run \in RunIds, Goto(w, pc)
  PROVE  WorkersOK'
  BY DEF WorkersOK, HasRun, Goto, Worker

\* A process that ends leaves the lock to its holder or to nobody.
LEMMA LockExit ==
  ASSUME LockOK, NEW w \in Workers, Exit(w)
  PROVE  LockOK'
  BY DEF LockOK, Exit

\* Writing an item's status keeps the runs well formed.
LEMMA RunsItem ==
  ASSUME RunsOK, NEW r, NEW s \in Songs, NEW status \in ItemStatus,
         runs' = [runs EXCEPT ![r].items[s] = status]
  PROVE  RunsOK'
<1>1. \A run \in Run : [run EXCEPT !.items[s] = status] \in Run
  BY DEF Run
<1>2. QED BY <1>1 DEF RunsOK

\* The discovery projection of a local row has its type.
LEMMA ProjectionOK ==
  ASSUME SongsOK
  PROVE  \A s \in Songs : Projection(song[s]) \in [public : BOOLEAN, ver : Int]
  BY DEF SongsOK, LocalRow, Projection, Public

\* A song transaction that writes a local row keeps songs and runs well formed.
LEMMA WriteOK ==
  ASSUME SongsOK, RunsOK, NEW w, NEW s \in Songs, NEW row \in LocalRow,
         WriteSong(w, s, row)
  PROVE  SongsOK' /\ RunsOK'
<1>1. SongsOK'
  BY DEF WriteSong, SongsOK
<1> DEFINE r == worker[w].run
<1>2. [runs EXCEPT ![r].catalogChanged = TRUE] \in [RunIds -> Run]
  <2>1. \A run \in Run : [run EXCEPT !.catalogChanged = TRUE] \in Run
    BY DEF Run
  <2>2. QED BY <2>1 DEF RunsOK
<1>3. QED BY <1>1, <1>2 DEF WriteSong, RunsOK

\* Consuming a run's catalog change announces well-formed projections.
LEMMA ConsumeOK ==
  ASSUME SongsOK, AnnouncedOK, NEW r, ConsumeCatalogChange(r)
  PROVE  AnnouncedOK'
  BY ProjectionOK DEF AnnouncedOK, ConsumeCatalogChange

\* A worker may be given any memory that has a run when it needs one.
LEMMA WorkersSet ==
  ASSUME WorkersOK, NEW w \in Workers, NEW rec \in Worker,
         rec.pc \notin EarlyPc => rec.run \in RunIds,
         worker' = [worker EXCEPT ![w] = rec]
  PROVE  WorkersOK'
  BY DEF WorkersOK, HasRun

\* Stopping a worker's lanes keeps its run.
LEMMA WorkersStop ==
  ASSUME WorkersOK, NEW w \in Workers,
         worker' = [worker EXCEPT ![w].stopped = TRUE]
  PROVE  WorkersOK'
<1> DEFINE rec == [worker[w] EXCEPT !.stopped = TRUE]
<1>1. worker[w] \in Worker
  BY DEF WorkersOK
<1>2. /\ rec \in Worker
      /\ rec.pc = worker[w].pc /\ rec.run = worker[w].run
  BY <1>1 DEF Worker
<1>3. rec.pc \notin EarlyPc => rec.run \in RunIds
  BY <1>2 DEF WorkersOK, HasRun
<1>4. worker' = [worker EXCEPT ![w] = rec]
  OBVIOUS
<1> HIDE DEF rec
<1>5. QED BY <1>2, <1>3, <1>4, WorkersSet

\* A lane may become idle at any time.
LEMMA LanesIdle ==
  ASSUME LanesOK, NEW w \in Workers, NEW l \in Lanes, SetLane(w, l, IdleLane)
  PROVE  LanesOK'
  BY IdleLaneOK, LanesSet

\* createSongRun and createIdsRun insert a well-formed run.
LEMMA NewRunOK ==
  ASSUME CountersOK, StateOK, NEW mode \in Modes, NEW ids \in SUBSET Songs
  PROVE  NewRun(mode, ids) \in Run
<1>1. WindowEnd \in Int /\ WindowStart \in Int
  BY TimingAssumption
  DEF CountersOK, StateOK, WindowEnd, WindowStart, MaxOf, MinOf
<1>2. QED BY <1>1 DEF NewRun, Run, ItemStatus, CountersOK, StateOK

\* Whatever its mode, discovery only leaves two sets of songs in memory.
LEMMA DiscoverEffect ==
  ASSUME TypeInv, NEW w \in Workers, Discover(w)
  PROVE  \E found \in SUBSET Songs, present \in SUBSET Songs :
           worker' = [worker EXCEPT ![w] =
             [worker[w] EXCEPT !.pc = "discovered", !.found = found,
                               !.present = present]]
<1>1. worker[w] \in Worker /\ worker \in [Workers -> Worker]
  BY DEF TypeInv, WorkersOK
<1>2. \A since, before : FeedAnswers(since, before) \subseteq SUBSET Songs
  BY DEF TypeInv, SourceOK, Entry, FeedAnswers, Between
<1>3. Inventories \subseteq SUBSET Songs
  BY DEF Inventories, Live
<1>4. \A inventory : Suspects(inventory) \subseteq Songs
  BY DEF Suspects
<1> DEFINE Rec(found, present) ==
      [worker[w] EXCEPT !.pc = "discovered", !.found = found,
                        !.present = present]
<1>5. ASSUME NEW ids \in SUBSET Songs,
             worker' = [worker EXCEPT ![w].pc = "discovered", ![w].found = ids]
      PROVE  worker' = [worker EXCEPT ![w] = Rec(ids, worker[w].present)]
  BY <1>1, <1>5 DEF Worker
<1>6. ASSUME NEW ids \in SUBSET Songs, NEW inventory \in SUBSET Songs,
             worker' = [worker EXCEPT ![w].pc = "discovered", ![w].found = ids,
                                      ![w].present = inventory]
      PROVE  worker' = [worker EXCEPT ![w] = Rec(ids, inventory)]
  BY <1>1, <1>6 DEF Worker
<1>7. worker[w].present \in SUBSET Songs
  BY <1>1 DEF Worker
<1> HIDE DEF Rec
<1>8. \E found \in SUBSET Songs, present \in SUBSET Songs :
        worker' = [worker EXCEPT ![w] = Rec(found, present)]
  <2> DEFINE run == runs[worker[w].run]
  <2>1. CASE \E inventory \in Inventories :
               worker' = [worker EXCEPT ![w].pc = "discovered",
                                        ![w].found = inventory]
    BY <1>3, <1>5, <1>7, <2>1
  <2>2. CASE \E ids \in FeedAnswers(run.start, run.end) :
               worker' = [worker EXCEPT ![w].pc = "discovered",
                                        ![w].found = ids]
    <3>1. PICK ids \in FeedAnswers(run.start, run.end) :
            worker' = [worker EXCEPT ![w].pc = "discovered", ![w].found = ids]
      BY <2>2
    <3>2. ids \in SUBSET Songs
      BY <1>2
    <3>3. QED BY <1>5, <1>7, <3>1, <3>2
  <2>3. CASE \E inventory \in Inventories :
               worker' = [worker EXCEPT ![w].pc = "discovered",
                                        ![w].found = Suspects(inventory),
                                        ![w].present = inventory]
    <3>1. PICK inventory \in Inventories :
            worker' = [worker EXCEPT ![w].pc = "discovered",
                                     ![w].found = Suspects(inventory),
                                     ![w].present = inventory]
      BY <2>3
    <3>2. inventory \in SUBSET Songs /\ Suspects(inventory) \in SUBSET Songs
      BY <1>3, <1>4
    <3>3. QED BY <1>6, <3>1, <3>2
  <2>4. QED BY <2>1, <2>2, <2>3 DEF Discover
<1>9. QED BY <1>8 DEF Rec

-----------------------------------------------------------------------------
(***************************************************************************)
(* One lemma per action                                                    *)
(***************************************************************************)

\* Tick keeps the type invariant.
LEMMA TypeTick ==
  ASSUME TypeInv,
         Tick
  PROVE  TypeInv'
<1>1. CountersOK'
  BY DEF TypeInv, CountersOK, Tick
<1>2. /\ WorkersOK' /\ LanesOK' /\ RunsOK' /\ SongsOK' /\ AnnouncedOK'
      /\ StateOK' /\ SourceOK' /\ LockOK'
  BY KeepsParts DEF env, catalog, db, memory, Tick
<1>3. QED BY <1>1, <1>2 DEF TypeInv

\* SourceChange keeps the type invariant.
LEMMA TypeSourceChange ==
  ASSUME TypeInv, NEW s \in Songs, NEW status \in SourceStatus,
         SourceChange(s, status)
  PROVE  TypeInv'
<1>1. SourceOK'
  BY DEF TypeInv, SourceOK, CountersOK, SourceChange, Entry
<1>2. /\ WorkersOK' /\ LanesOK' /\ RunsOK' /\ SongsOK' /\ AnnouncedOK'
      /\ StateOK' /\ CountersOK' /\ LockOK'
  BY KeepsParts DEF env, catalog, db, memory, SourceChange
<1>3. QED BY <1>1, <1>2 DEF TypeInv

\* Burst keeps the type invariant.
LEMMA TypeBurst ==
  ASSUME TypeInv,
         Burst
  PROVE  TypeInv'
<1>1. SourceOK'
  BY DEF TypeInv, SourceOK, CountersOK, Burst
<1>2. /\ WorkersOK' /\ LanesOK' /\ RunsOK' /\ SongsOK' /\ AnnouncedOK'
      /\ StateOK' /\ CountersOK' /\ LockOK'
  BY KeepsParts DEF env, catalog, db, memory, Burst
<1>3. QED BY <1>1, <1>2 DEF TypeInv

\* DropLock keeps the type invariant.
LEMMA TypeDropLock ==
  ASSUME TypeInv,
         DropLock
  PROVE  TypeInv'
<1>1. LockOK'
  BY DEF LockOK, DropLock
<1>2. CountersOK'
  BY DEF TypeInv, CountersOK, env, DropLock, Fault
<1>3. /\ WorkersOK' /\ LanesOK' /\ RunsOK' /\ SongsOK' /\ AnnouncedOK'
      /\ StateOK' /\ SourceOK'
  BY KeepsParts DEF env, catalog, db, memory, DropLock
<1>4. QED BY <1>1, <1>2, <1>3 DEF TypeInv

\* Start keeps the type invariant.
LEMMA TypeStart ==
  ASSUME TypeInv, NEW w \in Workers, NEW req \in Requests,
         Start(w, req)
  PROVE  TypeInv'
<1>1. LockOK'
  BY DEF LockOK, Start
<1>2. WorkersOK'
  <2> DEFINE rec == [IdleWorker EXCEPT !.pc = "locked", !.kind = req.kind,
                                       !.mode = req.mode, !.ids = req.ids]
  <2>1. rec \in Worker /\ rec.pc = "locked"
    BY IdleWorkerOK, RequestsAssumption DEF Worker, Pc, Request
  <2>2. worker' = [worker EXCEPT ![w] = rec]
    BY DEF Start
  <2> HIDE DEF rec
  <2>3. QED BY <2>1, <2>2, WorkersSet DEF TypeInv, EarlyPc
<1>3. /\ LanesOK' /\ RunsOK' /\ SongsOK' /\ AnnouncedOK' /\ StateOK'
      /\ SourceOK' /\ CountersOK'
  BY KeepsParts DEF env, catalog, db, memory, Start
<1>4. QED BY <1>1, <1>2, <1>3 DEF TypeInv

\* ResumeRun keeps the type invariant.
LEMMA TypeResumeRun ==
  ASSUME TypeInv, NEW w \in Workers, NEW r \in RunIds,
         ResumeRun(w, r)
  PROVE  TypeInv'
<1>1. WorkersOK'
  <2> DEFINE rec == [worker[w] EXCEPT !.pc = "chosen", !.run = r]
  <2>1. worker[w] \in Worker
    BY DEF TypeInv, WorkersOK
  <2>2. rec \in Worker
    BY <2>1 DEF Worker, Pc
  <2>3. rec.pc \notin EarlyPc => rec.run \in RunIds
    BY <2>1 DEF TypeInv, WorkersOK, HasRun, EarlyPc, Worker, ResumeRun
  <2>4. worker' = [worker EXCEPT ![w] = rec]
    BY DEF ResumeRun
  <2> HIDE DEF rec
  <2>5. QED BY <2>2, <2>3, <2>4, WorkersSet DEF TypeInv
<1>2. RunsOK'
  <2>1. \A run \in Run : [run EXCEPT !.error = FALSE] \in Run
    BY DEF Run
  <2>2. QED BY <2>1 DEF TypeInv, RunsOK, ResumeRun
<1>3. /\ LanesOK' /\ SongsOK' /\ AnnouncedOK' /\ StateOK' /\ SourceOK'
      /\ CountersOK' /\ LockOK'
  BY KeepsParts DEF env, catalog, db, memory, ResumeRun
<1>4. QED BY <1>1, <1>2, <1>3 DEF TypeInv

\* CreateRun keeps the type invariant.
LEMMA TypeCreateRun ==
  ASSUME TypeInv, NEW w \in Workers, NEW r \in RunIds,
         CreateRun(w, r)
  PROVE  TypeInv'
<1>1. WorkersOK'
  <2> DEFINE rec == [worker[w] EXCEPT !.pc = "chosen", !.run = r]
  <2>1. worker[w] \in Worker
    BY DEF TypeInv, WorkersOK
  <2>2. rec \in Worker
    BY <2>1 DEF Worker, Pc
  <2>3. rec.pc \notin EarlyPc => rec.run \in RunIds
    BY <2>1 DEF TypeInv, WorkersOK, HasRun, EarlyPc, Worker, CreateRun
  <2>4. worker' = [worker EXCEPT ![w] = rec]
    BY DEF CreateRun
  <2> HIDE DEF rec
  <2>5. QED BY <2>2, <2>3, <2>4, WorkersSet DEF TypeInv
<1>2. RunsOK'
  <2>1. worker[w].mode \in Modes /\ worker[w].ids \subseteq Songs
    BY DEF TypeInv, WorkersOK, Worker
  <2>2. NewRun(worker[w].mode, worker[w].ids) \in Run
    BY <2>1, NewRunOK DEF TypeInv
  <2>3. QED BY <2>2 DEF TypeInv, RunsOK, CreateRun
<1>3. /\ LanesOK' /\ SongsOK' /\ AnnouncedOK' /\ StateOK' /\ SourceOK'
      /\ CountersOK' /\ LockOK'
  BY KeepsParts DEF env, catalog, db, memory, CreateRun
<1>4. QED BY <1>1, <1>2, <1>3 DEF TypeInv

\* DecideToCreate keeps the type invariant.
LEMMA TypeDecideToCreate ==
  ASSUME TypeInv, NEW w \in Workers,
         DecideToCreate(w)
  PROVE  TypeInv'
<1>1. WorkersOK'
  BY WorkersGoto DEF TypeInv, Pc, EarlyPc, DecideToCreate
<1>2. /\ LanesOK' /\ RunsOK' /\ SongsOK' /\ AnnouncedOK' /\ StateOK'
      /\ SourceOK' /\ CountersOK' /\ LockOK'
  BY KeepsParts DEF env, catalog, db, memory, DecideToCreate
<1>3. QED BY <1>1, <1>2 DEF TypeInv

\* RejectRequest keeps the type invariant.
LEMMA TypeRejectRequest ==
  ASSUME TypeInv, NEW w \in Workers,
         RejectRequest(w)
  PROVE  TypeInv'
<1>1. WorkersOK'
  BY WorkersExit DEF TypeInv, RejectRequest
<1>2. LanesOK'
  BY LanesExit DEF TypeInv, RejectRequest
<1>3. LockOK'
  BY LockExit DEF TypeInv, RejectRequest
<1>4. /\ RunsOK' /\ SongsOK' /\ AnnouncedOK' /\ StateOK' /\ SourceOK'
      /\ CountersOK'
  BY KeepsParts DEF env, catalog, db, memory, RejectRequest
<1>5. QED BY <1>1, <1>2, <1>3, <1>4 DEF TypeInv

\* RefuseToCreate keeps the type invariant.
LEMMA TypeRefuseToCreate ==
  ASSUME TypeInv, NEW w \in Workers,
         RefuseToCreate(w)
  PROVE  TypeInv'
<1>1. WorkersOK'
  BY WorkersExit DEF TypeInv, RefuseToCreate
<1>2. LanesOK'
  BY LanesExit DEF TypeInv, RefuseToCreate
<1>3. LockOK'
  BY LockExit DEF TypeInv, RefuseToCreate
<1>4. /\ RunsOK' /\ SongsOK' /\ AnnouncedOK' /\ StateOK' /\ SourceOK'
      /\ CountersOK'
  BY KeepsParts DEF env, catalog, db, memory, RefuseToCreate
<1>5. QED BY <1>1, <1>2, <1>3, <1>4 DEF TypeInv

\* Discover keeps the type invariant.
LEMMA TypeDiscover ==
  ASSUME TypeInv, NEW w \in Workers,
         Discover(w)
  PROVE  TypeInv'
<1>1. WorkersOK'
  <2> DEFINE Rec(found, present) ==
        [worker[w] EXCEPT !.pc = "discovered", !.found = found,
                          !.present = present]
  <2>1. PICK found \in SUBSET Songs, present \in SUBSET Songs :
          worker' = [worker EXCEPT ![w] = Rec(found, present)]
    BY DiscoverEffect DEF TypeInv
  <2>2. worker[w] \in Worker /\ worker[w].run \in RunIds
    BY DEF TypeInv, WorkersOK, HasRun, EarlyPc, Discover
  <2>3. Rec(found, present) \in Worker
    BY <2>2 DEF Worker, Pc
  <2>4. Rec(found, present).run \in RunIds
    BY <2>2 DEF Worker
  <2> HIDE DEF Rec
  <2>5. QED BY <2>1, <2>3, <2>4, WorkersSet DEF TypeInv
<1>2. /\ LanesOK' /\ RunsOK' /\ SongsOK' /\ AnnouncedOK' /\ StateOK'
      /\ SourceOK' /\ CountersOK' /\ LockOK'
  BY KeepsParts DEF env, catalog, db, memory, Discover
<1>3. QED BY <1>1, <1>2 DEF TypeInv

\* PersistManifest keeps the type invariant.
LEMMA TypePersistManifest ==
  ASSUME TypeInv, NEW w \in Workers,
         PersistManifest(w)
  PROVE  TypeInv'
<1>1. WorkersOK'
  <2> DEFINE rec == [worker[w] EXCEPT !.pc = "listing", !.found = {},
                                      !.present = {}]
  <2>1. worker[w] \in Worker
    BY DEF TypeInv, WorkersOK
  <2>2. rec \in Worker
    BY <2>1 DEF Worker, Pc
  <2>3. rec.pc \notin EarlyPc => rec.run \in RunIds
    BY <2>1 DEF TypeInv, WorkersOK, HasRun, EarlyPc, Worker, PersistManifest
  <2>4. worker' = [worker EXCEPT ![w] = rec]
    BY DEF PersistManifest
  <2> HIDE DEF rec
  <2>5. QED BY <2>2, <2>3, <2>4, WorkersSet DEF TypeInv
<1>2. RunsOK'
  <2> DEFINE r == worker[w].run
             fresh == {s \in worker[w].found : runs[r].items[s] = "NONE"}
             rec == [runs[r] EXCEPT
               !.discovered = TRUE,
               !.items = [s \in Songs |->
                            IF s \in fresh THEN "PENDING" ELSE @[s]],
               !.present = @ \cup (fresh \cap worker[w].present)]
  <2>f. fresh \subseteq Songs
    BY DEF TypeInv, WorkersOK, Worker
  <2>1. r \in RunIds /\ runs[r] \in Run
    BY DEF TypeInv, WorkersOK, HasRun, EarlyPc, RunsOK, PersistManifest
  <2>2. rec \in Run
    BY <2>1, <2>f DEF Run, ItemStatus
  <2>3. runs' = [runs EXCEPT ![r] = rec]
    BY <2>1 DEF TypeInv, RunsOK, PersistManifest
  <2> HIDE DEF rec
  <2>4. QED BY <2>1, <2>2, <2>3 DEF TypeInv, RunsOK
<1>3. /\ LanesOK' /\ SongsOK' /\ AnnouncedOK' /\ StateOK' /\ SourceOK'
      /\ CountersOK' /\ LockOK'
  BY KeepsParts DEF env, catalog, db, memory, PersistManifest
<1>4. QED BY <1>1, <1>2, <1>3 DEF TypeInv

\* SkipDiscovery keeps the type invariant.
LEMMA TypeSkipDiscovery ==
  ASSUME TypeInv, NEW w \in Workers,
         SkipDiscovery(w)
  PROVE  TypeInv'
<1>1. WorkersOK'
  <2>1. worker[w].run \in RunIds
    BY DEF TypeInv, WorkersOK, HasRun, EarlyPc, SkipDiscovery
  <2>2. QED BY <2>1, WorkersGoto DEF TypeInv, Pc, SkipDiscovery
<1>2. /\ LanesOK' /\ RunsOK' /\ SongsOK' /\ AnnouncedOK' /\ StateOK'
      /\ SourceOK' /\ CountersOK' /\ LockOK'
  BY KeepsParts DEF env, catalog, db, memory, SkipDiscovery
<1>3. QED BY <1>1, <1>2 DEF TypeInv

\* ListPending keeps the type invariant.
LEMMA TypeListPending ==
  ASSUME TypeInv, NEW w \in Workers,
         ListPending(w)
  PROVE  TypeInv'
<1>1. WorkersOK'
  <2> DEFINE rec == [worker[w] EXCEPT
          !.pc = "processing",
          !.queue = {s \in Songs : runs[worker[w].run].items[s] = "PENDING"}]
  <2>1. worker[w] \in Worker
    BY DEF TypeInv, WorkersOK
  <2>2. rec \in Worker
    BY <2>1 DEF Worker, Pc
  <2>3. rec.pc \notin EarlyPc => rec.run \in RunIds
    BY <2>1 DEF TypeInv, WorkersOK, HasRun, EarlyPc, Worker, ListPending
  <2>4. worker' = [worker EXCEPT ![w] = rec]
    BY DEF ListPending
  <2> HIDE DEF rec
  <2>5. QED BY <2>2, <2>3, <2>4, WorkersSet DEF TypeInv
<1>2. /\ LanesOK' /\ RunsOK' /\ SongsOK' /\ AnnouncedOK' /\ StateOK'
      /\ SourceOK' /\ CountersOK' /\ LockOK'
  BY KeepsParts DEF env, catalog, db, memory, ListPending
<1>3. QED BY <1>1, <1>2 DEF TypeInv

\* SettleLanes keeps the type invariant.
LEMMA TypeSettleLanes ==
  ASSUME TypeInv, NEW w \in Workers,
         SettleLanes(w)
  PROVE  TypeInv'
<1>1. WorkersOK'
  <2> DEFINE rec == [worker[w] EXCEPT !.pc = AfterLanes(w), !.queue = {}]
  <2>1. worker[w] \in Worker
    BY DEF TypeInv, WorkersOK
  <2>2. rec \in Worker
    BY <2>1 DEF Worker, Pc, AfterLanes
  <2>3. rec.pc \notin EarlyPc => rec.run \in RunIds
    BY <2>1 DEF TypeInv, WorkersOK, HasRun, EarlyPc, Worker, SettleLanes
  <2>4. worker' = [worker EXCEPT ![w] = rec]
    BY DEF SettleLanes
  <2> HIDE DEF rec
  <2>5. QED BY <2>2, <2>3, <2>4, WorkersSet DEF TypeInv
<1>2. /\ LanesOK' /\ RunsOK' /\ SongsOK' /\ AnnouncedOK' /\ StateOK'
      /\ SourceOK' /\ CountersOK' /\ LockOK'
  BY KeepsParts DEF env, catalog, db, memory, SettleLanes
<1>3. QED BY <1>1, <1>2 DEF TypeInv

\* CountItems keeps the type invariant.
LEMMA TypeCountItems ==
  ASSUME TypeInv, NEW w \in Workers,
         CountItems(w)
  PROVE  TypeInv'
<1>1. WorkersOK'
  <2> DEFINE rec == [worker[w] EXCEPT
          !.pc = "committing",
          !.verdict = Verdict(runs[worker[w].run].items)]
  <2>1. worker[w] \in Worker
    BY DEF TypeInv, WorkersOK
  <2>2. rec \in Worker
    BY <2>1 DEF Worker, Pc, Verdict, Terminal
  <2>3. rec.pc \notin EarlyPc => rec.run \in RunIds
    BY <2>1 DEF TypeInv, WorkersOK, HasRun, EarlyPc, Worker, CountItems
  <2>4. worker' = [worker EXCEPT ![w] = rec]
    BY DEF CountItems
  <2> HIDE DEF rec
  <2>5. QED BY <2>2, <2>3, <2>4, WorkersSet DEF TypeInv
<1>2. /\ LanesOK' /\ RunsOK' /\ SongsOK' /\ AnnouncedOK' /\ StateOK'
      /\ SourceOK' /\ CountersOK' /\ LockOK'
  BY KeepsParts DEF env, catalog, db, memory, CountItems
<1>3. QED BY <1>1, <1>2 DEF TypeInv

\* finalizeRun's transaction keeps what it writes well formed.
LEMMA CommitOK ==
  ASSUME TypeInv, NEW w \in Workers,
         FinalizeCommit(w)
  PROVE  AnnouncedOK' /\ RunsOK' /\ StateOK'
<1>1. AnnouncedOK'
  BY ConsumeOK DEF TypeInv, FinalizeCommit
<1>2. RunsOK'
  <2> DEFINE r == worker[w].run
             rec == [runs[r] EXCEPT !.status = worker[w].verdict,
                                  !.catalogChanged = FALSE, !.error = FALSE]
  <2>v. worker[w].verdict \in Terminal
    BY DEF TypeInv, WorkersOK, Worker
  <2>1. r \in RunIds /\ runs[r] \in Run
    BY DEF TypeInv, WorkersOK, HasRun, EarlyPc, RunsOK, FinalizeCommit
  <2>2. rec \in Run
    BY <2>1, <2>v DEF Run, Terminal
  <2>3. runs' = [runs EXCEPT ![r] = rec]
    BY <2>1 DEF TypeInv, RunsOK, FinalizeCommit
  <2> HIDE DEF rec
  <2>4. QED BY <2>1, <2>2, <2>3 DEF TypeInv, RunsOK
<1>3. StateOK'
  <2>1. runs[worker[w].run] \in Run
    BY DEF TypeInv, WorkersOK, HasRun, EarlyPc, RunsOK, FinalizeCommit
  <2>2. AdvancedState(runs[worker[w].run])
          \in [version : Int, seeded : BOOLEAN, checkpoint : Int]
    BY <2>1 DEF TypeInv, StateOK, AdvancedState, Run
  <2>3. QED BY <2>2 DEF TypeInv, StateOK, FinalizeCommit
<1>4. QED BY <1>1, <1>2, <1>3

\* FinalizeRun keeps the type invariant.
LEMMA TypeFinalizeRun ==
  ASSUME TypeInv, NEW w \in Workers,
         FinalizeRun(w)
  PROVE  TypeInv'
<1>1. WorkersOK'
  BY WorkersExit DEF TypeInv, FinalizeRun
<1>2. LanesOK'
  BY LanesExit DEF TypeInv, FinalizeRun
<1>3. LockOK'
  BY LockExit DEF TypeInv, FinalizeRun
<1>4. AnnouncedOK' /\ RunsOK' /\ StateOK'
  BY CommitOK DEF FinalizeRun
<1>5. SongsOK' /\ SourceOK' /\ CountersOK'
  BY KeepsParts DEF env, catalog, db, memory, FinalizeRun
<1>6. QED BY <1>1, <1>2, <1>3, <1>4, <1>5 DEF TypeInv

\* FinalizeAnswerLost keeps the type invariant.
LEMMA TypeFinalizeAnswerLost ==
  ASSUME TypeInv, NEW w \in Workers,
         FinalizeAnswerLost(w)
  PROVE  TypeInv'
<1>1. WorkersOK'
  <2>1. worker[w].run \in RunIds
    BY DEF TypeInv, WorkersOK, HasRun, EarlyPc, FinalizeAnswerLost,
           FinalizeCommit
  <2>2. QED BY <2>1, WorkersGoto DEF TypeInv, Pc, FinalizeAnswerLost
<1>2. AnnouncedOK' /\ RunsOK' /\ StateOK'
  BY CommitOK DEF FinalizeAnswerLost
<1>3. CountersOK'
  BY DEF TypeInv, CountersOK, env, FinalizeAnswerLost, Fault
<1>4. LanesOK' /\ SongsOK' /\ SourceOK' /\ LockOK'
  BY KeepsParts DEF env, catalog, db, memory, FinalizeAnswerLost
<1>5. QED BY <1>1, <1>2, <1>3, <1>4 DEF TypeInv

\* CheckpointConflict keeps the type invariant.
LEMMA TypeCheckpointConflict ==
  ASSUME TypeInv, NEW w \in Workers,
         CheckpointConflict(w)
  PROVE  TypeInv'
<1>1. WorkersOK'
  <2>1. worker[w].run \in RunIds
    BY DEF TypeInv, WorkersOK, HasRun, EarlyPc, CheckpointConflict
  <2>2. QED BY <2>1, WorkersGoto DEF TypeInv, Pc, CheckpointConflict
<1>2. /\ LanesOK' /\ RunsOK' /\ SongsOK' /\ AnnouncedOK' /\ StateOK'
      /\ SourceOK' /\ CountersOK' /\ LockOK'
  BY KeepsParts DEF env, catalog, db, memory, CheckpointConflict
<1>3. QED BY <1>1, <1>2 DEF TypeInv

\* WindowSaturates keeps the type invariant.
LEMMA TypeWindowSaturates ==
  ASSUME TypeInv, NEW w \in Workers,
         WindowSaturates(w)
  PROVE  TypeInv'
<1>1. WorkersOK'
  <2>1. worker[w].run \in RunIds
    BY DEF TypeInv, WorkersOK, HasRun, EarlyPc, WindowSaturates
  <2>2. QED BY <2>1, WorkersGoto DEF TypeInv, Pc, WindowSaturates
<1>2. /\ LanesOK' /\ RunsOK' /\ SongsOK' /\ AnnouncedOK' /\ StateOK'
      /\ SourceOK' /\ CountersOK' /\ LockOK'
  BY KeepsParts DEF env, catalog, db, memory, WindowSaturates
<1>3. QED BY <1>1, <1>2 DEF TypeInv

\* ObserveSignal keeps the type invariant.
LEMMA TypeObserveSignal ==
  ASSUME TypeInv, NEW w \in Workers,
         ObserveSignal(w)
  PROVE  TypeInv'
<1>1. WorkersOK'
  <2>1. worker[w].run \in RunIds
    BY DEF TypeInv, WorkersOK, HasRun, EarlyPc, ObserveSignal
  <2>2. QED BY <2>1, WorkersGoto DEF TypeInv, Pc, ObserveSignal
<1>2. /\ LanesOK' /\ RunsOK' /\ SongsOK' /\ AnnouncedOK' /\ StateOK'
      /\ SourceOK' /\ CountersOK' /\ LockOK'
  BY KeepsParts DEF env, catalog, db, memory, ObserveSignal
<1>3. QED BY <1>1, <1>2 DEF TypeInv

\* RecordInterruption keeps the type invariant.
LEMMA TypeRecordInterruption ==
  ASSUME TypeInv, NEW w \in Workers,
         RecordInterruption(w)
  PROVE  TypeInv'
<1>1. WorkersOK'
  BY WorkersExit DEF TypeInv, RecordInterruption
<1>2. LanesOK'
  BY LanesExit DEF TypeInv, RecordInterruption
<1>3. LockOK'
  BY LockExit DEF TypeInv, RecordInterruption
<1>4. AnnouncedOK'
  BY ConsumeOK DEF TypeInv, RecordInterruption
<1>5. RunsOK'
  <2> DEFINE r == worker[w].run
             rec == [runs[r] EXCEPT !.catalogChanged = FALSE,
                                  !.error = @ \/ Interrupts(r)]
  <2>1. r \in RunIds /\ runs[r] \in Run
    BY DEF TypeInv, WorkersOK, HasRun, EarlyPc, RunsOK, RecordInterruption
  <2>2. rec \in Run
    BY <2>1 DEF Run, Interrupts
  <2>3. runs' = [runs EXCEPT ![r] = rec]
    BY <2>1 DEF TypeInv, RunsOK, RecordInterruption
  <2> HIDE DEF rec
  <2>4. QED BY <2>1, <2>2, <2>3 DEF TypeInv, RunsOK
<1>6. SongsOK' /\ StateOK' /\ SourceOK' /\ CountersOK'
  BY KeepsParts DEF env, catalog, db, memory, RecordInterruption
<1>7. QED BY <1>1, <1>2, <1>3, <1>4, <1>5, <1>6 DEF TypeInv

\* TakeItem keeps the type invariant.
LEMMA TypeTakeItem ==
  ASSUME TypeInv, NEW w \in Workers, NEW l \in Lanes, NEW s \in Songs,
         TakeItem(w, l, s)
  PROVE  TypeInv'
<1>1. WorkersOK'
  <2> DEFINE rec == [worker[w] EXCEPT !.queue = @ \ {s}]
  <2>1. worker[w] \in Worker
    BY DEF TypeInv, WorkersOK
  <2>2. rec \in Worker
    BY <2>1 DEF Worker
  <2>3. rec.pc \notin EarlyPc => rec.run \in RunIds
    BY <2>1 DEF TypeInv, WorkersOK, HasRun, EarlyPc, Worker, TakeItem
  <2>4. worker' = [worker EXCEPT ![w] = rec]
    BY DEF TakeItem
  <2> HIDE DEF rec
  <2>5. QED BY <2>2, <2>3, <2>4, WorkersSet DEF TypeInv
<1>2. LanesOK'
  <2> DEFINE rec == [IdleLane EXCEPT !.stage = "begun", !.song = s]
  <2>1. rec \in Lane /\ rec.song = s
    BY IdleLaneOK DEF Lane, Stage
  <2> HIDE DEF rec
  <2>2. SetLane(w, l, rec)
    BY DEF TakeItem, rec
  <2>3. QED BY <2>1, <2>2, LanesSet DEF TypeInv
<1>3. /\ RunsOK' /\ SongsOK' /\ AnnouncedOK' /\ StateOK' /\ SourceOK'
      /\ CountersOK' /\ LockOK'
  BY KeepsParts DEF env, catalog, db, memory, TakeItem
<1>4. QED BY <1>1, <1>2, <1>3 DEF TypeInv

\* LaneCancelled keeps the type invariant.
LEMMA TypeLaneCancelled ==
  ASSUME TypeInv, NEW w \in Workers, NEW l \in Lanes,
         LaneCancelled(w, l)
  PROVE  TypeInv'
<1>1. WorkersOK'
  BY WorkersStop DEF TypeInv, LaneCancelled, StopLanes
<1>2. LanesOK'
  BY LanesIdle DEF TypeInv, LaneCancelled, StopLanes
<1>3. /\ RunsOK' /\ SongsOK' /\ AnnouncedOK' /\ StateOK' /\ SourceOK'
      /\ CountersOK' /\ LockOK'
  BY KeepsParts DEF env, catalog, db, memory, LaneCancelled
<1>4. QED BY <1>1, <1>2, <1>3 DEF TypeInv

\* FetchSong keeps the type invariant.
LEMMA TypeFetchSong ==
  ASSUME TypeInv, NEW w \in Workers, NEW l \in Lanes,
         FetchSong(w, l)
  PROVE  TypeInv'
<1>1. LanesOK'
  <2> DEFINE source == upstream[lane[w][l].song]
             rec == [lane[w][l] EXCEPT
                       !.stage = "fetched",
                       !.deleted = (source.status = "deleted"),
                       !.ver = source.changedAt]
  <2>1. lane[w][l] \in Lane /\ lane[w][l].song \in Songs
    BY DEF TypeInv, LanesOK, HasSong, FetchSong, AtStage
  <2>2. source.changedAt \in Int
    BY <2>1 DEF TypeInv, SourceOK
  <2>3. rec \in Lane /\ rec.song \in Songs
    BY <2>1, <2>2 DEF Lane, Stage
  <2>4. SetLane(w, l, rec)
    BY DEF FetchSong
  <2> HIDE DEF rec
  <2>5. QED BY <2>3, <2>4, LanesSet DEF TypeInv
<1>2. /\ WorkersOK' /\ RunsOK' /\ SongsOK' /\ AnnouncedOK' /\ StateOK'
      /\ SourceOK' /\ CountersOK' /\ LockOK'
  BY KeepsParts DEF env, catalog, db, memory, FetchSong
<1>3. QED BY <1>1, <1>2 DEF TypeInv

\* FetchNotFound keeps the type invariant.
LEMMA TypeFetchNotFound ==
  ASSUME TypeInv, NEW w \in Workers, NEW l \in Lanes,
         FetchNotFound(w, l)
  PROVE  TypeInv'
<1>1. LanesOK'
  BY LanesStage DEF TypeInv, FetchNotFound, AtStage, Stage
<1>2. CountersOK'
  BY DEF TypeInv, CountersOK, env, FetchNotFound, Fault
<1>3. /\ WorkersOK' /\ RunsOK' /\ SongsOK' /\ AnnouncedOK' /\ StateOK'
      /\ SourceOK' /\ LockOK'
  BY KeepsParts DEF env, catalog, db, memory, FetchNotFound
<1>4. QED BY <1>1, <1>2, <1>3 DEF TypeInv

\* SyncSong keeps the type invariant.
LEMMA TypeSyncSong ==
  ASSUME TypeInv, NEW w \in Workers, NEW l \in Lanes,
         SyncSong(w, l)
  PROVE  TypeInv'
<1>1. LanesOK'
  BY LanesStage DEF TypeInv, SyncSong, AtStage, Stage
<1>2. SongsOK' /\ RunsOK'
  <2>1. lane[w][l].song \in Songs
    BY DEF TypeInv, LanesOK, HasSong, SyncSong, AtStage
  <2>2. lane[w][l] \in Lane
    BY DEF TypeInv, LanesOK
  <2>3. [status |-> IF lane[w][l].deleted THEN "SOURCE_DELETED" ELSE "SYNCED",
         deleted |-> lane[w][l].deleted, ver |-> lane[w][l].ver] \in LocalRow
    BY <2>2 DEF Lane, LocalRow, LocalStatus
  <2>4. QED BY <2>1, <2>3, WriteOK DEF TypeInv, SyncSong
<1>3. /\ WorkersOK' /\ AnnouncedOK' /\ StateOK' /\ SourceOK' /\ CountersOK'
      /\ LockOK'
  BY KeepsParts DEF env, catalog, db, memory, SyncSong
<1>4. QED BY <1>1, <1>2, <1>3 DEF TypeInv

\* FinishItem keeps the type invariant.
LEMMA TypeFinishItem ==
  ASSUME TypeInv, NEW w \in Workers, NEW l \in Lanes,
         FinishItem(w, l)
  PROVE  TypeInv'
<1>1. LanesOK'
  BY LanesIdle DEF TypeInv, FinishItem
<1>2. RunsOK'
  <2>1. lane[w][l].song \in Songs
    BY DEF TypeInv, LanesOK, HasSong, FinishItem, AtStage
  <2> DEFINE status == IF lane[w][l].deleted THEN "SOURCE_DELETED"
                       ELSE "SYNCED"
  <2>2. status \in ItemStatus
    BY DEF ItemStatus, Settled
  <2>3. runs' = [runs EXCEPT ![worker[w].run].items[lane[w][l].song] = status]
    BY DEF FinishItem, SetItem
  <2> HIDE DEF status
  <2>4. QED BY <2>1, <2>2, <2>3, RunsItem DEF TypeInv
<1>3. /\ WorkersOK' /\ SongsOK' /\ AnnouncedOK' /\ StateOK' /\ SourceOK'
      /\ CountersOK' /\ LockOK'
  BY KeepsParts DEF env, catalog, db, memory, FinishItem
<1>4. QED BY <1>1, <1>2, <1>3 DEF TypeInv

\* SettleMarkedItem keeps the type invariant.
LEMMA TypeSettleMarkedItem ==
  ASSUME TypeInv, NEW w \in Workers, NEW l \in Lanes,
         SettleMarkedItem(w, l)
  PROVE  TypeInv'
<1>1. LanesOK'
  BY LanesIdle DEF TypeInv, SettleMarkedItem
<1>2. RunsOK'
  <2>1. lane[w][l].song \in Songs
    BY DEF TypeInv, LanesOK, HasSong, SettleMarkedItem, AtStage
  <2> DEFINE status == MarkedItem(w, l)
  <2>2. status \in ItemStatus
    BY DEF ItemStatus, Settled, MarkedItem
  <2>3. runs' = [runs EXCEPT ![worker[w].run].items[lane[w][l].song] = status]
    BY DEF SettleMarkedItem, SetItem
  <2> HIDE DEF status
  <2>4. QED BY <2>1, <2>2, <2>3, RunsItem DEF TypeInv
<1>3. /\ WorkersOK' /\ SongsOK' /\ AnnouncedOK' /\ StateOK' /\ SourceOK'
      /\ CountersOK' /\ LockOK'
  BY KeepsParts DEF env, catalog, db, memory, SettleMarkedItem
<1>4. QED BY <1>1, <1>2, <1>3 DEF TypeInv

\* MarkDeleted keeps the type invariant.
LEMMA TypeMarkDeleted ==
  ASSUME TypeInv, NEW w \in Workers, NEW l \in Lanes,
         MarkDeleted(w, l)
  PROVE  TypeInv'
<1>1. LanesOK'
  BY LanesStage DEF TypeInv, MarkDeleted, AtStage, Stage
<1>2. SongsOK' /\ RunsOK'
  <2>1. lane[w][l].song \in Songs
    BY DEF TypeInv, LanesOK, HasSong, MarkDeleted, AtStage
  <2>2. song[lane[w][l].song] \in LocalRow
    BY <2>1 DEF TypeInv, SongsOK, LocalRow
  <2>3. PICK row \in LocalRow : WriteSong(w, lane[w][l].song, row)
    BY <2>2 DEF MarkDeleted, LocalRow, LocalStatus
  <2>4. QED BY <2>1, <2>3, WriteOK DEF TypeInv
<1>3. /\ WorkersOK' /\ AnnouncedOK' /\ StateOK' /\ SourceOK' /\ CountersOK'
      /\ LockOK'
  BY KeepsParts DEF env, catalog, db, memory, MarkDeleted
<1>4. QED BY <1>1, <1>2, <1>3 DEF TypeInv

\* MarkFailure keeps the type invariant.
LEMMA TypeMarkFailure ==
  ASSUME TypeInv, NEW w \in Workers, NEW l \in Lanes,
         MarkFailure(w, l)
  PROVE  TypeInv'
<1>1. LanesOK'
  BY LanesStage DEF TypeInv, MarkFailure, AtStage, Stage
<1>2. SongsOK' /\ RunsOK'
  <2>1. lane[w][l].song \in Songs
    BY DEF TypeInv, LanesOK, HasSong, MarkFailure, AtStage
  <2>2. song[lane[w][l].song] \in LocalRow
    BY <2>1 DEF TypeInv, SongsOK, LocalRow
  <2>3. PICK row \in LocalRow : WriteSong(w, lane[w][l].song, row)
    BY <2>2 DEF MarkFailure, LocalRow, LocalStatus
  <2>4. QED BY <2>1, <2>3, WriteOK DEF TypeInv
<1>3. /\ WorkersOK' /\ AnnouncedOK' /\ StateOK' /\ SourceOK' /\ CountersOK'
      /\ LockOK'
  BY KeepsParts DEF env, catalog, db, memory, MarkFailure
<1>4. QED BY <1>1, <1>2, <1>3 DEF TypeInv

\* ItemError keeps the type invariant.
LEMMA TypeItemError ==
  ASSUME TypeInv, NEW w \in Workers, NEW l \in Lanes,
         ItemError(w, l)
  PROVE  TypeInv'
<1>1. WorkersOK'
  <2>1. CASE UNCHANGED worker
    BY <2>1 DEF TypeInv, WorkersOK, HasRun
  <2>2. CASE StopLanes(w, l)
    BY <2>2, WorkersStop DEF TypeInv, StopLanes
  <2>3. QED BY <2>1, <2>2 DEF ItemError
<1>2. LanesOK'
  <2>1. CASE SetStage(w, l, "failing")
    BY <2>1, LanesStage DEF TypeInv, ItemError, AtStage, Stage
  <2>2. CASE StopLanes(w, l)
    BY <2>2, LanesIdle DEF TypeInv, StopLanes
  <2>3. QED BY <2>1, <2>2 DEF ItemError
<1>3. CountersOK'
  BY DEF TypeInv, CountersOK, env, ItemError, Fault
<1>4. RunsOK' /\ SongsOK' /\ AnnouncedOK' /\ StateOK' /\ SourceOK' /\ LockOK'
  BY KeepsParts DEF env, catalog, db, memory, ItemError
<1>5. QED BY <1>1, <1>2, <1>3, <1>4 DEF TypeInv

\* MarkFails keeps the type invariant.
LEMMA TypeMarkFails ==
  ASSUME TypeInv, NEW w \in Workers, NEW l \in Lanes,
         MarkFails(w, l)
  PROVE  TypeInv'
<1>1. WorkersOK'
  BY WorkersStop DEF TypeInv, MarkFails, StopLanes
<1>2. LanesOK'
  BY LanesIdle DEF TypeInv, MarkFails, StopLanes
<1>3. CountersOK'
  BY DEF TypeInv, CountersOK, env, MarkFails, Fault
<1>4. RunsOK' /\ SongsOK' /\ AnnouncedOK' /\ StateOK' /\ SourceOK' /\ LockOK'
  BY KeepsParts DEF env, catalog, db, memory, MarkFails
<1>5. QED BY <1>1, <1>2, <1>3, <1>4 DEF TypeInv

\* BeginFails keeps the type invariant.
LEMMA TypeBeginFails ==
  ASSUME TypeInv, NEW w \in Workers, NEW l \in Lanes, NEW s \in Songs,
         BeginFails(w, l, s)
  PROVE  TypeInv'
<1>1. WorkersOK'
  <2> DEFINE rec == [worker[w] EXCEPT !.queue = @ \ {s}, !.stopped = TRUE]
  <2>1. worker[w] \in Worker
    BY DEF TypeInv, WorkersOK
  <2>2. rec \in Worker
    BY <2>1 DEF Worker
  <2>3. rec.pc \notin EarlyPc => rec.run \in RunIds
    BY <2>1 DEF TypeInv, WorkersOK, HasRun, EarlyPc, Worker, BeginFails
  <2>4. worker' = [worker EXCEPT ![w] = rec]
    BY DEF BeginFails
  <2> HIDE DEF rec
  <2>5. QED BY <2>2, <2>3, <2>4, WorkersSet DEF TypeInv
<1>2. CountersOK'
  BY DEF TypeInv, CountersOK, env, BeginFails, Fault
<1>3. /\ LanesOK' /\ RunsOK' /\ SongsOK' /\ AnnouncedOK' /\ StateOK'
      /\ SourceOK' /\ LockOK'
  BY KeepsParts DEF env, catalog, db, memory, BeginFails
<1>4. QED BY <1>1, <1>2, <1>3 DEF TypeInv

\* StepFails keeps the type invariant.
LEMMA TypeStepFails ==
  ASSUME TypeInv, NEW w \in Workers,
         StepFails(w)
  PROVE  TypeInv'
<1>1. WorkersOK'
  <2>1. CASE Exit(w)
    BY <2>1, WorkersExit DEF TypeInv
  <2>2. CASE Goto(w, "interrupt") /\ worker[w].pc \notin EarlyPc
    <3>1. worker[w].run \in RunIds
      BY <2>2 DEF TypeInv, WorkersOK, HasRun
    <3>2. QED BY <2>2, <3>1, WorkersGoto DEF TypeInv, Pc
  <2>3. QED BY <2>1, <2>2 DEF StepFails, EarlyPc
<1>2. LanesOK'
  <2>1. CASE Exit(w)
    BY <2>1, LanesExit DEF TypeInv
  <2>2. CASE UNCHANGED lane
    BY <2>2 DEF TypeInv, LanesOK, HasSong
  <2>3. QED BY <2>1, <2>2 DEF StepFails
<1>3. LockOK'
  <2>1. CASE Exit(w)
    BY <2>1, LockExit DEF TypeInv
  <2>2. CASE UNCHANGED lock
    BY <2>2 DEF TypeInv, LockOK
  <2>3. QED BY <2>1, <2>2 DEF StepFails
<1>4. CountersOK'
  BY DEF TypeInv, CountersOK, env, StepFails, Fault
<1>5. RunsOK' /\ SongsOK' /\ AnnouncedOK' /\ StateOK' /\ SourceOK'
  BY KeepsParts DEF env, catalog, db, memory, StepFails
<1>6. QED BY <1>1, <1>2, <1>3, <1>4, <1>5 DEF TypeInv

\* Crash keeps the type invariant.
LEMMA TypeCrash ==
  ASSUME TypeInv, NEW w \in Workers,
         Crash(w)
  PROVE  TypeInv'
<1>1. WorkersOK'
  BY WorkersExit DEF TypeInv, Crash
<1>2. LanesOK'
  BY LanesExit DEF TypeInv, Crash
<1>3. LockOK'
  BY LockExit DEF TypeInv, Crash
<1>4. CountersOK'
  BY DEF TypeInv, CountersOK, env, Crash, Fault
<1>5. RunsOK' /\ SongsOK' /\ AnnouncedOK' /\ StateOK' /\ SourceOK'
  BY KeepsParts DEF env, catalog, db, memory, Crash
<1>6. QED BY <1>1, <1>2, <1>3, <1>4, <1>5 DEF TypeInv

\* Signal keeps the type invariant.
LEMMA TypeSignal ==
  ASSUME TypeInv, NEW w \in Workers,
         Signal(w)
  PROVE  TypeInv'
<1>1. WorkersOK'
  <2> DEFINE rec == [worker[w] EXCEPT !.aborted = TRUE]
  <2>1. worker[w] \in Worker
    BY DEF TypeInv, WorkersOK
  <2>2. rec \in Worker
    BY <2>1 DEF Worker
  <2>3. rec.pc \notin EarlyPc => rec.run \in RunIds
    BY <2>1 DEF TypeInv, WorkersOK, HasRun, EarlyPc, Worker, Signal
  <2>4. worker' = [worker EXCEPT ![w] = rec]
    BY DEF Signal
  <2> HIDE DEF rec
  <2>5. QED BY <2>2, <2>3, <2>4, WorkersSet DEF TypeInv
<1>2. CountersOK'
  BY DEF TypeInv, CountersOK, env, Signal, Fault
<1>3. /\ LanesOK' /\ RunsOK' /\ SongsOK' /\ AnnouncedOK' /\ StateOK'
      /\ SourceOK' /\ LockOK'
  BY KeepsParts DEF env, catalog, db, memory, Signal
<1>4. QED BY <1>1, <1>2, <1>3 DEF TypeInv

-----------------------------------------------------------------------------
(***************************************************************************)
(* The invariant and the theorem                                           *)
(***************************************************************************)

\* The program starts in a state of the right types.
LEMMA TypeInit == Init => TypeInv
<1> SUFFICES ASSUME Init PROVE TypeInv
  OBVIOUS
<1>1. WorkersOK
  BY IdleWorkerOK DEF Init, WorkersOK, HasRun, EarlyPc
<1>2. LanesOK
  BY IdleLaneOK DEF Init, LanesOK, HasSong
<1>3. RunsOK
  BY FreeRunOK DEF Init, RunsOK
<1>4. SongsOK /\ AnnouncedOK
  BY DEF Init, SongsOK, AnnouncedOK, LocalRow, LocalStatus, Absent, Projection,
         Public
<1>5. StateOK /\ CountersOK /\ LockOK
  BY DEF Init, StateOK, CountersOK, LockOK
<1>6. SourceOK
  BY DEF Init, SourceOK, SourceStatus
<1>7. QED BY <1>1, <1>2, <1>3, <1>4, <1>5, <1>6 DEF TypeInv

\* A step of one worker, its lanes or its faults keeps the type invariant.
LEMMA TypeWorker ==
  ASSUME TypeInv, NEW w \in Workers,
         \/ \E req \in Requests : Start(w, req)
         \/ WorkerStep(w)
         \/ \E l \in Lanes : LaneStep(w, l)
         \/ FaultStep(w)
  PROVE  TypeInv'
<1>1. CASE \E req \in Requests : Start(w, req)
  BY <1>1, TypeStart
<1>2. CASE WorkerStep(w)
  BY <1>2, TypeResumeRun, TypeCreateRun, TypeDecideToCreate, TypeRejectRequest,
     TypeRefuseToCreate, TypeDiscover, TypePersistManifest, TypeSkipDiscovery,
     TypeListPending, TypeSettleLanes, TypeCountItems, TypeFinalizeRun,
     TypeWindowSaturates, TypeCheckpointConflict, TypeObserveSignal,
     TypeRecordInterruption
  DEF WorkerStep
<1>3. CASE \E l \in Lanes : LaneStep(w, l)
  BY <1>3, TypeTakeItem, TypeLaneCancelled, TypeFetchSong, TypeFetchNotFound,
     TypeSyncSong, TypeFinishItem, TypeMarkDeleted, TypeMarkFailure,
     TypeSettleMarkedItem
  DEF LaneStep
<1>4. CASE FaultStep(w)
  BY <1>4, TypeItemError, TypeMarkFails, TypeBeginFails, TypeStepFails,
     TypeFinalizeAnswerLost, TypeCrash, TypeSignal
  DEF FaultStep
<1>5. QED BY <1>1, <1>2, <1>3, <1>4

\* Every step of the specification keeps the type invariant.
LEMMA TypeNext == TypeInv /\ [Next]_vars => TypeInv'
<1> SUFFICES ASSUME TypeInv, [Next]_vars PROVE TypeInv'
  OBVIOUS
<1>1. CASE Tick \/ Burst
  BY <1>1, TypeTick, TypeBurst
<1>2. CASE \E s \in Songs, status \in SourceStatus : SourceChange(s, status)
  BY <1>2, TypeSourceChange
<1>3. CASE DropLock
  BY <1>3, TypeDropLock
<1>4. CASE \E w \in Workers :
             \/ \E req \in Requests : Start(w, req)
             \/ WorkerStep(w)
             \/ \E l \in Lanes : LaneStep(w, l)
             \/ FaultStep(w)
  BY <1>4, TypeWorker
<1>5. CASE UNCHANGED vars
  BY <1>5, KeepsParts DEF vars, TypeInv
<1>6. QED BY <1>1, <1>2, <1>3, <1>4, <1>5 DEF Next

\* In every reachable state the strengthened type invariant holds.
THEOREM TypeInvariant == Spec => []TypeInv
  BY TypeInit, TypeNext, PTL DEF Spec

\* Whatever the songs, workers, lanes, requests and bounds: every SyncRun,
\* SyncItem and Song row keeps a status the schema knows, and every worker and
\* lane stays where the code can be.
THEOREM TypeCorrect == Spec => []TypeOK
  BY TypeInvariant, TypeOKFromInv, PTL

-----------------------------------------------------------------------------
(***************************************************************************)
(* What the advisory lock buys: while no session loses it unnoticed, there *)
(* is at most one RUNNING run, terminal runs are frozen, and no change of  *)
(* the catalog is left without a run that will announce it.                *)
(*                                                                         *)
(* None of the three is inductive alone.  SyncInv adds that a process that *)
(* has started holds the lock (Holder), that a worker past the choice of   *)
(* its run works on a RUNNING one (Busy), or has finished it without       *)
(* knowing (Done), and that a worker about to create a run still sees none *)
(* (Alone).  Every action is first reduced to one of a few effects, and    *)
(* the invariant is shown for the effects.                                 *)
(***************************************************************************)
Holder == \A w \in Workers : worker[w].pc # "idle" => lock = w
Done(r) == runs[r].status \in Terminal /\ ~runs[r].catalogChanged
Busy ==
  \A w \in Workers :
    worker[w].pc \notin EarlyPc =>
      \/ runs[worker[w].run].status = "RUNNING"
      \/ /\ worker[w].pc = "interrupt" /\ Done(worker[w].run)
         /\ Running = {}
Alone == \A w \in Workers : worker[w].pc = "creating" => Running = {}

SyncInv ==
  /\ TypeInv /\ Holder /\ Busy /\ Alone
  /\ AtMostOneRunning /\ NoLostInvalidation

-----------------------------------------------------------------------------
(***************************************************************************)
(* The effects a step of worker w can have                                 *)
(***************************************************************************)
Others(w) == \A v \in Workers \ {w} : worker'[v] = worker[v]

\* A step writes to no run but its worker's, once that is chosen.
OnlyOwn(w) ==
  \A q \in RunIds :
    runs'[q] # runs[q] => q = worker[w].run /\ worker[w].pc \notin EarlyPc

KeepsRuns ==
  \A q \in RunIds : /\ runs'[q].status = runs[q].status
                    /\ runs'[q].catalogChanged = runs[q].catalogChanged

\* The worker goes on: it keeps the lock and its run, and what it has not
\* chosen yet stays open.
Stays(w) ==
  /\ worker[w].pc \notin {"idle", "interrupt"}
  /\ Others(w)
  /\ lock' = lock
  /\ worker'[w].run = worker[w].run
  /\ \/ worker'[w].pc = worker[w].pc
     \/ worker[w].pc \notin EarlyPc /\ worker'[w].pc \notin EarlyPc

Leaves(w) ==
  /\ worker[w].pc # "idle"
  /\ Others(w)
  /\ worker'[w].pc = "idle"
  /\ lock' = IF lock = w THEN NoWorker ELSE lock

\* It works on, without touching the catalog.
Works(w) ==
  Stays(w) /\ OnlyOwn(w) /\ KeepsRuns /\ UNCHANGED <<song, announced>>

\* It writes a song.
Writes(w) ==
  /\ Stays(w) /\ worker[w].pc \notin EarlyPc
  /\ UNCHANGED announced
  /\ \E s \in Songs, row \in LocalRow : WriteSong(w, s, row)

\* It ends without having touched the database.
Quits(w) == Leaves(w) /\ UNCHANGED <<song, announced, runs>>

\* It ends after it has consumed its run's catalog change.
Closes(w) ==
  LET r == worker[w].run IN
  /\ Leaves(w) /\ worker[w].pc \notin EarlyPc
  /\ OnlyOwn(w)
  /\ ConsumeCatalogChange(r)
  /\ runs'[r].status = runs[r].status \/ runs'[r].status \in Terminal
  /\ worker[w].pc = "interrupt" /\ Done(r) => runs'[r] = runs[r]
  /\ UNCHANGED song

\* It closes its run and goes on to record an interruption.
Commits(w) ==
  LET r == worker[w].run IN
  /\ Stays(w) /\ worker[w].pc \notin EarlyPc
  /\ worker'[w].pc = "interrupt"
  /\ OnlyOwn(w)
  /\ ConsumeCatalogChange(r)
  /\ runs'[r].status \in Terminal /\ ~runs'[r].catalogChanged
  /\ UNCHANGED song

-----------------------------------------------------------------------------
(***************************************************************************)
(* The effects preserve the invariant                                      *)
(***************************************************************************)

\* A started process excludes every other one.
LEMMA HolderExcludes ==
  ASSUME Holder, NEW w \in Workers, NEW v \in Workers,
         worker[w].pc # "idle", v # w
  PROVE  worker[v].pc = "idle"
  BY DEF Holder

\* A worker that goes on or ends leaves the lock with whoever is running.
LEMMA HolderStep ==
  ASSUME Holder, NEW w \in Workers, Stays(w) \/ Leaves(w)
  PROVE  Holder'
  BY WorkersAssumption DEF Holder, Stays, Leaves, Others

\* Past the choice of its run and before the interruption, a worker has it
\* RUNNING.
LEMMA BusyRuns ==
  ASSUME SyncInv, NEW w \in Workers, Stays(w), worker[w].pc \notin EarlyPc
  PROVE  worker[w].run \in RunIds /\ runs[worker[w].run].status = "RUNNING"
  BY DEF SyncInv, TypeInv, WorkersOK, HasRun, Busy, Stays

\* Working on keeps the invariant.
LEMMA SafeWorks ==
  ASSUME SyncInv, TypeInv', NEW w \in Workers, Works(w)
  PROVE  SyncInv'
<1>1. Holder'
  BY HolderStep DEF SyncInv, Works
<1>2. Running' = Running
  BY DEF Works, KeepsRuns, Running
<1>3. \A v \in Workers \ {w} : worker'[v].pc = "idle"
  BY HolderExcludes DEF SyncInv, Works, Stays, Others
<1>4. Busy'
  <2>1. ASSUME worker'[w].pc \notin EarlyPc
        PROVE  runs'[worker'[w].run].status = "RUNNING"
    BY <2>1, BusyRuns DEF Works, Stays, KeepsRuns
  <2>2. QED BY <1>3, <2>1 DEF Busy, EarlyPc
<1>5. Alone'
  BY <1>2 DEF SyncInv, Works, Alone, Stays, Others, EarlyPc
<1>6. AtMostOneRunning'
  BY <1>2 DEF SyncInv, AtMostOneRunning
<1>7. NoLostInvalidation'
  <2>1. \A r \in Running : runs'[r].catalogChanged = runs[r].catalogChanged
    BY DEF Works, KeepsRuns, Running
  <2>2. \A s \in Songs : Projection(song'[s]) = Projection(song[s])
    BY DEF Works
  <2>3. QED BY <1>2, <2>1, <2>2 DEF SyncInv, Works, NoLostInvalidation
<1>8. QED BY <1>1, <1>4, <1>5, <1>6, <1>7 DEF SyncInv

\* Writing a song keeps the invariant: a changed projection flags a RUNNING
\* run in the same transaction.
LEMMA SafeWrites ==
  ASSUME SyncInv, TypeInv', NEW w \in Workers, Writes(w)
  PROVE  SyncInv'
<1> DEFINE r == worker[w].run
<1>1. PICK s \in Songs, row \in LocalRow : WriteSong(w, s, row)
  BY DEF Writes
<1>2. r \in RunIds /\ runs[r].status = "RUNNING" /\ runs \in [RunIds -> Run]
  BY BusyRuns DEF SyncInv, TypeInv, RunsOK, Writes
<1>3. runs' = [runs EXCEPT ![r] = [runs[r] EXCEPT !.catalogChanged = TRUE]]
      \/ runs' = runs
  BY <1>1 DEF WriteSong
<1>4. runs[r] \in Run
  BY <1>2
<1>5. [runs[r] EXCEPT !.catalogChanged = TRUE].status = runs[r].status
  BY <1>4 DEF Run
<1>6. \A q \in RunIds : runs'[q].status = runs[q].status
  BY <1>2, <1>3, <1>5
<1>7. Running' = Running
  BY <1>6 DEF Running
<1>8. Holder'
  BY HolderStep DEF SyncInv, Writes
<1>9. Busy'
  <2>1. \A v \in Workers \ {w} : worker'[v].pc = "idle"
    BY HolderExcludes DEF SyncInv, Writes, Stays, Others
  <2>2. runs'[worker'[w].run].status = "RUNNING"
    BY <1>2, <1>6 DEF Writes, Stays
  <2>3. QED BY <2>1, <2>2 DEF Busy, EarlyPc
<1>10. Alone'
  BY <1>7 DEF SyncInv, Writes, Alone, Stays, Others, EarlyPc
<1>11. AtMostOneRunning'
  BY <1>7 DEF SyncInv, AtMostOneRunning
<1>12. NoLostInvalidation'
  <2>1. r \in Running'
    BY <1>2, <1>7 DEF Running
  <2>2. CASE Projection(row) # Projection(song[s])
    <3>1. runs'[r] = [runs[r] EXCEPT !.catalogChanged = TRUE]
      BY <1>1, <1>2, <2>2 DEF WriteSong
    <3>2. runs'[r].catalogChanged = TRUE
      BY <1>4, <3>1 DEF Run
    <3>3. QED BY <2>1, <3>2 DEF NoLostInvalidation
  <2>3. CASE Projection(row) = Projection(song[s])
    <3>1. runs' = runs
      BY <1>1, <2>3 DEF WriteSong
    <3>2. song' = [song EXCEPT ![s] = row] /\ song \in [Songs -> LocalRow]
      BY <1>1 DEF WriteSong, SyncInv, TypeInv, SongsOK
    <3>3. \A t \in Songs : Projection(song'[t]) = Projection(song[t])
      BY <2>3, <3>2
    <3>4. announced' = announced
      BY DEF Writes
    <3>5. QED BY <1>7, <3>1, <3>3, <3>4 DEF SyncInv, NoLostInvalidation
  <2>4. QED BY <2>2, <2>3
<1>13. QED BY <1>8, <1>9, <1>10, <1>11, <1>12 DEF SyncInv

\* Ending before the choice of a run, or by a crash, keeps the invariant.
LEMMA SafeQuits ==
  ASSUME SyncInv, TypeInv', NEW w \in Workers, Quits(w)
  PROVE  SyncInv'
<1>1. Holder'
  BY HolderStep DEF SyncInv, Quits
<1>2. Running' = Running
  BY DEF Quits, Running
<1>3. Busy'
  BY <1>2 DEF SyncInv, Quits, Leaves, Others, Busy, Done, EarlyPc
<1>4. Alone'
  BY <1>2 DEF SyncInv, Quits, Leaves, Others, Alone
<1>5. AtMostOneRunning' /\ NoLostInvalidation'
  BY <1>2 DEF SyncInv, Quits, AtMostOneRunning, NoLostInvalidation
<1>6. QED BY <1>1, <1>3, <1>4, <1>5 DEF SyncInv

\* Once a worker has consumed its run's change, every change is announced.
LEMMA AnnouncesAll ==
  ASSUME SyncInv, NEW w \in Workers, worker[w].pc \notin EarlyPc,
         ConsumeCatalogChange(worker[w].run), UNCHANGED song
  PROVE  \A s \in Songs : Projection(song'[s]) = announced'[s]
<1> DEFINE r == worker[w].run
<1>1. r \in RunIds
  BY DEF SyncInv, TypeInv, WorkersOK, HasRun
<1>2. CASE runs[r].catalogChanged
  BY <1>2 DEF ConsumeCatalogChange
<1>3. CASE ~runs[r].catalogChanged
  <2>1. Running \subseteq {r}
    BY <1>1 DEF SyncInv, AtMostOneRunning, Busy, Running
  <2>2. \A s \in Songs : Projection(song[s]) = announced[s]
    BY <1>3, <2>1 DEF SyncInv, NoLostInvalidation
  <2>3. announced' = announced
    BY <1>3 DEF ConsumeCatalogChange
  <2>4. QED BY <2>2, <2>3
<1>4. QED BY <1>2, <1>3

\* Closing a run keeps the invariant: the only RUNNING run is the closed one,
\* so no other owes a bump, and its own change is announced.
LEMMA SafeCloses ==
  ASSUME SyncInv, TypeInv', NEW w \in Workers, Closes(w)
  PROVE  SyncInv'
<1> DEFINE r == worker[w].run
<1>1. Holder'
  BY HolderStep DEF SyncInv, Closes
<1>2. Running' \subseteq Running
  <2>1. ASSUME NEW q \in RunIds, runs'[q].status = "RUNNING"
        PROVE  runs[q].status = "RUNNING"
    <3>1. runs'[r].status # "RUNNING" \/ runs'[r].status = runs[r].status
      BY DEF Closes, Terminal
    <3>2. q # r => runs'[q] = runs[q]
      BY DEF Closes, OnlyOwn
    <3>3. QED BY <2>1, <3>1, <3>2
  <2>2. QED BY <2>1 DEF Running
<1>3. \A v \in Workers : worker'[v].pc = "idle"
  BY HolderExcludes DEF SyncInv, Closes, Leaves, Others
<1>4. Busy' /\ Alone'
  BY <1>3 DEF Busy, Alone, EarlyPc
<1>5. AtMostOneRunning'
  BY <1>2 DEF SyncInv, AtMostOneRunning
<1>6. \A s \in Songs : Projection(song'[s]) = announced'[s]
  BY AnnouncesAll DEF Closes
<1>7. NoLostInvalidation'
  BY <1>6 DEF NoLostInvalidation
<1>8. QED BY <1>1, <1>4, <1>5, <1>7 DEF SyncInv

\* Closing a run without knowing keeps the invariant: none is RUNNING then.
LEMMA SafeCommits ==
  ASSUME SyncInv, TypeInv', NEW w \in Workers, Commits(w)
  PROVE  SyncInv'
<1> DEFINE r == worker[w].run
<1>1. Holder'
  BY HolderStep DEF SyncInv, Commits
<1>2. r \in RunIds /\ runs[r].status = "RUNNING"
  BY BusyRuns DEF Commits
<1>3. Running' = {}
  <2>1. \A q \in RunIds : runs[q].status = "RUNNING" => q = r
    BY <1>2 DEF SyncInv, AtMostOneRunning, Running
  <2>2. \A q \in RunIds : runs'[q].status # "RUNNING"
    BY <2>1 DEF Commits, OnlyOwn, Terminal
  <2>3. QED BY <2>2 DEF Running
<1>4. \A v \in Workers \ {w} : worker'[v].pc = "idle"
  BY HolderExcludes DEF SyncInv, Commits, Stays, Others
<1>5. Busy'
  <2>1. Done(worker[w].run)'
    BY DEF Commits, Stays, Done
  <2>2. QED BY <1>3, <1>4, <2>1 DEF Busy, EarlyPc, Commits
<1>6. Alone' /\ AtMostOneRunning'
  BY <1>3 DEF Alone, AtMostOneRunning
<1>7. NoLostInvalidation'
  BY AnnouncesAll DEF Commits, NoLostInvalidation
<1>8. QED BY <1>1, <1>5, <1>6, <1>7 DEF SyncInv

-----------------------------------------------------------------------------
(***************************************************************************)
(* What the actions do: one effect each                                    *)
(***************************************************************************)

\* A step that leaves the runs alone touches no run.
LEMMA RunsKept ==
  ASSUME NEW w \in Workers, UNCHANGED runs
  PROVE  OnlyOwn(w) /\ KeepsRuns
  BY DEF OnlyOwn, KeepsRuns

\* A step that gives a running worker new memory, lock and run unchanged.
LEMMA StaysSet ==
  ASSUME TypeInv, NEW w \in Workers, NEW rec,
         worker' = [worker EXCEPT ![w] = rec], lock' = lock,
         worker[w].pc \notin {"idle", "interrupt"}, rec.run = worker[w].run,
         \/ rec.pc = worker[w].pc
         \/ worker[w].pc \notin EarlyPc /\ rec.pc \notin EarlyPc
  PROVE  Stays(w)
  BY DEF TypeInv, WorkersOK, Stays, Others

\* A step that leaves a running worker's memory and the lock alone.
LEMMA StaysSame ==
  ASSUME NEW w \in Workers, UNCHANGED <<worker, lock>>,
         worker[w].pc \notin {"idle", "interrupt"}
  PROVE  Stays(w)
  BY DEF Stays, Others

\* A jump past the choice of the run.
LEMMA StaysGoto ==
  ASSUME TypeInv, NEW w \in Workers, NEW pc, Goto(w, pc), lock' = lock,
         worker[w].pc \notin EarlyPc, worker[w].pc # "interrupt",
         pc \notin EarlyPc
  PROVE  Stays(w) /\ worker'[w].pc = pc
<1> DEFINE rec == [worker[w] EXCEPT !.pc = pc]
<1>1. worker[w] \in Worker
  BY DEF TypeInv, WorkersOK
<1>2. rec.pc = pc /\ rec.run = worker[w].run
  BY <1>1 DEF Worker
<1>3. worker' = [worker EXCEPT ![w] = rec]
  BY DEF Goto
<1> HIDE DEF rec
<1>4. Stays(w)
  BY <1>2, <1>3, StaysSet DEF EarlyPc
<1>5. QED BY <1>2, <1>3, <1>4 DEF TypeInv, WorkersOK

\* Stopping the lanes is working on.
LEMMA StaysStop ==
  ASSUME TypeInv, NEW w \in Workers, NEW l \in Lanes, StopLanes(w, l),
         lock' = lock, worker[w].pc \notin {"idle", "interrupt"}
  PROVE  Stays(w)
<1> DEFINE rec == [worker[w] EXCEPT !.stopped = TRUE]
<1>1. worker[w] \in Worker
  BY DEF TypeInv, WorkersOK
<1>2. rec.pc = worker[w].pc /\ rec.run = worker[w].run
  BY <1>1 DEF Worker
<1>3. worker' = [worker EXCEPT ![w] = rec]
  BY DEF StopLanes
<1> HIDE DEF rec
<1>4. QED BY <1>2, <1>3, StaysSet

\* The end of a process.
LEMMA LeavesExit ==
  ASSUME TypeInv, NEW w \in Workers, Exit(w), worker[w].pc # "idle"
  PROVE  Leaves(w)
  BY IdleWorkerOK DEF TypeInv, WorkersOK, Exit, Leaves, Others

\* Settling an item keeps the status and the flag of every run.
LEMMA ItemKept ==
  ASSUME TypeInv, NEW w \in Workers, NEW l \in Lanes, NEW status,
         worker[w].pc = "processing", SetItem(w, l, status)
  PROVE  OnlyOwn(w) /\ KeepsRuns
<1> DEFINE r == worker[w].run
           rec == [runs[r] EXCEPT !.items[lane[w][l].song] = status]
<1>1. r \in RunIds /\ runs[r] \in Run /\ runs \in [RunIds -> Run]
  BY DEF TypeInv, WorkersOK, HasRun, RunsOK, EarlyPc
<1>2. /\ rec.status = runs[r].status
      /\ rec.catalogChanged = runs[r].catalogChanged
  BY <1>1 DEF Run
<1>3. runs' = [runs EXCEPT ![r] = rec]
  BY <1>1 DEF SetItem
<1> HIDE DEF rec
<1>4. OnlyOwn(w)
  BY <1>1, <1>3 DEF OnlyOwn, EarlyPc
<1>5. KeepsRuns
  BY <1>1, <1>2, <1>3 DEF KeepsRuns
<1>6. QED BY <1>4, <1>5

\* Discover is working on.
LEMMA EffectDiscover ==
  ASSUME TypeInv, NEW w \in Workers, Discover(w)
  PROVE  Works(w)
<1> DEFINE Rec(found, present) ==
      [worker[w] EXCEPT !.pc = "discovered", !.found = found,
                        !.present = present]
<1>1. PICK found \in SUBSET Songs, present \in SUBSET Songs :
        worker' = [worker EXCEPT ![w] = Rec(found, present)]
  BY DiscoverEffect
<1>2. worker[w] \in Worker
  BY DEF TypeInv, WorkersOK
<1>3. /\ Rec(found, present).pc = "discovered"
      /\ Rec(found, present).run = worker[w].run
  BY <1>2 DEF Worker
<1> HIDE DEF Rec
<1>4. Stays(w)
  BY <1>1, <1>3, StaysSet DEF Discover, EarlyPc
<1>5. QED BY <1>4, RunsKept DEF Works, Discover, db

\* PersistManifest is working on: it keeps its run's status and flag.
LEMMA EffectPersistManifest ==
  ASSUME TypeInv, NEW w \in Workers, PersistManifest(w)
  PROVE  Works(w)
<1> DEFINE mem == [worker[w] EXCEPT !.pc = "listing", !.found = {},
                                    !.present = {}]
           r == worker[w].run
           fresh == {s \in worker[w].found : runs[r].items[s] = "NONE"}
           row == [runs[r] EXCEPT
             !.discovered = TRUE,
             !.items = [s \in Songs |->
                          IF s \in fresh THEN "PENDING" ELSE @[s]],
             !.present = @ \cup (fresh \cap worker[w].present)]
<1>1. worker[w] \in Worker
  BY DEF TypeInv, WorkersOK
<1>2. mem.run = worker[w].run /\ mem.pc = "listing"
  BY <1>1 DEF Worker
<1>3. worker' = [worker EXCEPT ![w] = mem] /\ worker[w].pc = "discovered"
  BY DEF PersistManifest
<1>4. r \in RunIds /\ runs[r] \in Run /\ runs \in [RunIds -> Run]
  BY DEF TypeInv, WorkersOK, HasRun, EarlyPc, RunsOK, PersistManifest
<1>5. /\ row.status = runs[r].status
      /\ row.catalogChanged = runs[r].catalogChanged
  BY <1>4 DEF Run
<1>6. runs' = [runs EXCEPT ![r] = row]
  BY <1>4 DEF PersistManifest
<1> HIDE DEF mem, row
<1>7. Stays(w)
  BY <1>2, <1>3, StaysSet DEF PersistManifest, EarlyPc
<1>8. OnlyOwn(w) /\ KeepsRuns
  BY <1>3, <1>4, <1>5, <1>6 DEF OnlyOwn, KeepsRuns, EarlyPc
<1>9. QED BY <1>7, <1>8 DEF Works, PersistManifest, catalog

\* SkipDiscovery is working on.
LEMMA EffectSkipDiscovery ==
  ASSUME TypeInv, NEW w \in Workers, SkipDiscovery(w)
  PROVE  Works(w)
  BY StaysGoto, RunsKept DEF Works, SkipDiscovery, db, EarlyPc

\* CheckpointConflict is working on.
LEMMA EffectCheckpointConflict ==
  ASSUME TypeInv, NEW w \in Workers, CheckpointConflict(w)
  PROVE  Works(w)
  BY StaysGoto, RunsKept DEF Works, CheckpointConflict, db, EarlyPc

\* WindowSaturates is working on.
LEMMA EffectWindowSaturates ==
  ASSUME TypeInv, NEW w \in Workers, WindowSaturates(w)
  PROVE  Works(w)
  BY StaysGoto, RunsKept DEF Works, WindowSaturates, db, EarlyPc

\* ObserveSignal is working on.
LEMMA EffectObserveSignal ==
  ASSUME TypeInv, NEW w \in Workers, ObserveSignal(w)
  PROVE  Works(w)
  BY StaysGoto, RunsKept DEF Works, ObserveSignal, db, EarlyPc

\* ListPending is working on.
LEMMA EffectListPending ==
  ASSUME TypeInv, NEW w \in Workers, ListPending(w)
  PROVE  Works(w)
<1> DEFINE rec == [worker[w] EXCEPT
             !.pc = "processing",
             !.queue = {s \in Songs :
                          runs[worker[w].run].items[s] = "PENDING"}]
<1>1. worker[w] \in Worker
  BY DEF TypeInv, WorkersOK
<1>2. /\ rec.run = worker[w].run
      /\ \/ rec.pc = worker[w].pc
         \/ worker[w].pc \notin EarlyPc /\ rec.pc \notin EarlyPc
  BY <1>1 DEF Worker, ListPending, EarlyPc
<1>3. worker' = [worker EXCEPT ![w] = rec] /\ worker[w].pc # "idle"
  BY DEF ListPending
<1> HIDE DEF rec
<1>4. Stays(w)
  BY <1>2, <1>3, StaysSet DEF ListPending, db
<1>5. QED BY <1>4, RunsKept DEF Works, ListPending, db

\* SettleLanes is working on.
LEMMA EffectSettleLanes ==
  ASSUME TypeInv, NEW w \in Workers, SettleLanes(w)
  PROVE  Works(w)
<1> DEFINE rec == [worker[w] EXCEPT !.pc = AfterLanes(w), !.queue = {}]
<1>1. worker[w] \in Worker
  BY DEF TypeInv, WorkersOK
<1>2. /\ rec.run = worker[w].run
      /\ \/ rec.pc = worker[w].pc
         \/ worker[w].pc \notin EarlyPc /\ rec.pc \notin EarlyPc
  BY <1>1 DEF Worker, SettleLanes, EarlyPc, AfterLanes
<1>3. worker' = [worker EXCEPT ![w] = rec] /\ worker[w].pc # "idle"
  BY DEF SettleLanes
<1> HIDE DEF rec
<1>4. Stays(w)
  BY <1>2, <1>3, StaysSet DEF SettleLanes, db
<1>5. QED BY <1>4, RunsKept DEF Works, SettleLanes, db

\* CountItems is working on.
LEMMA EffectCountItems ==
  ASSUME TypeInv, NEW w \in Workers, CountItems(w)
  PROVE  Works(w)
<1> DEFINE rec == [worker[w] EXCEPT
             !.pc = "committing",
             !.verdict = Verdict(runs[worker[w].run].items)]
<1>1. worker[w] \in Worker
  BY DEF TypeInv, WorkersOK
<1>2. /\ rec.run = worker[w].run
      /\ \/ rec.pc = worker[w].pc
         \/ worker[w].pc \notin EarlyPc /\ rec.pc \notin EarlyPc
  BY <1>1 DEF Worker, CountItems, EarlyPc
<1>3. worker' = [worker EXCEPT ![w] = rec] /\ worker[w].pc # "idle"
  BY DEF CountItems
<1> HIDE DEF rec
<1>4. Stays(w)
  BY <1>2, <1>3, StaysSet DEF CountItems, db
<1>5. QED BY <1>4, RunsKept DEF Works, CountItems, db

\* TakeItem is working on.
LEMMA EffectTakeItem ==
  ASSUME TypeInv, NEW w \in Workers, NEW l \in Lanes, NEW s \in Songs,
         TakeItem(w, l, s)
  PROVE  Works(w)
<1> DEFINE rec == [worker[w] EXCEPT !.queue = @ \ {s}]
<1>1. worker[w] \in Worker
  BY DEF TypeInv, WorkersOK
<1>2. /\ rec.run = worker[w].run
      /\ \/ rec.pc = worker[w].pc
         \/ worker[w].pc \notin EarlyPc /\ rec.pc \notin EarlyPc
  BY <1>1 DEF Worker, TakeItem, EarlyPc
<1>3. worker' = [worker EXCEPT ![w] = rec] /\ worker[w].pc = "processing"
  BY DEF TakeItem, AtStage
<1> HIDE DEF rec
<1>4. Stays(w)
  BY <1>2, <1>3, StaysSet DEF TakeItem, db
<1>5. QED BY <1>4, RunsKept DEF Works, TakeItem, db

\* BeginFails is working on.
LEMMA EffectBeginFails ==
  ASSUME TypeInv, NEW w \in Workers, NEW l \in Lanes, NEW s \in Songs,
         BeginFails(w, l, s)
  PROVE  Works(w)
<1> DEFINE rec == [worker[w] EXCEPT !.queue = @ \ {s}, !.stopped = TRUE]
<1>1. worker[w] \in Worker
  BY DEF TypeInv, WorkersOK
<1>2. /\ rec.run = worker[w].run
      /\ \/ rec.pc = worker[w].pc
         \/ worker[w].pc \notin EarlyPc /\ rec.pc \notin EarlyPc
  BY <1>1 DEF Worker, BeginFails, EarlyPc
<1>3. worker' = [worker EXCEPT ![w] = rec] /\ worker[w].pc = "processing"
  BY DEF BeginFails, AtStage
<1> HIDE DEF rec
<1>4. Stays(w)
  BY <1>2, <1>3, StaysSet DEF BeginFails, db
<1>5. QED BY <1>4, RunsKept DEF Works, BeginFails, db

\* Signal is working on.
LEMMA EffectSignal ==
  ASSUME TypeInv, NEW w \in Workers, Signal(w)
  PROVE  Works(w)
<1> DEFINE rec == [worker[w] EXCEPT !.aborted = TRUE]
<1>1. worker[w] \in Worker
  BY DEF TypeInv, WorkersOK
<1>2. /\ rec.run = worker[w].run
      /\ \/ rec.pc = worker[w].pc
         \/ worker[w].pc \notin EarlyPc /\ rec.pc \notin EarlyPc
  BY <1>1 DEF Worker, Signal, EarlyPc
<1>3. worker' = [worker EXCEPT ![w] = rec] /\ worker[w].pc # "idle"
  BY DEF Signal
<1> HIDE DEF rec
<1>4. Stays(w)
  BY <1>2, <1>3, StaysSet DEF Signal, db
<1>5. QED BY <1>4, RunsKept DEF Works, Signal, db

\* LaneCancelled is working on: the lanes stop.
LEMMA EffectLaneCancelled ==
  ASSUME TypeInv, NEW w \in Workers, NEW l \in Lanes, LaneCancelled(w, l)
  PROVE  Works(w)
  BY StaysStop, RunsKept DEF Works, LaneCancelled, AtStage, db

\* MarkFails is working on: the lanes stop.
LEMMA EffectMarkFails ==
  ASSUME TypeInv, NEW w \in Workers, NEW l \in Lanes, MarkFails(w, l)
  PROVE  Works(w)
  BY StaysStop, RunsKept DEF Works, MarkFails, AtStage, db

\* FetchSong is working on.
LEMMA EffectFetchSong ==
  ASSUME TypeInv, NEW w \in Workers, NEW l \in Lanes, FetchSong(w, l)
  PROVE  Works(w)
  BY StaysSame, RunsKept DEF Works, FetchSong, AtStage, db

\* FetchNotFound is working on.
LEMMA EffectFetchNotFound ==
  ASSUME TypeInv, NEW w \in Workers, NEW l \in Lanes, FetchNotFound(w, l)
  PROVE  Works(w)
  BY StaysSame, RunsKept DEF Works, FetchNotFound, AtStage, db

\* ItemError is working on, whichever way the error is taken.
LEMMA EffectItemError ==
  ASSUME TypeInv, NEW w \in Workers, NEW l \in Lanes, ItemError(w, l)
  PROVE  Works(w)
<1>1. worker[w].pc = "processing" /\ lock' = lock /\ UNCHANGED db
  BY DEF ItemError, AtStage
<1>2. Stays(w)
  <2>1. CASE UNCHANGED worker
    BY <1>1, <2>1, StaysSame
  <2>2. CASE StopLanes(w, l)
    BY <1>1, <2>2, StaysStop
  <2>3. QED BY <2>1, <2>2 DEF ItemError
<1>3. QED BY <1>1, <1>2, RunsKept DEF Works, db

\* FinishItem is working on: only the item changes.
LEMMA EffectFinishItem ==
  ASSUME TypeInv, NEW w \in Workers, NEW l \in Lanes, FinishItem(w, l)
  PROVE  Works(w)
<1>1. Stays(w)
  BY StaysSame DEF FinishItem, AtStage
<1>2. OnlyOwn(w) /\ KeepsRuns
  BY ItemKept DEF FinishItem, AtStage
<1>3. QED BY <1>1, <1>2 DEF Works, FinishItem, catalog

\* SettleMarkedItem is working on: only the item changes.
LEMMA EffectSettleMarkedItem ==
  ASSUME TypeInv, NEW w \in Workers, NEW l \in Lanes, SettleMarkedItem(w, l)
  PROVE  Works(w)
<1>1. Stays(w)
  BY StaysSame DEF SettleMarkedItem, AtStage
<1>2. OnlyOwn(w) /\ KeepsRuns
  BY ItemKept DEF SettleMarkedItem, AtStage
<1>3. QED BY <1>1, <1>2 DEF Works, SettleMarkedItem, catalog

\* SyncSong writes the row of the song it fetched.
LEMMA EffectSyncSong ==
  ASSUME TypeInv, NEW w \in Workers, NEW l \in Lanes, SyncSong(w, l)
  PROVE  Writes(w)
<1> DEFINE got == lane[w][l]
           row == [status |->
                     IF got.deleted THEN "SOURCE_DELETED" ELSE "SYNCED",
                   deleted |-> got.deleted, ver |-> got.ver]
<1>1. got \in Lane /\ got.song \in Songs
  BY DEF TypeInv, LanesOK, HasSong, SyncSong, AtStage
<1>2. row \in LocalRow
  BY <1>1 DEF Lane, LocalRow, LocalStatus
<1>3. WriteSong(w, got.song, row)
  BY DEF SyncSong
<1>4. Stays(w) /\ worker[w].pc \notin EarlyPc
  BY StaysSame DEF SyncSong, AtStage, EarlyPc
<1> HIDE DEF row
<1>5. QED BY <1>1, <1>2, <1>3, <1>4 DEF Writes, SyncSong

\* MarkDeleted writes its song's row.
LEMMA EffectMarkDeleted ==
  ASSUME TypeInv, NEW w \in Workers, NEW l \in Lanes, MarkDeleted(w, l)
  PROVE  Writes(w)
<1>1. lane[w][l].song \in Songs
  BY DEF TypeInv, LanesOK, HasSong, MarkDeleted, AtStage
<1>2. song[lane[w][l].song] \in LocalRow
  BY <1>1 DEF TypeInv, SongsOK
<1>3. PICK row \in LocalRow : WriteSong(w, lane[w][l].song, row)
  BY <1>2 DEF MarkDeleted, LocalRow, LocalStatus
<1>4. Stays(w) /\ worker[w].pc \notin EarlyPc
  BY StaysSame DEF MarkDeleted, AtStage, EarlyPc
<1>5. QED BY <1>1, <1>3, <1>4 DEF Writes, MarkDeleted

\* MarkFailure writes its song's row.
LEMMA EffectMarkFailure ==
  ASSUME TypeInv, NEW w \in Workers, NEW l \in Lanes, MarkFailure(w, l)
  PROVE  Writes(w)
<1>1. lane[w][l].song \in Songs
  BY DEF TypeInv, LanesOK, HasSong, MarkFailure, AtStage
<1>2. song[lane[w][l].song] \in LocalRow
  BY <1>1 DEF TypeInv, SongsOK
<1>3. PICK row \in LocalRow : WriteSong(w, lane[w][l].song, row)
  BY <1>2 DEF MarkFailure, LocalRow, LocalStatus
<1>4. Stays(w) /\ worker[w].pc \notin EarlyPc
  BY StaysSame DEF MarkFailure, AtStage, EarlyPc
<1>5. QED BY <1>1, <1>3, <1>4 DEF Writes, MarkFailure

\* RejectRequest ends the process.
LEMMA EffectRejectRequest ==
  ASSUME TypeInv, NEW w \in Workers, RejectRequest(w)
  PROVE  Quits(w)
  BY LeavesExit DEF Quits, RejectRequest, db

\* RefuseToCreate ends the process.
LEMMA EffectRefuseToCreate ==
  ASSUME TypeInv, NEW w \in Workers, RefuseToCreate(w)
  PROVE  Quits(w)
  BY LeavesExit DEF Quits, RefuseToCreate, db

\* Crash ends the process.
LEMMA EffectCrash ==
  ASSUME TypeInv, NEW w \in Workers, Crash(w)
  PROVE  Quits(w)
  BY LeavesExit DEF Quits, Crash, db

\* StepFails ends the process before it has a run, and interrupts it after.
LEMMA EffectStepFails ==
  ASSUME TypeInv, NEW w \in Workers, StepFails(w)
  PROVE  Works(w) \/ Quits(w)
<1>1. CASE worker[w].pc # "idle" /\ Exit(w)
  BY <1>1, LeavesExit DEF Quits, StepFails, db
<1>2. CASE /\ worker[w].pc \notin EarlyPc /\ worker[w].pc # "interrupt"
           /\ Goto(w, "interrupt") /\ UNCHANGED lock
  BY <1>2, StaysGoto, RunsKept DEF Works, StepFails, db, EarlyPc
<1>3. QED BY <1>1, <1>2 DEF StepFails, EarlyPc

\* finalizeRun's transaction closes the run with its verdict.
LEMMA EffectCommit ==
  ASSUME TypeInv, NEW w \in Workers, FinalizeCommit(w)
  PROVE  LET r == worker[w].run IN
         /\ OnlyOwn(w) /\ ConsumeCatalogChange(r)
         /\ runs'[r].status \in Terminal /\ ~runs'[r].catalogChanged
         /\ worker[w].pc = "committing"
<1> DEFINE r == worker[w].run
           row == [runs[r] EXCEPT !.status = worker[w].verdict,
                                  !.catalogChanged = FALSE, !.error = FALSE]
<1>1. /\ r \in RunIds /\ runs[r] \in Run /\ runs \in [RunIds -> Run]
      /\ worker[w].verdict \in Terminal
  BY DEF TypeInv, WorkersOK, HasRun, EarlyPc, RunsOK, FinalizeCommit, Worker
<1>2. row.status \in Terminal /\ row.catalogChanged = FALSE
  BY <1>1 DEF Run
<1>3. runs' = [runs EXCEPT ![r] = row]
  BY <1>1 DEF FinalizeCommit
<1> HIDE DEF row
<1>4. OnlyOwn(w)
  BY <1>1, <1>3 DEF OnlyOwn, FinalizeCommit, EarlyPc
<1>5. runs'[r].status \in Terminal /\ ~runs'[r].catalogChanged
  BY <1>1, <1>2, <1>3
<1>6. QED BY <1>4, <1>5 DEF FinalizeCommit

\* FinalizeRun closes the run and ends the process.
LEMMA EffectFinalizeRun ==
  ASSUME TypeInv, NEW w \in Workers, FinalizeRun(w)
  PROVE  Closes(w)
<1>1. FinalizeCommit(w)
  BY DEF FinalizeRun
<1>2. Leaves(w)
  BY <1>1, EffectCommit, LeavesExit DEF FinalizeRun
<1>3. QED BY <1>1, <1>2, EffectCommit DEF Closes, FinalizeRun, EarlyPc

\* FinalizeAnswerLost closes the run and goes on.
LEMMA EffectFinalizeAnswerLost ==
  ASSUME TypeInv, NEW w \in Workers, FinalizeAnswerLost(w)
  PROVE  Commits(w)
<1>1. FinalizeCommit(w)
  BY DEF FinalizeAnswerLost
<1>2. Stays(w) /\ worker'[w].pc = "interrupt"
  BY <1>1, EffectCommit, StaysGoto DEF FinalizeAnswerLost, EarlyPc
<1>3. QED BY <1>1, <1>2, EffectCommit DEF Commits, FinalizeAnswerLost, EarlyPc

\* RecordInterruption keeps the run's status, and a finished run as it is.
LEMMA EffectRecordInterruption ==
  ASSUME TypeInv, NEW w \in Workers, RecordInterruption(w)
  PROVE  Closes(w)
<1> DEFINE r == worker[w].run
           row == [runs[r] EXCEPT !.catalogChanged = FALSE,
                                  !.error = @ \/ Interrupts(r)]
<1>1. r \in RunIds /\ runs[r] \in Run /\ runs \in [RunIds -> Run]
  BY DEF TypeInv, WorkersOK, HasRun, EarlyPc, RunsOK, RecordInterruption
<1>2. /\ row.status = runs[r].status
      /\ Done(r) => row = runs[r]
  BY <1>1 DEF Run, Done, Interrupts, Terminal
<1>3. runs' = [runs EXCEPT ![r] = row]
  BY <1>1 DEF RecordInterruption
<1>4. Leaves(w)
  BY LeavesExit DEF RecordInterruption
<1> HIDE DEF row
<1>5. OnlyOwn(w)
  BY <1>1, <1>3 DEF OnlyOwn, RecordInterruption, EarlyPc
<1>6. /\ runs'[r].status = runs[r].status
      /\ Done(r) => runs'[r] = runs[r]
  BY <1>1, <1>2, <1>3
<1>7. QED BY <1>4, <1>5, <1>6 DEF Closes, RecordInterruption, EarlyPc

-----------------------------------------------------------------------------
(***************************************************************************)
(* Starting and choosing a run, and the environment                        *)
(***************************************************************************)

\* A process starts only when the lock is free, so nobody else is running.
LEMMA SafeStart ==
  ASSUME SyncInv, TypeInv', NEW w \in Workers, NEW req \in Requests,
         Start(w, req)
  PROVE  SyncInv'
<1> DEFINE rec == [IdleWorker EXCEPT !.pc = "locked", !.kind = req.kind,
                                     !.mode = req.mode, !.ids = req.ids]
<1>1. rec.pc = "locked"
  BY IdleWorkerOK DEF Worker
<1>2. worker' = [worker EXCEPT ![w] = rec] /\ worker \in [Workers -> Worker]
  BY DEF Start, SyncInv, TypeInv, WorkersOK
<1> HIDE DEF rec
<1>3. \A v \in Workers : worker[v].pc = "idle"
  BY WorkersAssumption DEF Start, LockFree, SyncInv, Holder
<1>4. \A v \in Workers : worker'[v].pc = IF v = w THEN "locked" ELSE "idle"
  BY <1>1, <1>2, <1>3
<1>5. lock' = w /\ UNCHANGED <<song, announced, runs>>
  BY DEF Start, db
<1>6. Holder' /\ Busy' /\ Alone'
  BY <1>4, <1>5 DEF Holder, Busy, Alone, EarlyPc
<1>7. AtMostOneRunning' /\ NoLostInvalidation'
  BY <1>5 DEF SyncInv, AtMostOneRunning, NoLostInvalidation, Running
<1>8. QED BY <1>6, <1>7 DEF SyncInv

\* Every other process is idle when w has started, and stays so.
LEMMA SafeChoice ==
  ASSUME SyncInv, NEW w \in Workers, NEW pc, worker[w].pc = "locked" \/
         worker[w].pc = "creating", Others(w), lock' = lock,
         worker'[w].pc = pc, pc # "idle"
  PROVE  /\ Holder'
         /\ \A v \in Workers : worker'[v].pc = IF v = w THEN pc ELSE "idle"
<1>1. \A v \in Workers \ {w} : worker[v].pc = "idle"
  BY HolderExcludes DEF SyncInv
<1>2. \A v \in Workers : worker'[v].pc = IF v = w THEN pc ELSE "idle"
  BY <1>1 DEF Others
<1>3. lock = w
  BY DEF SyncInv, Holder
<1>4. QED BY <1>2, <1>3 DEF Holder

\* Resuming takes the RUNNING run and keeps its flag.
LEMMA SafeResumeRun ==
  ASSUME SyncInv, TypeInv', NEW w \in Workers, NEW r \in RunIds,
         ResumeRun(w, r)
  PROVE  SyncInv'
<1> DEFINE mem == [worker[w] EXCEPT !.pc = "chosen", !.run = r]
           row == [runs[r] EXCEPT !.error = FALSE]
<1>1. worker[w] \in Worker /\ worker \in [Workers -> Worker]
  BY DEF SyncInv, TypeInv, WorkersOK
<1>2. runs[r] \in Run /\ runs \in [RunIds -> Run]
  BY DEF SyncInv, TypeInv, RunsOK
<1>3. mem.pc = "chosen" /\ mem.run = r
  BY <1>1 DEF Worker
<1>4. /\ row.status = runs[r].status
      /\ row.catalogChanged = runs[r].catalogChanged
  BY <1>2 DEF Run
<1>5. worker' = [worker EXCEPT ![w] = mem] /\ runs' = [runs EXCEPT ![r] = row]
  BY DEF ResumeRun
<1> HIDE DEF mem, row
<1>6. KeepsRuns
  BY <1>2, <1>4, <1>5 DEF KeepsRuns
<1>7. Running' = Running /\ Running = {r}
  BY <1>6 DEF KeepsRuns, Running, ResumeRun
<1>8. /\ Holder'
      /\ \A v \in Workers : worker'[v].pc = IF v = w THEN "chosen" ELSE "idle"
  BY <1>1, <1>3, <1>5, SafeChoice DEF ResumeRun, Others
<1>9. Busy'
  <2>1. worker'[w].run = r
    BY <1>1, <1>3, <1>5
  <2>2. runs'[r].status = "RUNNING"
    BY <1>7 DEF Running
  <2>3. QED BY <1>8, <2>1, <2>2 DEF Busy, EarlyPc
<1>10. Alone'
  BY <1>8 DEF Alone
<1>11. AtMostOneRunning'
  BY <1>7 DEF AtMostOneRunning
<1>12. NoLostInvalidation'
  <2>1. UNCHANGED <<song, announced>>
    BY DEF ResumeRun, catalog
  <2>2. QED BY <1>6, <1>7, <2>1 DEF SyncInv, NoLostInvalidation, KeepsRuns,
                                    Running
<1>13. QED BY <1>8, <1>9, <1>10, <1>11, <1>12 DEF SyncInv

\* Creating a run: none is RUNNING, so the new one is the only one, and no
\* change waits for a bump.
LEMMA SafeCreateRun ==
  ASSUME SyncInv, TypeInv', NEW w \in Workers, NEW r \in RunIds,
         CreateRun(w, r)
  PROVE  SyncInv'
<1> DEFINE mem == [worker[w] EXCEPT !.pc = "chosen", !.run = r]
           row == NewRun(worker[w].mode, worker[w].ids)
<1>1. worker[w] \in Worker /\ worker \in [Workers -> Worker]
  BY DEF SyncInv, TypeInv, WorkersOK
<1>2. runs \in [RunIds -> Run]
  BY DEF SyncInv, TypeInv, RunsOK
<1>3. mem.pc = "chosen" /\ mem.run = r
  BY <1>1 DEF Worker
<1>4. row.status = "RUNNING"
  BY DEF NewRun
<1>5. worker' = [worker EXCEPT ![w] = mem] /\ runs' = [runs EXCEPT ![r] = row]
  BY DEF CreateRun
<1> HIDE DEF mem, row
<1>6. Running = {}
  BY DEF CreateRun, SyncInv, Alone
<1>7. Running' = {r}
  BY <1>2, <1>4, <1>5, <1>6 DEF Running
<1>8. /\ Holder'
      /\ \A v \in Workers : worker'[v].pc = IF v = w THEN "chosen" ELSE "idle"
  BY <1>1, <1>3, <1>5, SafeChoice DEF CreateRun, Others
<1>9. Busy'
  <2>1. worker'[w].run = r
    BY <1>1, <1>3, <1>5
  <2>2. runs'[r].status = "RUNNING"
    BY <1>7 DEF Running
  <2>3. QED BY <1>8, <2>1, <2>2 DEF Busy, EarlyPc
<1>10. Alone'
  BY <1>8 DEF Alone
<1>11. AtMostOneRunning'
  BY <1>7 DEF AtMostOneRunning
<1>12. NoLostInvalidation'
  <2>1. UNCHANGED <<song, announced>>
    BY DEF CreateRun, catalog
  <2>2. QED BY <1>6, <2>1 DEF SyncInv, NoLostInvalidation
<1>13. QED BY <1>8, <1>9, <1>10, <1>11, <1>12 DEF SyncInv

\* The look at the RUNNING runs stays true until the run is created.
LEMMA SafeDecideToCreate ==
  ASSUME SyncInv, TypeInv', NEW w \in Workers, DecideToCreate(w)
  PROVE  SyncInv'
<1> DEFINE mem == [worker[w] EXCEPT !.pc = "creating"]
<1>1. worker[w] \in Worker /\ worker \in [Workers -> Worker]
  BY DEF SyncInv, TypeInv, WorkersOK
<1>2. mem.pc = "creating"
  BY <1>1 DEF Worker
<1>3. worker' = [worker EXCEPT ![w] = mem]
  BY DEF DecideToCreate, Goto
<1> HIDE DEF mem
<1>4. /\ Holder'
      /\ \A v \in Workers :
           worker'[v].pc = IF v = w THEN "creating" ELSE "idle"
  BY <1>1, <1>2, <1>3, SafeChoice DEF DecideToCreate, Others
<1>5. Running' = Running /\ Running = {} /\ UNCHANGED <<song, announced, runs>>
  BY DEF DecideToCreate, Running, db
<1>6. Busy'
  BY <1>4 DEF Busy, EarlyPc
<1>7. Alone' /\ AtMostOneRunning' /\ NoLostInvalidation'
  BY <1>5 DEF SyncInv, Alone, AtMostOneRunning, NoLostInvalidation
<1>8. QED BY <1>4, <1>6, <1>7 DEF SyncInv

\* The environment, and a stutter, touch nothing the invariant speaks of.
LEMMA SafeElsewhere ==
  ASSUME SyncInv, TypeInv',
         UNCHANGED <<song, announced, runs, lock, worker>>
  PROVE  SyncInv'
  BY DEF SyncInv, Holder, Busy, Done, Alone, AtMostOneRunning,
         NoLostInvalidation, Running

-----------------------------------------------------------------------------
(***************************************************************************)
(* The invariant and the theorems                                          *)
(***************************************************************************)

\* Nothing has started and nothing has been synchronized.
LEMMA SafeInit == Init => SyncInv
<1> SUFFICES ASSUME Init PROVE SyncInv
  OBVIOUS
<1>1. \A w \in Workers : worker[w].pc = "idle"
  BY IdleWorkerOK DEF Init
<1>2. Running = {}
  BY DEF Init, Running, FreeRun
<1>3. \A s \in Songs : Projection(song[s]) = announced[s]
  BY DEF Init
<1>4. Holder /\ Busy /\ Alone
  BY <1>1 DEF Holder, Busy, Alone, EarlyPc
<1>5. AtMostOneRunning /\ NoLostInvalidation
  BY <1>2, <1>3 DEF AtMostOneRunning, NoLostInvalidation
<1>6. QED BY <1>4, <1>5, TypeInit DEF SyncInv

\* Every action of a worker is one of the choices above or has an effect.
LEMMA WorkerEffects ==
  ASSUME TypeInv, NEW w \in Workers,
         \/ WorkerStep(w)
         \/ \E l \in Lanes : LaneStep(w, l)
         \/ FaultStep(w)
  PROVE  \/ Works(w) \/ Writes(w) \/ Quits(w) \/ Closes(w) \/ Commits(w)
         \/ \E r \in RunIds : ResumeRun(w, r) \/ CreateRun(w, r)
         \/ DecideToCreate(w)
<1>1. CASE WorkerStep(w)
  BY <1>1, EffectRejectRequest, EffectRefuseToCreate, EffectDiscover,
     EffectPersistManifest, EffectSkipDiscovery, EffectListPending,
     EffectSettleLanes, EffectCountItems, EffectFinalizeRun,
     EffectWindowSaturates, EffectCheckpointConflict, EffectObserveSignal,
     EffectRecordInterruption
  DEF WorkerStep
<1>2. CASE \E l \in Lanes : LaneStep(w, l)
  BY <1>2, EffectTakeItem, EffectLaneCancelled, EffectFetchSong,
     EffectFetchNotFound, EffectSyncSong, EffectFinishItem, EffectMarkDeleted,
     EffectMarkFailure, EffectSettleMarkedItem
  DEF LaneStep
<1>3. CASE FaultStep(w)
  BY <1>3, EffectItemError, EffectMarkFails, EffectBeginFails, EffectStepFails,
     EffectFinalizeAnswerLost, EffectCrash, EffectSignal
  DEF FaultStep
<1>4. QED BY <1>1, <1>2, <1>3

\* Every step keeps the invariant while no session loses the lock unnoticed.
LEMMA SafeNext ==
  ASSUME LockMayDrop = FALSE
  PROVE  SyncInv /\ [Next]_vars => SyncInv'
<1> SUFFICES ASSUME SyncInv, [Next]_vars PROVE SyncInv'
  OBVIOUS
<1>1. TypeInv'
  BY TypeNext DEF SyncInv
<1>2. CASE \/ Tick \/ Burst
           \/ \E s \in Songs, status \in SourceStatus :
                SourceChange(s, status)
  BY <1>1, <1>2, SafeElsewhere DEF Tick, Burst, SourceChange, db, memory
<1>3. CASE DropLock
  BY <1>3 DEF DropLock
<1>4. ASSUME NEW w \in Workers, NEW req \in Requests, Start(w, req)
      PROVE  SyncInv'
  BY <1>1, <1>4, SafeStart
<1>5. ASSUME NEW w \in Workers,
             \/ WorkerStep(w)
             \/ \E l \in Lanes : LaneStep(w, l)
             \/ FaultStep(w)
      PROVE  SyncInv'
  BY <1>1, <1>5, WorkerEffects, SafeWorks, SafeWrites, SafeQuits, SafeCloses,
     SafeCommits, SafeResumeRun, SafeCreateRun, SafeDecideToCreate
  DEF SyncInv
<1>6. CASE UNCHANGED vars
  BY <1>1, <1>6, SafeElsewhere DEF vars
<1>7. QED BY <1>2, <1>3, <1>4, <1>5, <1>6 DEF Next

\* The inductive invariant holds in every reachable state.
THEOREM SyncInvariant ==
  ASSUME LockMayDrop = FALSE
  PROVE  Spec => []SyncInv
  BY SafeInit, SafeNext, PTL DEF Spec

\* For any number of workers, songs, lanes and runs: the advisory lock makes
\* "find the RUNNING runs, then create one" atomic, so no two runs are RUNNING.
THEOREM OneRunning ==
  ASSUME LockMayDrop = FALSE
  PROVE  Spec => []AtMostOneRunning
<1>1. SyncInv => AtMostOneRunning
  BY DEF SyncInv
<1>2. QED BY <1>1, SyncInvariant, PTL

\* For any number of songs, lanes, faults and restarts: a committed change of
\* the catalog that no version bump has announced is flagged on a RUNNING run,
\* which its finalization or interruption will announce.
THEOREM NothingForgotten ==
  ASSUME LockMayDrop = FALSE
  PROVE  Spec => []NoLostInvalidation
<1>1. SyncInv => NoLostInvalidation
  BY DEF SyncInv
<1>2. QED BY <1>1, SyncInvariant, PTL

\* A step writes only to a run that is RUNNING or not created yet.
LEMMA FrozenStep ==
  ASSUME LockMayDrop = FALSE, SyncInv, [Next]_vars
  PROVE  \A r \in RunIds : runs[r].status \in Terminal => runs'[r] = runs[r]
<1>1. ASSUME NEW w \in Workers, OnlyOwn(w), Stays(w) \/ Closes(w),
             NEW r \in RunIds, runs[r].status \in Terminal
      PROVE  runs'[r] = runs[r]
  BY <1>1 DEF SyncInv, Busy, OnlyOwn, Stays, Closes, Terminal
<1>2. ASSUME NEW w \in Workers, Writes(w)
      PROVE  OnlyOwn(w) /\ Stays(w)
  <2>1. PICK s \in Songs, row \in LocalRow : WriteSong(w, s, row)
    BY <1>2 DEF Writes
  <2>2. runs \in [RunIds -> Run]
    BY DEF SyncInv, TypeInv, RunsOK
  <2>3. QED BY <1>2, <2>1, <2>2 DEF WriteSong, OnlyOwn, Writes
<1>3. ASSUME NEW w \in Workers, NEW q \in RunIds,
             ResumeRun(w, q) \/ CreateRun(w, q),
             NEW r \in RunIds, runs[r].status \in Terminal
      PROVE  runs'[r] = runs[r]
  <2>1. runs[q].status \in {"RUNNING", "FREE"}
    BY <1>3 DEF ResumeRun, CreateRun, Running, Free
  <2>2. r # q
    BY <1>3, <2>1 DEF Terminal
  <2>3. QED BY <1>3, <2>2 DEF ResumeRun, CreateRun, SyncInv, TypeInv, RunsOK
<1>4. CASE UNCHANGED runs
  BY <1>4
<1>5. ASSUME NEW w \in Workers,
             \/ WorkerStep(w)
             \/ \E l \in Lanes : LaneStep(w, l)
             \/ FaultStep(w)
      PROVE  \A r \in RunIds :
               runs[r].status \in Terminal => runs'[r] = runs[r]
  <2>1. CASE Works(w) \/ Writes(w) \/ Closes(w) \/ Commits(w)
    BY <1>1, <1>2, <2>1 DEF Works, Closes, Commits
  <2>2. CASE Quits(w) \/ DecideToCreate(w)
    BY <2>2 DEF Quits, DecideToCreate, db
  <2>3. CASE \E r \in RunIds : ResumeRun(w, r) \/ CreateRun(w, r)
    BY <1>3, <2>3
  <2>4. QED BY <1>5, <2>1, <2>2, <2>3, WorkerEffects DEF SyncInv
<1>6. QED BY <1>4, <1>5 DEF Next, Tick, Burst, SourceChange, DropLock,
                                         Start, db, vars

\* For any number of workers, a SUCCEEDED, PARTIAL or FAILED run, with its
\* items, is never written to again.
THEOREM Frozen ==
  ASSUME LockMayDrop = FALSE
  PROVE  Spec => TerminalRunsFrozen
<1>1. SyncInv /\ [Next]_vars =>
        [\A r \in RunIds :
           runs[r].status \in Terminal => runs'[r] = runs[r]]_vars
  BY FrozenStep
<1>2. QED BY <1>1, SyncInvariant, PTL DEF Spec, TerminalRunsFrozen
=============================================================================
