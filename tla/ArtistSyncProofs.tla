--------------------------- MODULE ArtistSyncProofs ---------------------------
(***************************************************************************)
(* What artist runs, their items and their heartbeats tell, for every set  *)
(* of artists and lanes, every concurrency and every bound.                *)
(*                                                                         *)
(* The invariant has four layers, each proved from those before it: the    *)
(* types; who holds the lock and has the run; the ages of heartbeats; the  *)
(* items of the run and the versions the rows have reached.                *)
(***************************************************************************)
EXTENDS ArtistSync, FiniteSetTheorems, TLAPS

-----------------------------------------------------------------------------
\* The steps of VocaDB, of time and of the song worker.
SongSide ==
  \/ StartSongs \/ EndSongs
  \/ \E a \in Artists :
       \/ Age(a)
       \/ \E status \in {"live", "deleted", "gone"} : SourceChange(a, status)
       \/ \E l \in SongLanes : FetchSummary(l, a) \/ WriteSummary(l, a)

\* The steps of the artist worker but for the items.
RunSide ==
  \/ \E kind \in Kinds, ids \in SUBSET Artists : Start(kind, ids)
  \/ Resume \/ Create \/ Reject \/ FirstBeat \/ TimerBeat \/ Tick
  \/ Discover \/ PersistManifest \/ ListPending
  \/ Drain \/ FinalizeRun \/ Interrupt \/ RecordInterruption
  \/ Signal \/ Crash

\* The steps of an item.
ItemSide(a) == ItemStep(a) \/ ItemError(a) \/ CatchFails(a)

\* There are no others.
LEMMA NextSides ==
  ASSUME [Next]_vars
  PROVE  SongSide \/ RunSide \/ (\E a \in Artists : ItemSide(a)) \/ UNCHANGED vars
<1>1. Kinds \ {"IDS"} \subseteq Kinds /\ "IDS" \in Kinds /\ {} \in SUBSET Artists
  BY DEF Kinds
<1>2. WorkerStep => RunSide \/ \E a \in Artists : ItemSide(a)
  BY DEF WorkerStep, RunSide, ItemSide
<1>3. QED BY <1>1, <1>2 DEF Next, SongSide, RunSide, ItemSide

-----------------------------------------------------------------------------
(***************************************************************************)
(* Types                                                                   *)
(***************************************************************************)
\* The constants.
LEMMA Constants ==
  /\ BeatStaleAfter \in Nat \ {0} /\ MaxChanges \in Nat /\ MaxFaults \in Nat
  /\ Never \in Int /\ Never = 0 - 1
  BY StatusAssumption, ArtistAssumption DEF Never

\* The values the actions write are of their types.
LEMMA Written ==
  /\ Nothing \in Summary /\ NoRow \in Row /\ NoWorker \in Worker
  /\ NoItem \in Item /\ NoItems \in [Artists -> Item]
  /\ NoSummary \in [artist : SUBSET Artists, summary : Summary]
  /\ \A source \in Source : SummaryOf(source) \in Summary
  /\ Verdict \in {"SUCCEEDED", "PARTIAL", "FAILED"}
<1>1. Nothing \in Summary
  BY DEF Nothing, Summary
<1>2. NoRow \in Row
  BY <1>1 DEF NoRow, Row, Ages
<1>3. NoWorker \in Worker
  BY DEF NoWorker, Worker, Kinds
<1>4. NoItem \in Item /\ NoItems \in [Artists -> Item]
  BY <1>1 DEF NoItem, Item, NoItems
<1>5. NoSummary \in [artist : SUBSET Artists, summary : Summary]
  BY <1>1 DEF NoSummary
<1>6. \A source \in Source : SummaryOf(source) \in Summary
  <2>1. ASSUME NEW source \in Source
        PROVE  SummaryOf(source) \in Summary
    <3>1. source.ver \in Nat /\ (source.status = "deleted") \in BOOLEAN
      BY DEF Source
    <3>2. QED BY <3>1 DEF SummaryOf, Summary
  <2>2. QED BY <2>1
<1>7. Verdict \in {"SUCCEEDED", "PARTIAL", "FAILED"}
  BY DEF Verdict
<1>8. QED BY <1>1, <1>2, <1>3, <1>4, <1>5, <1>6, <1>7

\* One more fault, a heartbeat, one more tick.
LEMMA Counted ==
  ASSUME TypeOK
  PROVE  /\ Fault => faults' \in 0..MaxFaults
         /\ faults' = faults => faults' \in 0..MaxFaults
         /\ WriteBeat => /\ beat' \in {Never} \cup 0..BeatStaleAfter
                         /\ faults' \in 0..MaxFaults
         /\ Older(beat) \in {Never} \cup 0..BeatStaleAfter
         /\ Older(orphaned) \in 0..BeatStaleAfter
<1>1. /\ faults \in 0..MaxFaults /\ beat \in {Never} \cup 0..BeatStaleAfter
      /\ orphaned \in 0..BeatStaleAfter
  BY DEF TypeOK
<1>2. Fault => faults' \in 0..MaxFaults
  BY <1>1, Constants DEF Fault
<1>3. WriteBeat => beat' \in {Never} \cup 0..BeatStaleAfter /\ faults' \in 0..MaxFaults
  BY <1>1, <1>2, Constants DEF WriteBeat
<1>4. Older(beat) \in {Never} \cup 0..BeatStaleAfter
  BY <1>1, Constants DEF Older
<1>5. Older(orphaned) \in 0..BeatStaleAfter
  BY <1>1, Constants DEF Older
<1>6. QED BY <1>1, <1>2, <1>3, <1>4, <1>5

\* The passing of the refresh interval changes one row's times.
LEMMA AgeEffect ==
  ASSUME TypeOK, NEW a \in Artists, Age(a)
  PROVE  /\ row' \in [Artists -> Row] /\ row[a] # NoRow
         /\ \A b \in Artists :
              /\ row'[b].status = row[b].status /\ row'[b].detail = row[b].detail
              /\ row'[b].summary = row[b].summary
              /\ row'[b].sumAfter = row[b].sumAfter
              /\ b # a => row'[b] = row[b]
<1>1. row \in [Artists -> Row] /\ row[a] \in Row
  BY DEF TypeOK
<1>2. PICK r : /\ row' = [row EXCEPT ![a] = r]
               /\ \/ r = [row[a] EXCEPT !.synced = "old", !.attempted = "old"]
                  \/ r = [row[a] EXCEPT !.synced = "old"]
                  \/ r = [row[a] EXCEPT !.attempted = "old"]
  <2>1. \/ row' = [row EXCEPT ![a] = [row[a] EXCEPT !.synced = "old", !.attempted = "old"]]
        \/ row' = [row EXCEPT ![a] = [row[a] EXCEPT !.synced = "old"]]
        \/ row' = [row EXCEPT ![a] = [row[a] EXCEPT !.attempted = "old"]]
    BY <1>1 DEF Age
  <2>2. QED BY <2>1
<1>3. /\ r \in Row /\ r.status = row[a].status /\ r.detail = row[a].detail
      /\ r.summary = row[a].summary /\ r.sumAfter = row[a].sumAfter
  BY <1>1, <1>2 DEF Row, Ages
<1>4. row[a] # NoRow
  BY DEF Age, NoRow
<1>5. QED BY <1>1, <1>2, <1>3, <1>4

\* Upstream and the song worker.
LEMMA SongTypes ==
  ASSUME TypeOK, SongSide
  PROVE  TypeOK'
<1>1. ASSUME NEW a \in Artists, NEW status \in {"live", "deleted", "gone"},
             SourceChange(a, status)
      PROVE  TypeOK'
  <2>1. upstream' \in [Artists -> Source]
    BY <1>1 DEF SourceChange, TypeOK, Source
  <2>2. QED BY <1>1, <2>1 DEF SourceChange, TypeOK, runVars
<1>2. ASSUME NEW a \in Artists, Age(a)
      PROVE  TypeOK'
  <2>1. row' \in [Artists -> Row]
    BY <1>2, AgeEffect
  <2>2. QED BY <1>2, <2>1 DEF Age, TypeOK, runVars, songVars
<1>3. CASE StartSongs
  BY <1>3 DEF StartSongs, TypeOK, runVars, songVars
<1>4. CASE EndSongs
  <2>1. carried' \in [SongLanes -> [artist : SUBSET Artists, summary : Summary]]
    BY <1>4, Written DEF EndSongs
  <2>2. QED BY <1>4, <2>1 DEF EndSongs, TypeOK, runVars
<1>5. ASSUME NEW a \in Artists, NEW l \in SongLanes, FetchSummary(l, a)
      PROVE  TypeOK'
  <2>1. SummaryOf(upstream[a]) \in Summary
    BY Written DEF TypeOK
  <2>2. carried' \in [SongLanes -> [artist : SUBSET Artists, summary : Summary]]
    BY <1>5, <2>1 DEF FetchSummary, TypeOK
  <2>3. QED BY <1>5, <2>2 DEF FetchSummary, TypeOK, runVars
<1>6. ASSUME NEW a \in Artists, NEW l \in SongLanes, WriteSummary(l, a)
      PROVE  TypeOK'
  <2>1. PICK summary \in Summary : summary = carried[l].summary
    BY DEF TypeOK
  <2>2. carried' \in [SongLanes -> [artist : SUBSET Artists, summary : Summary]]
    BY <1>6, Written DEF WriteSummary, TypeOK
  <2>3. /\ [NoRow EXCEPT
             !.status = IF summary.deleted THEN "SOURCE_DELETED" ELSE "SYNCED",
             !.detail = summary, !.summary = summary, !.sumAfter = TRUE] \in Row
        /\ [row[a] EXCEPT !.summary = summary, !.sumAfter = TRUE] \in Row
    BY <2>1, Written DEF TypeOK, Row
  <2>4. row' \in [Artists -> Row]
    BY <1>6, <2>1, <2>3 DEF WriteSummary, TypeOK
  <2>5. QED BY <1>6, <2>2, <2>4 DEF WriteSummary, TypeOK, runVars
<1>7. QED BY <1>1, <1>2, <1>3, <1>4, <1>5, <1>6 DEF SongSide

\* The worker, its run and its heartbeats.
LEMMA WorkerTypes ==
  ASSUME TypeOK, RunSide
  PROVE  TypeOK'
<1>1. /\ worker \in Worker /\ item \in [Artists -> Item] /\ run \in Run
      /\ row \in [Artists -> Row]
  BY DEF TypeOK
<1>2. CASE \E kind \in Kinds, ids \in SUBSET Artists : Start(kind, ids)
  <2>1. worker' \in Worker
    BY <1>2, Written DEF Start, Worker
  <2>2. QED BY <1>2, <2>1 DEF Start, TypeOK, songVars, runVars
<1>3. CASE Resume
  <2>1. worker' \in Worker
    BY <1>3, Written DEF Resume, TakeRun, Worker
  <2>2. orphaned' \in 0..BeatStaleAfter
    BY <1>3, Constants DEF Resume
  <2>3. QED BY <1>3, <2>1, <2>2 DEF Resume, TypeOK, songVars
<1>4. CASE Create
  <2>1. worker' \in Worker
    BY <1>4, Written DEF Create, TakeRun, Worker
  <2>2. run' \in Run
    BY <1>4 DEF Create, Run
  <2>3. QED BY <1>4, <2>1, <2>2 DEF Create, TypeOK, songVars
<1>5. CASE Reject
  BY <1>5, Written DEF Reject, Exit, TypeOK, songVars, runVars
<1>6. CASE FirstBeat
  <2>1. WriteBeat
    BY <1>6 DEF FirstBeat, InitialBeat
  <2>2. (faults' # faults) \in BOOLEAN
    OBVIOUS
  <2>3. worker' \in Worker
    BY <1>1, <1>6, <2>2 DEF FirstBeat, Worker
  <2>4. QED BY <1>6, <2>1, <2>3, Counted DEF FirstBeat, TypeOK, songVars
<1>7. CASE TimerBeat
  <2>1. WriteBeat
    BY <1>7 DEF TimerBeat
  <2>2. (worker.beatLost \/ faults' # faults) \in BOOLEAN
    OBVIOUS
  <2>3. worker' \in Worker
    BY <1>1, <1>7, <2>2 DEF TimerBeat, Worker
  <2>4. QED BY <1>7, <2>1, <2>3, Counted DEF TimerBeat, TypeOK, songVars
<1>8. CASE Tick
  <2>1. Beating \in BOOLEAN
    BY DEF Beating
  <2>2. worker' \in Worker
    BY <1>1, <1>8, <2>1 DEF Tick, Worker
  <2>3. beat' \in {Never} \cup 0..BeatStaleAfter /\ orphaned' \in 0..BeatStaleAfter
    BY <1>8, Counted, Constants DEF Tick
  <2>4. QED BY <1>8, <2>2, <2>3 DEF Tick, TypeOK, songVars
<1>9. CASE Drain
  <2>1. worker' \in Worker
    BY <1>1, <1>9 DEF Drain, Worker
  <2>2. QED BY <1>9, <2>1 DEF Drain, TypeOK, songVars, runVars
<1>10. CASE FinalizeRun
  <2>1. run' \in Run /\ terminal' \in {"NONE", "SUCCEEDED", "PARTIAL", "FAILED"}
    BY <1>1, <1>10, Written DEF FinalizeRun, Run
  <2>2. QED BY <1>10, <2>1, Written DEF FinalizeRun, Exit, TypeOK, songVars
<1>11. CASE Interrupt
  <2>1. worker' \in Worker
    BY <1>1, <1>11 DEF Interrupt, Worker
  <2>2. faults' \in 0..MaxFaults
    BY <1>11, Counted DEF Interrupt
  <2>3. QED BY <1>11, <2>1, <2>2 DEF Interrupt, TypeOK, songVars, runVars
<1>12. CASE RecordInterruption
  BY <1>12, Written DEF RecordInterruption, Exit, TypeOK, songVars, runVars
<1>13. CASE Signal
  <2>1. worker' \in Worker
    BY <1>1, <1>13 DEF Signal, Worker
  <2>2. QED BY <1>13, <2>1, Counted DEF Signal, TypeOK, songVars, runVars
<1>14. CASE Crash
  BY <1>14, Written, Counted DEF Crash, Exit, TypeOK, songVars, runVars
<1>15. CASE Discover
  <2>1. worker' \in Worker
    BY <1>1, <1>15 DEF Discover, Worker
  <2>2. QED BY <1>15, <2>1 DEF Discover, TypeOK, songVars, runVars
<1>16. CASE PersistManifest
  <2>1. worker' \in Worker
    BY <1>1, <1>16 DEF PersistManifest, Worker
  <2>2. /\ [b \in Artists |-> IF b \in worker.found THEN "PENDING" ELSE "NONE"]
             \in [Artists -> {"NONE", "PENDING", "SYNCED", "FAILED", "SOURCE_DELETED"}]
        /\ [b \in Artists |-> row[b].summary.ver] \in [Artists -> Nat]
    BY <1>1 DEF Row, Summary
  <2>3. run' \in Run
    BY <1>1, <1>16, <2>2 DEF PersistManifest, Run
  <2>4. QED BY <1>16, <2>1, <2>3 DEF PersistManifest, TypeOK, songVars
<1>17. CASE ListPending
  <2>1. worker' \in Worker
    BY <1>1, <1>17 DEF ListPending, Worker
  <2>2. QED BY <1>17, <2>1 DEF ListPending, TypeOK, songVars, runVars
<1>18. QED BY <1>2, <1>3, <1>4, <1>5, <1>6, <1>7, <1>8, <1>9, <1>10, <1>11,
              <1>12, <1>13, <1>14, <1>15, <1>16, <1>17 DEF RunSide

\* A detail is stored in its row, a failure is noted there.
LEMMA StoreEffect ==
  ASSUME TypeOK, NEW a \in Artists, StoreDetail(a)
  PROVE  /\ row' \in [Artists -> Row]
         /\ row'[a].status = IF item[a].detail.deleted THEN "SOURCE_DELETED"
                             ELSE "SYNCED"
         /\ row'[a].detail = item[a].detail /\ row'[a].summary = row[a].summary
         /\ row'[a].sumAfter = FALSE
         /\ \A b \in Artists : b # a => row'[b] = row[b]
<1>1. row \in [Artists -> Row] /\ row[a] \in Row /\ item[a] \in Item
  BY DEF TypeOK
<1>2. PICK d \in Summary : d = item[a].detail
  BY <1>1 DEF Item
<1> DEFINE r == [row[a] EXCEPT
                   !.status = IF d.deleted THEN "SOURCE_DELETED" ELSE "SYNCED",
                   !.detail = d, !.sumAfter = FALSE,
                   !.synced = "fresh", !.attempted = "fresh"]
<1>3. row' = [row EXCEPT ![a] = r]
  BY <1>2 DEF StoreDetail
<1>4. /\ r \in Row /\ r.detail = d /\ r.summary = row[a].summary
      /\ r.status = IF d.deleted THEN "SOURCE_DELETED" ELSE "SYNCED"
      /\ r.sumAfter = FALSE
  BY <1>1, <1>2 DEF Row, Ages
<1> HIDE DEF r
<1>5. QED BY <1>1, <1>2, <1>3, <1>4

LEMMA MarkEffect ==
  ASSUME TypeOK, NEW a \in Artists, MarkFailure(a)
  PROVE  /\ row' \in [Artists -> Row]
         /\ row'[a].status \in {"FAILED", "SOURCE_MISSING"}
         /\ row'[a].detail = row[a].detail /\ row'[a].summary = row[a].summary
         /\ row'[a].sumAfter = row[a].sumAfter
         /\ \A b \in Artists : b # a => row'[b] = row[b]
<1>1. row \in [Artists -> Row] /\ row[a] \in Row
  BY DEF TypeOK
<1>2. PICK r : r = Marked(row[a], item[a].stage)
  OBVIOUS
<1>3. row' = [row EXCEPT ![a] = r]
  BY <1>2 DEF MarkFailure
<1>4. /\ r \in Row /\ r.status \in {"FAILED", "SOURCE_MISSING"}
      /\ r.detail = row[a].detail /\ r.summary = row[a].summary
      /\ r.sumAfter = row[a].sumAfter
  BY <1>1, <1>2 DEF Marked, Row, Ages
<1>5. QED BY <1>1, <1>3, <1>4

\* The items.
LEMMA ItemTypes ==
  ASSUME TypeOK, NEW a \in Artists, ItemSide(a)
  PROVE  TypeOK'
<1>1. /\ worker \in Worker /\ item \in [Artists -> Item] /\ run \in Run
      /\ row \in [Artists -> Row] /\ upstream \in [Artists -> Source]
  BY DEF TypeOK
<1>2. \A stage \in {"begun", "missing", "stored", "marked"} :
        SetStage(a, stage) => item' \in [Artists -> Item]
  BY <1>1 DEF SetStage, Item
<1>3. StopLanes(a) => worker' \in Worker /\ item' \in [Artists -> Item]
  <2>1. SUFFICES ASSUME StopLanes(a)
                 PROVE  worker' \in Worker /\ item' \in [Artists -> Item]
    OBVIOUS
  <2>2. worker' \in Worker
    BY <1>1, <2>1 DEF StopLanes, Worker
  <2>3. item' \in [Artists -> Item]
    BY <1>1, <2>1, Written DEF StopLanes
  <2>4. QED BY <2>2, <2>3
<1>7. CASE TakeItem(a)
  <2>1. worker' \in Worker
    BY <1>1, <1>7 DEF TakeItem, Worker
  <2>2. item' \in [Artists -> Item] /\ faults' \in 0..MaxFaults
    BY <1>1, <1>2, <1>7, Counted DEF TakeItem
  <2>3. QED BY <1>7, <2>1, <2>2 DEF TakeItem, TypeOK, songVars, runVars
<1>8. CASE Fetch(a)
  <2>1. SummaryOf(upstream[a]) \in Summary
    BY <1>1, Written
  <2>2. item' \in [Artists -> Item]
    BY <1>1, <1>2, <1>8, <2>1 DEF Fetch, Item
  <2>3. QED BY <1>8, <2>2 DEF Fetch, TypeOK, songVars, runVars
<1>9. CASE CancelItem(a)
  BY <1>3, <1>9 DEF CancelItem, TypeOK, songVars, runVars
<1>10. CASE StoreDetail(a)
  <2>1. item[a].detail \in Summary
    BY <1>1 DEF Item
  <2>2. row' \in [Artists -> Row]
    BY <1>10, StoreEffect
  <2>3. item' \in [Artists -> Item]
    BY <1>2, <1>10 DEF StoreDetail
  <2>4. QED BY <1>10, <2>2, <2>3 DEF StoreDetail, TypeOK, songVars, runVars
<1>11. CASE FinishItem(a)
  <2>1. run' \in Run /\ item' \in [Artists -> Item]
    BY <1>1, <1>11, Written DEF FinishItem, Run
  <2>2. QED BY <1>11, <2>1 DEF FinishItem, TypeOK, songVars
<1>12. CASE MarkFailure(a)
  <2>1. row' \in [Artists -> Row]
    BY <1>12, MarkEffect
  <2>2. item' \in [Artists -> Item]
    BY <1>2, <1>12 DEF MarkFailure
  <2>3. QED BY <1>12, <2>1, <2>2 DEF MarkFailure, TypeOK, songVars, runVars
<1>13. CASE FailItem(a)
  <2>1. run' \in Run /\ item' \in [Artists -> Item]
    BY <1>1, <1>13, Written DEF FailItem, Run
  <2>2. QED BY <1>13, <2>1 DEF FailItem, TypeOK, songVars
<1>14. CASE ItemError(a)
  <2>1. [NoItem EXCEPT !.stage = "failing"] \in Item
    BY Written DEF Item
  <2>2. item' \in [Artists -> Item] /\ worker' \in Worker
    BY <1>1, <1>3, <1>14, <2>1 DEF ItemError
  <2>3. QED BY <1>14, <2>2, Counted DEF ItemError, TypeOK, songVars, runVars
<1>15. CASE CatchFails(a)
  BY <1>3, <1>15, Counted DEF CatchFails, TypeOK, songVars, runVars
<1>16. QED BY <1>7, <1>8, <1>9, <1>10, <1>11, <1>12, <1>13, <1>14, <1>15
           DEF ItemSide, ItemStep

\* At the start.
LEMMA InitTypes == Init => TypeOK
<1> SUFFICES ASSUME Init
             PROVE  TypeOK
  OBVIOUS
<1>1. upstream \in [Artists -> Source] /\ row \in [Artists -> Row]
  BY Written DEF Init, Source
<1>2. carried \in [SongLanes -> [artist : SUBSET Artists, summary : Summary]]
  BY Written DEF Init
<1>3. run \in Run
  BY DEF Init, Run
<1>4. /\ beat \in {Never} \cup 0..BeatStaleAfter
      /\ orphaned \in 0..BeatStaleAfter /\ faults \in 0..MaxFaults
  BY Constants DEF Init
<1>5. QED BY <1>1, <1>2, <1>3, <1>4, Written DEF Init, TypeOK

\* The variables keep their types.
THEOREM TypeCorrect == Spec => []TypeOK
<1>1. ASSUME TypeOK, [Next]_vars
      PROVE  TypeOK'
  <2>1. CASE UNCHANGED vars
    BY <1>1, <2>1 DEF TypeOK, vars
  <2>2. QED BY <1>1, <2>1, NextSides, SongTypes, WorkerTypes, ItemTypes
<1>2. QED BY <1>1, InitTypes, PTL DEF Spec

-----------------------------------------------------------------------------
(***************************************************************************)
(* Who has the lock and the run; heartbeats                                *)
(***************************************************************************)
\* The two kinds of workers share the lock: summaries are carried only by a song
\* worker that has it.
Exclusive ==
  /\ worker.pc # "idle" => lock = "artists"
  /\ lock # "songs" => \A l \in SongLanes : carried[l] = NoSummary

\* A worker that has chosen its run works on one that is RUNNING.
Attends == Attended => run.status = "RUNNING"

\* A run is without a worker no longer than since its last heartbeat.
BeatsAge ==
  /\ Attended \/ run.status # "RUNNING" => orphaned = 0
  /\ run.status = "RUNNING" => beat = Never \/ beat >= orphaned

\* A heartbeat is a tick old at most, and then the next is due.
BeatKept ==
  Beating /\ ~worker.beatLost => beat = 0 \/ (worker.beatDue /\ beat = 1)

RunInv == TypeOK /\ Exclusive /\ Attends /\ BeatsAge /\ BeatKept

\* The song side leaves the run and its worker alone.
LEMMA SongFrame ==
  ASSUME SongSide
  PROVE  UNCHANGED <<run, terminal, beat, orphaned, worker, item, faults>>
  BY DEF SongSide, StartSongs, EndSongs, Age, SourceChange, FetchSummary,
         WriteSummary, runVars

\* A step of an item changes little of the worker and of the run.
LEMMA ItemFrame ==
  ASSUME TypeOK, NEW a \in Artists, ItemSide(a)
  PROVE  /\ worker.pc = "processing" /\ worker'.pc = "processing"
         /\ UNCHANGED <<upstream, carried, lock, terminal, beat, orphaned>>
         /\ worker'.beatDue = worker.beatDue /\ worker'.beatLost = worker.beatLost
         /\ worker'.found = worker.found
         /\ \A b \in Artists : b # a => (b \in worker'.queue <=> b \in worker.queue)
         /\ worker.stopped => worker'.stopped
         /\ run'.status = run.status /\ run'.mode = run.mode
         /\ run'.discovered = run.discovered /\ run'.seen = run.seen
         /\ \A b \in Artists : b # a =>
              run'.items[b] = run.items[b] /\ row'[b] = row[b] /\ item'[b] = item[b]
<1>1. worker \in Worker /\ run \in Run /\ item \in [Artists -> Item]
        /\ row \in [Artists -> Row]
  BY DEF TypeOK
<1>2. ASSUME StopLanes(a)
      PROVE  /\ worker'.pc = worker.pc /\ worker'.beatDue = worker.beatDue
             /\ worker'.beatLost = worker.beatLost /\ worker'.found = worker.found
             /\ worker'.queue = worker.queue /\ worker'.stopped
             /\ \A b \in Artists : b # a => item'[b] = item[b]
  BY <1>1, <1>2 DEF StopLanes, Worker
<1>3. \A stage : SetStage(a, stage) =>
        \A b \in Artists : b # a => item'[b] = item[b]
  BY <1>1 DEF SetStage
<1>4. CASE TakeItem(a)
  <2>1. /\ worker'.pc = worker.pc /\ worker'.beatDue = worker.beatDue
        /\ worker'.beatLost = worker.beatLost /\ worker'.found = worker.found
        /\ worker'.queue = worker.queue \ {a}
        /\ worker.stopped => worker'.stopped
    BY <1>1, <1>4 DEF TakeItem, Worker
  <2>2. QED BY <1>3, <1>4, <2>1 DEF TakeItem, songVars, runVars
<1>5. CASE Fetch(a)
  <2>1. \A b \in Artists : b # a => item'[b] = item[b]
    BY <1>1, <1>3, <1>5 DEF Fetch
  <2>2. QED BY <1>5, <2>1 DEF Fetch, InStage, songVars, runVars
<1>6. CASE CancelItem(a)
  BY <1>2, <1>6 DEF CancelItem, InStage, songVars, runVars
<1>7. CASE StoreDetail(a)
  BY <1>3, <1>7, StoreEffect DEF StoreDetail, InStage, songVars, runVars
<1>8. CASE FinishItem(a)
  BY <1>1, <1>8 DEF FinishItem, InStage, songVars, Run
<1>9. CASE MarkFailure(a)
  BY <1>3, <1>9, MarkEffect DEF MarkFailure, InStage, songVars, runVars
<1>10. CASE FailItem(a)
  BY <1>1, <1>10 DEF FailItem, InStage, songVars, Run
<1>11. CASE ItemError(a)
  <2>1. /\ worker'.pc = worker.pc /\ worker'.beatDue = worker.beatDue
        /\ worker'.beatLost = worker.beatLost /\ worker'.found = worker.found
        /\ worker'.queue = worker.queue /\ (worker.stopped => worker'.stopped)
        /\ \A b \in Artists : b # a => item'[b] = item[b]
    BY <1>1, <1>2, <1>11 DEF ItemError
  <2>2. QED BY <1>11, <2>1 DEF ItemError, InStage, songVars, runVars
<1>12. CASE CatchFails(a)
  BY <1>2, <1>12 DEF CatchFails, InStage, songVars, runVars
<1>13. QED BY <1>4, <1>5, <1>6, <1>7, <1>8, <1>9, <1>10, <1>11, <1>12
           DEF ItemSide, ItemStep

\* The song side: a summary is carried only under the lock.
LEMMA SongKeepsRun ==
  ASSUME RunInv, SongSide
  PROVE  RunInv'
<1>1. TypeOK'
  BY SongTypes DEF RunInv
<1>2. UNCHANGED <<run, terminal, beat, orphaned, worker, item, faults>>
  BY SongFrame
<1>3. Attends' /\ BeatsAge' /\ BeatKept'
  BY <1>2 DEF RunInv, Attends, Attended, BeatsAge, BeatKept, Beating
<1>4. Exclusive'
  BY <1>2 DEF RunInv, TypeOK, Exclusive, SongSide, StartSongs, EndSongs, Age,
              SourceChange, FetchSummary, WriteSummary, songVars
<1>5. QED BY <1>1, <1>3, <1>4 DEF RunInv

\* The items: nothing of it changes.
LEMMA ItemKeepsRun ==
  ASSUME RunInv, NEW a \in Artists, ItemSide(a)
  PROVE  RunInv'
<1>1. TypeOK'
  BY ItemTypes DEF RunInv
<1>2. QED BY <1>1, ItemFrame DEF RunInv, Exclusive, Attends, Attended, BeatsAge,
             BeatKept, Beating

\* A process that ends gives the lock back and leaves the run as it is.
LEMMA ExitKeepsRun ==
  ASSUME RunInv, Exit, worker.pc # "idle", carried' = carried,
         UNCHANGED <<beat, orphaned>>, run'.status = run.status
  PROVE  Exclusive' /\ Attends' /\ BeatsAge' /\ BeatKept'
<1>1. worker'.pc = "idle" /\ lock' = "free" /\ lock = "artists"
  BY DEF Exit, NoWorker, RunInv, Exclusive
<1>2. QED BY <1>1 DEF RunInv, Exclusive, Attends, Attended, BeatsAge, BeatKept, Beating

\* The artist worker.
LEMMA WorkerKeepsRun ==
  ASSUME RunInv, RunSide
  PROVE  RunInv'
<1>1. TypeOK'
  BY WorkerTypes DEF RunInv
<1>2. /\ worker \in Worker /\ run \in Run /\ beat \in {Never} \cup 0..BeatStaleAfter
      /\ orphaned \in 0..BeatStaleAfter /\ worker' \in Worker
  BY <1>1 DEF RunInv, TypeOK
<1> DEFINE Goal == Exclusive' /\ Attends' /\ BeatsAge' /\ BeatKept'
<1>3. CASE \E kind \in Kinds, ids \in SUBSET Artists : Start(kind, ids)
  <2>1. /\ worker'.pc = "locked" /\ worker.pc = "idle" /\ lock = "free"
        /\ lock' = "artists" /\ UNCHANGED <<carried, run, beat, orphaned>>
    BY <1>3 DEF Start, NoWorker, songVars, runVars
  <2>2. Goal
    BY <2>1 DEF RunInv, Exclusive, Attends, Attended, BeatsAge, BeatKept, Beating
  <2>3. QED BY <1>1, <2>2 DEF RunInv
<1>4. CASE Resume
  <2>1. /\ worker'.pc = "chosen" /\ worker.pc = "locked" /\ run.status = "RUNNING"
        /\ orphaned' = 0 /\ UNCHANGED <<carried, lock, run, beat>>
    BY <1>4 DEF Resume, Resumes, TakeRun, NoWorker, songVars
  <2>2. beat = Never \/ beat >= 0
    BY <1>2
  <2>3. Goal
    BY <2>1, <2>2 DEF RunInv, Exclusive, Attends, Attended, BeatsAge, BeatKept, Beating
  <2>4. QED BY <1>1, <2>3 DEF RunInv
<1>5. CASE Create
  <2>1. /\ worker'.pc = "chosen" /\ worker.pc = "locked" /\ run.status # "RUNNING"
        /\ run'.status = "RUNNING" /\ beat' = Never
        /\ UNCHANGED <<carried, lock, orphaned>>
    BY <1>5 DEF Create, Creates, TakeRun, NoWorker, songVars
  <2>2. Goal
    BY <2>1 DEF RunInv, Exclusive, Attends, Attended, BeatsAge, BeatKept, Beating
  <2>3. QED BY <1>1, <2>2 DEF RunInv
<1>6. CASE Reject \/ RecordInterruption \/ Crash
  <2>1. Exit /\ worker.pc # "idle" /\ UNCHANGED <<carried, run, beat, orphaned>>
    BY <1>6 DEF Reject, RecordInterruption, Crash, songVars, runVars
  <2>2. QED BY <1>1, <2>1, ExitKeepsRun DEF RunInv
<1>7. CASE FirstBeat
  <2>1. /\ worker'.pc = "running" /\ worker.pc = "chosen"
        /\ worker'.beatLost <=> faults' # faults
        /\ WriteBeat /\ UNCHANGED <<carried, lock, run, orphaned>>
    BY <1>2, <1>7 DEF FirstBeat, InitialBeat, Worker, songVars
  <2>2. beat' = 0 \/ (beat' = beat /\ worker'.beatLost)
    <3>1. faults \in Nat
      BY Constants DEF RunInv, TypeOK
    <3>2. QED BY <2>1, <3>1 DEF WriteBeat, Fault
  <2>3. orphaned = 0
    BY <2>1 DEF RunInv, BeatsAge, Attended
  <2>4. Goal
    BY <2>1, <2>2, <2>3
       DEF RunInv, Exclusive, Attends, Attended, BeatsAge, BeatKept, Beating
  <2>5. QED BY <1>1, <2>4 DEF RunInv
<1>8. CASE TimerBeat
  <2>1. /\ worker'.pc = worker.pc /\ Beating
        /\ worker'.beatLost <=> worker.beatLost \/ faults' # faults
        /\ WriteBeat /\ UNCHANGED <<carried, lock, run, orphaned>>
    BY <1>2, <1>8 DEF TimerBeat, Worker, songVars
  <2>2. beat' = 0 \/ (beat' = beat /\ worker'.beatLost)
    <3>1. faults \in Nat
      BY Constants DEF RunInv, TypeOK
    <3>2. QED BY <2>1, <3>1 DEF WriteBeat, Fault
  <2>3. orphaned = 0
    BY <2>1 DEF RunInv, BeatsAge, Attended, Beating
  <2>4. Goal
    BY <2>1, <2>2, <2>3
       DEF RunInv, Exclusive, Attends, Attended, BeatsAge, BeatKept, Beating
  <2>5. QED BY <1>1, <2>4 DEF RunInv
<1>9. CASE Tick
  <2>1. /\ worker'.pc = worker.pc /\ (worker'.beatDue <=> Beating)
        /\ worker'.beatLost = worker.beatLost /\ run.status = "RUNNING"
        /\ ~worker.beatDue /\ beat' = Older(beat)
        /\ orphaned' = IF Attended THEN 0 ELSE Older(orphaned)
        /\ UNCHANGED <<carried, lock, run>>
    <3>1. Beating \in BOOLEAN
      BY DEF Beating
    <3>2. QED BY <1>2, <1>9, <3>1 DEF Tick, Worker, songVars
  <2>2. Beating' <=> Beating
    BY <2>1 DEF Beating
  <2>3. BeatKept'
    <3>1. SUFFICES ASSUME Beating, ~worker.beatLost
                   PROVE  beat' = 1 /\ worker'.beatDue
      BY <2>1, <2>2 DEF BeatKept
    <3>2. beat = 0
      BY <2>1, <3>1 DEF RunInv, BeatKept
    <3>3. QED BY <2>1, <3>1, <3>2, Constants DEF Older
  <2>4. BeatsAge'
    <3>1. beat = Never \/ beat >= orphaned
      BY <2>1 DEF RunInv, BeatsAge
    <3>2. beat' = Never \/ beat' >= orphaned'
      BY <1>2, <2>1, <3>1, Constants DEF Older
    <3>3. QED BY <2>1, <3>2 DEF BeatsAge, Attended
  <2>5. QED BY <1>1, <2>1, <2>3, <2>4 DEF RunInv, Exclusive, Attends, Attended
<1>10. CASE Discover \/ PersistManifest \/ ListPending
  <2>1. /\ worker.pc \in {"running", "discovered"}
        /\ worker'.pc \in {"discovered", "processing"}
        /\ worker'.beatDue = worker.beatDue /\ worker'.beatLost = worker.beatLost
        /\ run'.status = run.status /\ UNCHANGED <<carried, lock, beat, orphaned>>
    <3>1. CASE Discover
      BY <1>2, <3>1 DEF Discover, Worker, songVars, runVars
    <3>2. CASE PersistManifest
      BY <1>2, <3>2 DEF PersistManifest, Worker, Run, songVars
    <3>3. CASE ListPending
      BY <1>2, <3>3 DEF ListPending, Worker, songVars, runVars
    <3>4. QED BY <1>10, <3>1, <3>2, <3>3
  <2>2. Goal
    BY <2>1 DEF RunInv, Exclusive, Attends, Attended, BeatsAge, BeatKept, Beating
  <2>3. QED BY <1>1, <2>2 DEF RunInv
<1>11. CASE Drain \/ Interrupt
  <2>1. /\ worker.pc \in {"running", "discovered", "processing", "finalizing"}
        /\ worker'.pc \in {"finalizing", "interrupt"}
        /\ UNCHANGED <<carried, lock, run, beat, orphaned>>
    BY <1>2, <1>11 DEF Drain, Interrupt, Worker, songVars, runVars
  <2>2. Goal
    BY <2>1 DEF RunInv, Exclusive, Attends, Attended, BeatsAge, BeatKept, Beating
  <2>3. QED BY <1>1, <2>2 DEF RunInv
<1>12. CASE FinalizeRun
  <2>1. /\ worker.pc = "finalizing" /\ worker'.pc = "idle" /\ lock' = "free"
        /\ run'.status = Verdict /\ UNCHANGED <<carried, orphaned>>
    BY <1>2, <1>12 DEF FinalizeRun, Exit, NoWorker, Run, songVars
  <2>2. run'.status # "RUNNING"
    BY <2>1, Written
  <2>3. Goal
    BY <2>1, <2>2
       DEF RunInv, Exclusive, Attends, Attended, BeatsAge, BeatKept, Beating
  <2>4. QED BY <1>1, <2>3 DEF RunInv
<1>13. CASE Signal
  <2>1. /\ worker'.pc = worker.pc /\ worker'.beatDue = worker.beatDue
        /\ worker'.beatLost = worker.beatLost
        /\ UNCHANGED <<carried, lock, run, beat, orphaned>>
    BY <1>2, <1>13 DEF Signal, Worker, songVars, runVars
  <2>2. Goal
    BY <2>1 DEF RunInv, Exclusive, Attends, Attended, BeatsAge, BeatKept, Beating
  <2>3. QED BY <1>1, <2>2 DEF RunInv
<1>14. QED BY <1>3, <1>4, <1>5, <1>6, <1>7, <1>8, <1>9, <1>10, <1>11, <1>12,
              <1>13 DEF RunSide

\* Locks, runs and heartbeats agree in every state.
THEOREM RunInvariant == Spec => []RunInv
<1>1. Init => RunInv
  BY InitTypes DEF Init, RunInv, Exclusive, Attends, Attended, BeatsAge, BeatKept,
                   Beating, NoWorker
<1>2. ASSUME RunInv, [Next]_vars
      PROVE  RunInv'
  <2>1. CASE UNCHANGED vars
    BY <1>2, <2>1 DEF RunInv, TypeOK, Exclusive, Attends, Attended, BeatsAge,
                      BeatKept, Beating, vars
  <2>2. QED BY <1>2, <2>1, NextSides, SongKeepsRun, WorkerKeepsRun, ItemKeepsRun
<1>3. QED BY <1>1, <1>2, PTL DEF Spec

\* A run that its worker has left is reported once the heartbeat window has
\* passed, whatever the worker was doing and whenever its last heartbeat was.
THEOREM OrphansShown == Spec => []OrphanShown
<1>1. ASSUME RunInv, run.status = "RUNNING", orphaned >= BeatStaleAfter
      PROVE  Health = "DEGRADED"
  <2>1. beat \in {Never} \cup 0..BeatStaleAfter /\ orphaned \in 0..BeatStaleAfter
    BY <1>1 DEF RunInv, TypeOK
  <2>2. IsHeartbeatStale(beat)
    BY <1>1, <2>1, Constants DEF RunInv, BeatsAge, IsHeartbeatStale
  <2>3. Never # 0
    BY Constants
  <2>4. QED BY <1>1, <2>2, <2>3 DEF Health, Classify
<1>2. RunInv => OrphanShown
  BY <1>1 DEF OrphanShown
<1>3. QED BY <1>2, RunInvariant, PTL

\* A worker whose heartbeats reach the database is not taken for dead, if the
\* window is longer than the interval of the timer (five minutes and thirty
\* seconds, unless the options say otherwise).
THEOREM LivingTrusted ==
  ASSUME BeatStaleAfter > 1
  PROVE  Spec => []LiveNotSuspected
<1>1. RunInv => LiveNotSuspected
  BY Constants DEF RunInv, BeatKept, LiveNotSuspected, IsHeartbeatStale
<1>2. QED BY <1>1, RunInvariant, PTL

-----------------------------------------------------------------------------
(***************************************************************************)
(* Items and versions                                                      *)
(***************************************************************************)
\* Nothing local is ahead of VocaDB, and a row whose detail is later than its
\* summary has at least the version of that summary.
VersionOK(a) ==
  /\ row[a].summary.ver <= upstream[a].ver
  /\ run.seen[a] <= upstream[a].ver
  /\ \A l \in SongLanes :
       carried[l].artist = {a} => carried[l].summary.ver <= upstream[a].ver
  /\ row[a].status = "NONE" => row[a].summary.ver = 0 /\ row[a].detail.ver = 0
  /\ row[a].status # "NONE" /\ ~row[a].sumAfter =>
       row[a].detail.ver >= row[a].summary.ver

\* An item in flight is PENDING.  What it has fetched is no older than the
\* summaries, and what it has written to the row is still there.
InHand(a) ==
  /\ item[a].stage # "idle" =>
       worker.pc = "processing" /\ run.items[a] = "PENDING" /\ a \notin worker.queue
  /\ item[a].stage \in {"fetched", "stored"} => item[a].detail.ver >= run.seen[a]
  /\ item[a].stage = "fetched" => item[a].detail.ver >= row[a].summary.ver
  /\ item[a].stage = "stored" =>
       /\ row[a].detail = item[a].detail
       /\ row[a].status = IF item[a].detail.deleted THEN "SOURCE_DELETED"
                          ELSE "SYNCED"
  /\ item[a].stage = "marked" => row[a].status \in {"FAILED", "SOURCE_MISSING"}

\* The manifest has artists that exist, tells the truth of their rows, and is
\* worked off: a lane that does not stop leaves no item behind.
ManifestOK(a) ==
  /\ run.items[a] # "NONE" \/ a \in worker.found => row[a].status # "NONE"
  /\ run.items[a] \in {"SYNCED", "SOURCE_DELETED"} => row[a].status = run.items[a]
  /\ run.items[a] = "FAILED" => row[a].status \in {"FAILED", "SOURCE_MISSING"}
  /\ worker.pc = "processing" /\ a \in worker.queue => run.items[a] = "PENDING"
  /\ run.items[a] = "PENDING" =>
       /\ worker.pc = "processing" /\ ~worker.stopped =>
            a \in worker.queue \/ item[a].stage # "idle"
       /\ worker.pc # "finalizing"
  /\ run.status = "SUCCEEDED" => run.items[a] \notin {"PENDING", "FAILED"}

\* What discovery passes over, and what has been synced, honours the summaries.
HonourOK(a) ==
  /\ worker.pc = "discovered" /\ a \notin worker.found =>
       \/ row[a].status \in {"NONE", "SOURCE_DELETED"}
       \/ row[a].detail.ver >= row[a].summary.ver
  /\ run.mode = "REFRESH" /\ run.discovered =>
       /\ run.items[a] = "NONE" => \/ row[a].detail.ver >= run.seen[a]
                                   \/ row[a].status = "SOURCE_DELETED"
       /\ run.items[a] \in {"SYNCED", "SOURCE_DELETED"} =>
            row[a].detail.ver >= run.seen[a]

Discovered ==
  run.status = "SUCCEEDED" \/ worker.pc \in {"processing", "finalizing"} =>
    run.discovered

ArtistOK(a) == VersionOK(a) /\ InHand(a) /\ ManifestOK(a) /\ HonourOK(a)

SyncInv == RunInv /\ Discovered /\ \A a \in Artists : ArtistOK(a)

\* Versions are numbers.
LEMMA Numbers ==
  ASSUME TypeOK, NEW a \in Artists
  PROVE  /\ upstream[a].ver \in Nat /\ run.seen[a] \in Nat
         /\ row[a].summary.ver \in Nat /\ row[a].detail.ver \in Nat
         /\ item[a].detail.ver \in Nat /\ item[a].stage \in
              {"idle", "begun", "fetched", "stored", "missing", "failing", "marked"}
         /\ \A l \in SongLanes : carried[l].summary.ver \in Nat
  BY DEF TypeOK, Source, Run, Row, Summary, Item

\* The song side: it has the lock only when no item is in flight.
LEMMA SongKeepsArtist ==
  ASSUME SyncInv, SongSide, NEW b \in Artists
  PROVE  ArtistOK(b)'
<1>1. /\ UNCHANGED <<run, worker, item>> /\ ArtistOK(b) /\ TypeOK
      /\ upstream \in [Artists -> Source] /\ row \in [Artists -> Row]
  BY SongFrame DEF SyncInv, RunInv, TypeOK
<1>2. ASSUME UNCHANGED carried,
             upstream'[b].ver \in Nat, upstream'[b].ver >= upstream[b].ver,
             row'[b].status = row[b].status, row'[b].detail = row[b].detail,
             row'[b].summary = row[b].summary, row'[b].sumAfter = row[b].sumAfter
      PROVE  ArtistOK(b)'
  <2>1. VersionOK(b)'
    BY <1>1, <1>2, Numbers DEF ArtistOK, VersionOK
  <2>2. InHand(b)' /\ ManifestOK(b)' /\ HonourOK(b)'
    BY <1>1, <1>2 DEF ArtistOK, InHand, ManifestOK, HonourOK
  <2>3. QED BY <2>1, <2>2 DEF ArtistOK
<1>3. ASSUME NEW a \in Artists, NEW status, SourceChange(a, status)
      PROVE  ArtistOK(b)'
  <2>1. upstream'[b].ver \in Nat /\ upstream'[b].ver >= upstream[b].ver
    BY <1>1, <1>3, Numbers DEF SourceChange
  <2>2. UNCHANGED <<row, carried>>
    BY <1>3 DEF SourceChange
  <2>3. QED BY <1>2, <2>1, <2>2
<1>4. ASSUME NEW a \in Artists, Age(a)
      PROVE  ArtistOK(b)'
  <2>1. UNCHANGED <<upstream, carried>>
    BY <1>4 DEF Age, songVars
  <2>2. QED BY <1>1, <1>2, <1>4, <2>1, AgeEffect, Numbers
<1>5. ASSUME UNCHANGED upstream, row'[b] = row[b],
             \A l \in SongLanes : \/ carried'[l] = carried[l]
                                  \/ carried'[l].artist = {}
                                  \/ \E a \in Artists :
                                       /\ carried'[l].artist = {a}
                                       /\ carried'[l].summary.ver = upstream[a].ver
      PROVE  ArtistOK(b)'
  <2>1. VersionOK(b)'
    <3>1. ASSUME NEW l \in SongLanes, carried'[l].artist = {b}
          PROVE  carried'[l].summary.ver <= upstream[b].ver
      <4>1. CASE carried'[l] = carried[l]
        BY <1>1, <3>1, <4>1 DEF ArtistOK, VersionOK
      <4>2. CASE carried'[l].artist = {}
        BY <3>1, <4>2
      <4>3. ASSUME NEW a \in Artists, carried'[l].artist = {a},
                   carried'[l].summary.ver = upstream[a].ver
            PROVE  carried'[l].summary.ver <= upstream[b].ver
        <5>1. a = b
          BY <3>1, <4>3
        <5>2. QED BY <1>1, <4>3, <5>1, Numbers
      <4>4. QED BY <1>5, <4>1, <4>2, <4>3
    <3>2. QED BY <1>1, <1>5, <3>1 DEF ArtistOK, VersionOK
  <2>2. InHand(b)' /\ ManifestOK(b)' /\ HonourOK(b)'
    BY <1>1, <1>5 DEF ArtistOK, InHand, ManifestOK, HonourOK
  <2>3. QED BY <2>1, <2>2 DEF ArtistOK
<1>6. CASE StartSongs
  BY <1>5, <1>6 DEF StartSongs, songVars
<1>7. CASE EndSongs
  BY <1>5, <1>7 DEF EndSongs, NoSummary
<1>8. ASSUME NEW a \in Artists, NEW l \in SongLanes, FetchSummary(l, a)
      PROVE  ArtistOK(b)'
  <2>1. UNCHANGED <<upstream, row>>
    BY <1>8 DEF FetchSummary
  <2>2. \A m \in SongLanes :
          carried'[m] = IF m = l THEN [artist |-> {a}, summary |-> SummaryOf(upstream[a])]
                        ELSE carried[m]
    BY <1>1, <1>8 DEF FetchSummary, TypeOK
  <2>3. SummaryOf(upstream[a]).ver = upstream[a].ver
    BY DEF SummaryOf
  <2>4. QED BY <1>5, <2>1, <2>2, <2>3
<1>9. ASSUME NEW a \in Artists, NEW l \in SongLanes, WriteSummary(l, a)
      PROVE  ArtistOK(b)'
  <2>1. PICK summary \in Summary : summary = carried[l].summary
    BY <1>1 DEF TypeOK
  <2>2. carried[l] # NoSummary
    <3>1. NoSummary.artist = {} /\ carried[l].artist = {a}
      BY <1>9 DEF NoSummary, WriteSummary
    <3>2. QED BY <3>1
  <2>3. worker.pc = "idle"
    BY <2>2 DEF SyncInv, RunInv, Exclusive
  <2>4. item[b].stage = "idle"
    BY <1>1, <2>3 DEF ArtistOK, InHand
  <2>5. /\ UNCHANGED upstream
        /\ \A m \in SongLanes : carried'[m] = carried[m] \/ carried'[m].artist = {}
    BY <1>1, <1>9 DEF WriteSummary, NoSummary, TypeOK
  <2>6. b # a => row'[b] = row[b]
    BY <1>1, <1>9 DEF WriteSummary
  <2>7. CASE b # a
    BY <1>5, <2>5, <2>6, <2>7 DEF WriteSummary
  <2>8. CASE b = a
    <3>1. PICK r : /\ row' = [row EXCEPT ![a] = r]
                   /\ r = IF row[a].status = "NONE"
                          THEN [NoRow EXCEPT
                                  !.status = IF summary.deleted THEN "SOURCE_DELETED"
                                             ELSE "SYNCED",
                                  !.detail = summary, !.summary = summary,
                                  !.sumAfter = TRUE]
                          ELSE [row[a] EXCEPT !.summary = summary, !.sumAfter = TRUE]
      BY <1>9, <2>1 DEF WriteSummary
    <3>2. row[a].status = "NONE" =>
            r.status # "NONE" /\ r.detail = summary
      BY <3>1 DEF NoRow
    <3>3. row[a].status # "NONE" =>
            r.status = row[a].status /\ r.detail = row[a].detail
      BY <1>1, <3>1 DEF Row
    <3>4. r.summary = summary /\ r.sumAfter
      <4>1. row[a] \in Row
        BY <1>1
      <4>2. CASE row[a].status = "NONE"
        BY <3>1, <4>2 DEF NoRow
      <4>3. CASE row[a].status # "NONE"
        BY <3>1, <4>1, <4>3 DEF Row
      <4>4. QED BY <4>2, <4>3
    <3>5. row'[b] = r
      BY <1>1, <2>8, <3>1
    <3>6. summary.ver \in Nat /\ summary.ver <= upstream[b].ver
      BY <1>1, <1>9, <2>1, <2>8 DEF ArtistOK, VersionOK, WriteSummary, Summary
    <3>7. VersionOK(b)'
      BY <1>1, <2>5, <2>8, <3>2, <3>3, <3>4, <3>5, <3>6 DEF ArtistOK, VersionOK
    <3>8. InHand(b)'
      BY <1>1, <2>4 DEF InHand
    <3>9. ManifestOK(b)'
      BY <1>1, <2>8, <3>2, <3>3, <3>5 DEF ArtistOK, ManifestOK
    <3>10. HonourOK(b)'
      <4>1. CASE row[a].status = "NONE"
        <5>1. run.items[b] = "NONE"
          BY <1>1, <2>8, <4>1 DEF ArtistOK, ManifestOK
        <5>2. run.mode = "REFRESH" /\ run.discovered => run.seen[b] <= 0
          BY <1>1, <2>8, <4>1, <5>1, Numbers DEF ArtistOK, VersionOK, HonourOK
        <5>3. run.mode = "REFRESH" /\ run.discovered => summary.ver >= run.seen[b]
          BY <1>1, <3>6, <5>2, Numbers
        <5>4. QED BY <1>1, <2>3, <3>2, <3>5, <4>1, <5>1, <5>3 DEF HonourOK
      <4>2. CASE row[a].status # "NONE"
        BY <1>1, <2>3, <2>8, <3>3, <3>5, <4>2 DEF ArtistOK, HonourOK
      <4>3. QED BY <4>1, <4>2
    <3>11. QED BY <3>7, <3>8, <3>9, <3>10 DEF ArtistOK
  <2>9. QED BY <2>7, <2>8
<1>10. QED BY <1>3, <1>4, <1>6, <1>7, <1>8, <1>9 DEF SongSide

\* The steps of the worker that leave the run and its items alone.
Quiet ==
  \/ \E kind \in Kinds, ids \in SUBSET Artists : Start(kind, ids)
  \/ Resume \/ FirstBeat \/ TimerBeat \/ Tick \/ Signal \/ Interrupt

\* They go on where the worker is, or leave the run's items for later.
LEMMA QuietEffect ==
  ASSUME TypeOK, Quiet
  PROVE  /\ UNCHANGED <<upstream, carried, row, run, item>>
         /\ \/ /\ worker'.pc = worker.pc /\ worker'.queue = worker.queue
               /\ worker'.found = worker.found /\ worker'.stopped = worker.stopped
            \/ /\ worker.pc # "processing"
               /\ worker'.pc \notin {"discovered", "processing", "finalizing"}
               /\ worker'.found \subseteq worker.found
<1>1. worker \in Worker
  BY DEF TypeOK
<1>2. CASE \E kind \in Kinds, ids \in SUBSET Artists : Start(kind, ids)
  BY <1>1, <1>2 DEF Start, NoWorker, Worker, songVars, runVars
<1>3. CASE Resume
  BY <1>1, <1>3 DEF Resume, TakeRun, NoWorker, Worker, songVars
<1>4. CASE FirstBeat
  BY <1>1, <1>4 DEF FirstBeat, Worker, songVars
<1>5. CASE TimerBeat
  BY <1>1, <1>5 DEF TimerBeat, Worker, songVars
<1>6. CASE Tick
  BY <1>1, <1>6 DEF Tick, Worker, songVars
<1>7. CASE Signal
  BY <1>1, <1>7 DEF Signal, Worker, songVars, runVars
<1>8. CASE Interrupt
  BY <1>1, <1>8 DEF Interrupt, Worker, songVars, runVars
<1>9. QED BY <1>2, <1>3, <1>4, <1>5, <1>6, <1>7, <1>8 DEF Quiet

\* The artist worker: what it lists is there, what it passes over is in order,
\* and it comes to the end with nothing pending.
LEMMA WorkerKeepsArtist ==
  ASSUME SyncInv, RunSide, NEW b \in Artists
  PROVE  ArtistOK(b)'
<1>1. /\ ArtistOK(b) /\ TypeOK /\ worker \in Worker /\ run \in Run
      /\ item \in [Artists -> Item] /\ row \in [Artists -> Row] /\ row[b] \in Row
  BY DEF SyncInv, RunInv, TypeOK
<1>2. worker.pc # "processing" => item[b].stage = "idle"
  BY <1>1 DEF ArtistOK, InHand
<1>3. CASE Quiet
  <2>1. /\ UNCHANGED <<upstream, carried, row, run, item>>
        /\ \/ /\ worker'.pc = worker.pc /\ worker'.queue = worker.queue
              /\ worker'.found = worker.found /\ worker'.stopped = worker.stopped
           \/ /\ worker.pc # "processing"
              /\ worker'.pc \notin {"discovered", "processing", "finalizing"}
              /\ worker'.found \subseteq worker.found
    BY <1>1, <1>3, QuietEffect
  <2>2. QED BY <1>1, <1>2, <2>1 DEF ArtistOK, VersionOK, InHand, ManifestOK, HonourOK
<1>4. ASSUME UNCHANGED <<upstream, carried, row>>, Exit,
             run'.mode = run.mode, run'.discovered = run.discovered,
             run'.items = run.items, run'.seen = run.seen,
             run'.status = "SUCCEEDED" => run.items[b] \notin {"PENDING", "FAILED"}
      PROVE  ArtistOK(b)'
  <2>1. worker'.pc = "idle" /\ worker'.found = {} /\ item'[b].stage = "idle"
    BY <1>4 DEF Exit, NoWorker, NoItems, NoItem
  <2>2. VersionOK(b)' /\ InHand(b)'
    BY <1>1, <1>4, <2>1 DEF ArtistOK, VersionOK, InHand
  <2>3. ManifestOK(b)' /\ HonourOK(b)'
    BY <1>1, <1>4, <2>1 DEF ArtistOK, ManifestOK, HonourOK
  <2>4. QED BY <2>2, <2>3 DEF ArtistOK
<1>5. CASE Reject \/ RecordInterruption \/ Crash
  <2>1. Exit /\ UNCHANGED <<upstream, carried, row, run>>
    BY <1>5 DEF Reject, RecordInterruption, Crash, songVars, runVars
  <2>2. QED BY <1>1, <1>4, <2>1 DEF ArtistOK, ManifestOK
<1>6. CASE FinalizeRun
  <2>1. /\ UNCHANGED <<upstream, carried, row>> /\ Exit
        /\ run'.mode = run.mode /\ run'.discovered = run.discovered
        /\ run'.items = run.items /\ run'.seen = run.seen
        /\ run'.status = Verdict /\ worker.pc = "finalizing"
    BY <1>1, <1>6 DEF FinalizeRun, Run, songVars
  <2>2. run.items[b] # "PENDING"
    BY <1>1, <2>1 DEF ArtistOK, ManifestOK
  <2>3. Verdict = "SUCCEEDED" => run.items[b] # "FAILED"
    BY DEF Verdict, With
  <2>4. QED BY <1>4, <2>1, <2>2, <2>3
<1>7. CASE Create
  <2>1. /\ UNCHANGED <<upstream, carried, row, item>>
        /\ worker.pc = "locked" /\ worker'.pc = "chosen" /\ worker'.found = {}
        /\ run'.status = "RUNNING" /\ run'.seen[b] = 0
        /\ run'.mode = "REFRESH" => ~run'.discovered
        /\ run'.items[b] \in {"NONE", "PENDING"}
        /\ run'.items[b] = "PENDING" => worker.kind = "IDS" /\ b \in worker.ids
    BY <1>7 DEF Create, TakeRun, NoWorker, songVars
  <2>2. run'.items[b] = "PENDING" => row[b].status # "NONE"
    BY <1>7, <2>1 DEF Create, Creates, Existing
  <2>3. VersionOK(b)'
    BY <1>1, <2>1, Numbers DEF ArtistOK, VersionOK
  <2>4. InHand(b)'
    BY <1>2, <2>1 DEF InHand
  <2>5. ManifestOK(b)' /\ HonourOK(b)'
    BY <2>1, <2>2 DEF ManifestOK, HonourOK
  <2>6. QED BY <2>3, <2>4, <2>5 DEF ArtistOK
<1>8. CASE Discover
  <2>1. /\ UNCHANGED <<upstream, carried, row, run, item>>
        /\ worker.pc = "running" /\ worker'.pc = "discovered"
        /\ b \in worker'.found <=> Due(b)
    BY <1>1, <1>8 DEF Discover, Worker, songVars, runVars
  <2>2. VersionOK(b)' /\ InHand(b)'
    BY <1>1, <1>2, <2>1 DEF ArtistOK, VersionOK, InHand
  <2>3. Due(b) => row[b].status # "NONE"
    BY DEF Due
  <2>4. ~Due(b) => \/ row[b].status \in {"NONE", "SOURCE_DELETED"}
                   \/ row[b].detail.ver >= row[b].summary.ver
    <3>1. row[b].status \in {"NONE", "SYNCED", "FAILED", "SOURCE_MISSING",
                             "SOURCE_DELETED"}
      BY <1>1 DEF Row
    <3>2. SUFFICES ASSUME ~Due(b), row[b].status \in {"SYNCED", "SOURCE_MISSING"}
                   PROVE  row[b].detail.ver >= row[b].summary.ver
      BY <3>1 DEF Due
    <3>3. CASE row[b].sumAfter
      BY <1>1, <3>2, <3>3, Numbers DEF Due, SummaryChanged
    <3>4. CASE ~row[b].sumAfter
      BY <1>1, <3>2, <3>4 DEF ArtistOK, VersionOK
    <3>5. QED BY <3>3, <3>4
  <2>5. ManifestOK(b)' /\ HonourOK(b)'
    BY <1>1, <2>1, <2>3, <2>4 DEF ArtistOK, ManifestOK, HonourOK
  <2>6. QED BY <2>2, <2>5 DEF ArtistOK
<1>9. CASE PersistManifest
  <2>1. /\ UNCHANGED <<upstream, carried, row, item>>
        /\ worker.pc = "discovered" /\ worker'.pc = "processing"
        /\ worker'.queue = worker.found /\ worker'.found = {}
        /\ run'.status = run.status /\ run'.seen[b] = row[b].summary.ver
        /\ run'.items[b] = IF b \in worker.found THEN "PENDING" ELSE "NONE"
    BY <1>1, <1>9 DEF PersistManifest, Worker, Run, songVars
  <2>2. run.status = "RUNNING"
    BY <2>1 DEF SyncInv, RunInv, Attends, Attended
  <2>3. VersionOK(b)' /\ InHand(b)'
    BY <1>1, <1>2, <2>1 DEF ArtistOK, VersionOK, InHand
  <2>4. ManifestOK(b)'
    BY <1>1, <2>1, <2>2 DEF ArtistOK, ManifestOK
  <2>5. HonourOK(b)'
    <3>1. b \notin worker.found => \/ row[b].status = "SOURCE_DELETED"
                                   \/ row[b].detail.ver >= row[b].summary.ver
      BY <1>1, <2>1, Numbers DEF ArtistOK, VersionOK, HonourOK
    <3>2. QED BY <2>1, <3>1 DEF HonourOK
  <2>6. QED BY <2>3, <2>4, <2>5 DEF ArtistOK
<1>10. CASE ListPending
  <2>1. /\ UNCHANGED <<upstream, carried, row, run, item>>
        /\ worker.pc = "running" /\ worker'.pc = "processing"
        /\ b \in worker'.queue <=> run.items[b] = "PENDING"
        /\ worker'.found = worker.found
    BY <1>1, <1>10 DEF ListPending, Worker, songVars, runVars
  <2>2. VersionOK(b)' /\ InHand(b)'
    BY <1>1, <1>2, <2>1 DEF ArtistOK, VersionOK, InHand
  <2>3. ManifestOK(b)' /\ HonourOK(b)'
    BY <1>1, <2>1 DEF ArtistOK, ManifestOK, HonourOK
  <2>4. QED BY <2>2, <2>3 DEF ArtistOK
<1>11. CASE Drain
  <2>1. /\ UNCHANGED <<upstream, carried, row, run, item>>
        /\ worker.pc = "processing" /\ item[b].stage = "idle"
        /\ worker'.found = worker.found
        /\ \/ worker'.pc = "interrupt"
           \/ worker'.pc = "finalizing" /\ ~worker.stopped /\ worker.queue = {}
    BY <1>1, <1>11 DEF Drain, InFlight, Worker, songVars, runVars
  <2>2. worker'.pc = "finalizing" => run.items[b] # "PENDING"
    BY <1>1, <2>1 DEF ArtistOK, ManifestOK
  <2>3. VersionOK(b)' /\ InHand(b)'
    BY <1>1, <2>1 DEF ArtistOK, VersionOK, InHand
  <2>4. ManifestOK(b)' /\ HonourOK(b)'
    BY <1>1, <2>1, <2>2 DEF ArtistOK, ManifestOK, HonourOK
  <2>5. QED BY <2>3, <2>4 DEF ArtistOK
<1>12. QED BY <1>3, <1>5, <1>6, <1>7, <1>8, <1>9, <1>10, <1>11 DEF RunSide, Quiet

\* Items are worked on, and a run succeeds, only after discovery.
LEMMA WorkerKeepsDiscovered ==
  ASSUME SyncInv, RunSide
  PROVE  Discovered'
<1>1. Discovered /\ TypeOK /\ worker \in Worker /\ run \in Run
  BY DEF SyncInv, RunInv, TypeOK
<1>2. CASE Quiet
  BY <1>1, <1>2, QuietEffect DEF Discovered
<1>3. CASE Reject \/ RecordInterruption \/ Crash
  BY <1>1, <1>3 DEF Reject, RecordInterruption, Crash, Exit, NoWorker, runVars,
                    Discovered
<1>4. CASE FinalizeRun
  BY <1>1, <1>4 DEF FinalizeRun, Run, Discovered
<1>5. CASE Create
  BY <1>5 DEF Create, TakeRun, NoWorker, Discovered
<1>6. CASE Discover
  BY <1>1, <1>6 DEF Discover, Worker, runVars, Discovered
<1>7. CASE PersistManifest
  BY <1>1, <1>7 DEF PersistManifest, Run, Discovered
<1>8. CASE ListPending
  BY <1>8 DEF ListPending, runVars, Discovered
<1>9. CASE Drain
  BY <1>1, <1>9 DEF Drain, Worker, runVars, Discovered
<1>10. QED BY <1>2, <1>3, <1>4, <1>5, <1>6, <1>7, <1>8, <1>9 DEF RunSide, Quiet

\* What a lane writes for its artist agrees with what it has fetched; if it
\* throws, the item stays PENDING and the lanes stop.
LEMMA ItemKeepsOwn ==
  ASSUME SyncInv, NEW a \in Artists, ItemSide(a)
  PROVE  ArtistOK(a)'
<1>1. /\ ArtistOK(a) /\ TypeOK /\ worker \in Worker /\ run \in Run
      /\ item \in [Artists -> Item] /\ row \in [Artists -> Row]
      /\ item[a] \in Item /\ row[a] \in Row
      /\ upstream[a].ver \in Nat /\ run.seen[a] \in Nat
      /\ row[a].summary.ver \in Nat /\ row[a].detail.ver \in Nat
      /\ item[a].detail.ver \in Nat
  BY Numbers DEF SyncInv, RunInv, TypeOK
<1>2. /\ UNCHANGED <<upstream, carried>>
      /\ worker.pc = "processing" /\ worker'.pc = "processing"
      /\ worker'.found = worker.found
      /\ run'.status = run.status /\ run'.mode = run.mode
      /\ run'.discovered = run.discovered /\ run'.seen = run.seen
  BY <1>1, ItemFrame
<1>3. run.status = "RUNNING"
  BY <1>2 DEF SyncInv, RunInv, Attends, Attended
<1>4. item[a].stage # "idle" => run.items[a] = "PENDING" /\ a \notin worker.queue
  BY <1>1 DEF ArtistOK, InHand
<1>5. ASSUME StopLanes(a), UNCHANGED <<row, run>>, item[a].stage # "idle"
      PROVE  ArtistOK(a)'
  <2>1. item'[a].stage = "idle" /\ worker'.stopped /\ worker'.queue = worker.queue
    BY <1>1, <1>5 DEF StopLanes, NoItem, Worker
  <2>2. VersionOK(a)' /\ InHand(a)'
    BY <1>1, <1>2, <1>5, <2>1 DEF ArtistOK, VersionOK, InHand
  <2>3. ManifestOK(a)' /\ HonourOK(a)'
    BY <1>1, <1>2, <1>3, <1>5, <2>1 DEF ArtistOK, ManifestOK, HonourOK
  <2>4. QED BY <2>2, <2>3 DEF ArtistOK
<1>6. ASSUME NEW stage \in {"begun", "missing", "failing", "fetched"},
             UNCHANGED <<row, run>>, item'[a].stage = stage,
             run.items[a] = "PENDING", a \notin worker'.queue,
             stage = "fetched" => item'[a].detail.ver = upstream[a].ver
      PROVE  ArtistOK(a)'
  <2>1. VersionOK(a)'
    BY <1>1, <1>2, <1>6 DEF ArtistOK, VersionOK
  <2>2. InHand(a)'
    BY <1>1, <1>2, <1>6 DEF ArtistOK, VersionOK, InHand
  <2>3. ManifestOK(a)' /\ HonourOK(a)'
    BY <1>1, <1>2, <1>3, <1>6 DEF ArtistOK, ManifestOK, HonourOK
  <2>4. QED BY <2>1, <2>2, <2>3 DEF ArtistOK
<1>7. CASE TakeItem(a)
  <2>1. /\ a \in worker.queue /\ worker'.queue = worker.queue \ {a}
        /\ UNCHANGED <<row, run>>
        /\ item'[a].stage = "begun" \/ (worker'.stopped /\ item' = item)
    <3>1. /\ a \in worker.queue /\ UNCHANGED <<row, run>>
          /\ \/ SetStage(a, "begun") /\ worker' = [worker EXCEPT !.queue = @ \ {a}]
             \/ /\ item' = item
                /\ worker' = [worker EXCEPT !.queue = @ \ {a}, !.stopped = TRUE]
      BY <1>7 DEF TakeItem, runVars
    <3>2. CASE SetStage(a, "begun") /\ worker' = [worker EXCEPT !.queue = @ \ {a}]
      BY <1>1, <3>1, <3>2 DEF SetStage, Worker, Item
    <3>3. CASE /\ item' = item
               /\ worker' = [worker EXCEPT !.queue = @ \ {a}, !.stopped = TRUE]
      BY <1>1, <3>1, <3>3 DEF Worker
    <3>4. QED BY <3>1, <3>2, <3>3
  <2>2. run.items[a] = "PENDING"
    BY <1>1, <1>2, <2>1 DEF ArtistOK, ManifestOK
  <2>3. CASE item'[a].stage = "begun"
    BY <1>6, <2>1, <2>2, <2>3
  <2>4. CASE worker'.stopped /\ item' = item
    <3>1. item[a].stage = "idle"
      BY <1>4, <2>1
    <3>2. VersionOK(a)' /\ InHand(a)'
      BY <1>1, <1>2, <2>1, <2>4, <3>1 DEF ArtistOK, VersionOK, InHand
    <3>3. ManifestOK(a)' /\ HonourOK(a)'
      BY <1>1, <1>2, <1>3, <2>1, <2>2, <2>4 DEF ArtistOK, ManifestOK, HonourOK
    <3>4. QED BY <3>2, <3>3 DEF ArtistOK
  <2>5. QED BY <2>1, <2>3, <2>4
<1>8. CASE Fetch(a)
  <2>1. UNCHANGED <<row, run, worker>> /\ item[a].stage = "begun"
    BY <1>8 DEF Fetch, InStage, runVars
  <2>2. \/ item'[a].stage = "missing"
        \/ item'[a].stage = "fetched" /\ item'[a].detail.ver = upstream[a].ver
    BY <1>1, <1>8 DEF Fetch, SetStage, SummaryOf, Item
  <2>3. QED BY <1>4, <1>6, <2>1, <2>2
<1>9. CASE CancelItem(a)
  BY <1>5, <1>9 DEF CancelItem, InStage, runVars
<1>10. CASE CatchFails(a)
  BY <1>5, <1>10 DEF CatchFails, InStage, runVars
<1>11. CASE ItemError(a)
  <2>1. UNCHANGED <<row, run>> /\ item[a].stage # "idle"
    BY <1>11 DEF ItemError, InStage, runVars
  <2>2. CASE worker.aborted
    BY <1>5, <1>11, <2>1, <2>2 DEF ItemError
  <2>3. CASE ~worker.aborted
    <3>1. item'[a].stage = "failing" /\ worker' = worker
      BY <1>1, <1>11, <2>3 DEF ItemError, NoItem
    <3>2. QED BY <1>4, <1>6, <2>1, <3>1
  <2>4. QED BY <2>2, <2>3
<1>12. CASE StoreDetail(a)
  <2>1. /\ UNCHANGED <<run, worker>> /\ item[a].stage = "fetched"
        /\ item'[a].stage = "stored" /\ item'[a].detail = item[a].detail
    BY <1>1, <1>12 DEF StoreDetail, InStage, SetStage, Item, runVars
  <2>2. /\ row'[a].status = IF item[a].detail.deleted THEN "SOURCE_DELETED"
                            ELSE "SYNCED"
        /\ row'[a].detail = item[a].detail /\ row'[a].summary = row[a].summary
        /\ row'[a].sumAfter = FALSE
    BY <1>1, <1>12, StoreEffect
  <2>3. VersionOK(a)'
    BY <1>1, <1>2, <2>1, <2>2 DEF ArtistOK, VersionOK, InHand
  <2>4. InHand(a)'
    BY <1>1, <1>2, <2>1, <2>2 DEF ArtistOK, InHand
  <2>5. ManifestOK(a)' /\ HonourOK(a)'
    BY <1>1, <1>2, <1>3, <1>4, <2>1, <2>2 DEF ArtistOK, ManifestOK, HonourOK
  <2>6. QED BY <2>3, <2>4, <2>5 DEF ArtistOK
<1>13. CASE MarkFailure(a)
  <2>1. /\ UNCHANGED <<run, worker>> /\ item[a].stage \in {"missing", "failing"}
        /\ item'[a].stage = "marked"
    BY <1>1, <1>13 DEF MarkFailure, InStage, SetStage, Item, runVars
  <2>2. /\ row'[a].status \in {"FAILED", "SOURCE_MISSING"}
        /\ row'[a].detail = row[a].detail /\ row'[a].summary = row[a].summary
        /\ row'[a].sumAfter = row[a].sumAfter
    BY <1>1, <1>13, MarkEffect
  <2>3. row[a].status # "NONE"
    BY <1>1, <1>4, <2>1 DEF ArtistOK, ManifestOK
  <2>4. VersionOK(a)' /\ InHand(a)'
    BY <1>1, <1>2, <2>1, <2>2, <2>3 DEF ArtistOK, VersionOK, InHand
  <2>5. ManifestOK(a)' /\ HonourOK(a)'
    BY <1>1, <1>2, <1>3, <1>4, <2>1, <2>2 DEF ArtistOK, ManifestOK, HonourOK
  <2>6. QED BY <2>4, <2>5 DEF ArtistOK
<1>14. CASE FinishItem(a)
  <2>1. /\ UNCHANGED <<row, worker>> /\ item[a].stage = "stored"
        /\ item'[a].stage = "idle"
        /\ run'.items[a] = IF item[a].detail.deleted THEN "SOURCE_DELETED"
                           ELSE "SYNCED"
    BY <1>1, <1>14 DEF FinishItem, InStage, NoItem, Run
  <2>2. /\ row[a].status = run'.items[a]
        /\ row[a].detail.ver >= run.seen[a]
    BY <1>1, <2>1 DEF ArtistOK, InHand
  <2>3. VersionOK(a)' /\ InHand(a)'
    BY <1>1, <1>2, <2>1 DEF ArtistOK, VersionOK, InHand
  <2>4. ManifestOK(a)' /\ HonourOK(a)'
    BY <1>1, <1>2, <1>3, <1>4, <2>1, <2>2 DEF ArtistOK, ManifestOK, HonourOK
  <2>5. QED BY <2>3, <2>4 DEF ArtistOK
<1>15. CASE FailItem(a)
  <2>1. /\ UNCHANGED <<row, worker>> /\ item[a].stage = "marked"
        /\ item'[a].stage = "idle" /\ run'.items[a] = "FAILED"
    BY <1>1, <1>15 DEF FailItem, InStage, NoItem, Run
  <2>2. row[a].status \in {"FAILED", "SOURCE_MISSING"}
    BY <1>1, <2>1 DEF ArtistOK, InHand
  <2>3. VersionOK(a)' /\ InHand(a)'
    BY <1>1, <1>2, <2>1 DEF ArtistOK, VersionOK, InHand
  <2>4. ManifestOK(a)' /\ HonourOK(a)'
    BY <1>1, <1>2, <1>3, <1>4, <2>1, <2>2 DEF ArtistOK, ManifestOK, HonourOK
  <2>5. QED BY <2>3, <2>4 DEF ArtistOK
<1>16. QED BY <1>7, <1>8, <1>9, <1>10, <1>11, <1>12, <1>13, <1>14, <1>15
           DEF ItemSide, ItemStep

\* The other artists are not touched.
LEMMA ItemKeepsArtist ==
  ASSUME SyncInv, NEW a \in Artists, ItemSide(a), NEW b \in Artists
  PROVE  ArtistOK(b)' /\ Discovered'
<1>1. ArtistOK(b) /\ Discovered /\ TypeOK
  BY DEF SyncInv, RunInv
<1>2. Discovered'
  BY <1>1, ItemFrame DEF Discovered
<1>3. CASE b = a
  BY <1>2, <1>3, ItemKeepsOwn
<1>4. CASE b # a
  <2>1. /\ worker.pc = "processing" /\ worker'.pc = "processing"
        /\ UNCHANGED <<upstream, carried>> /\ worker'.found = worker.found
        /\ b \in worker'.queue <=> b \in worker.queue
        /\ worker.stopped => worker'.stopped
        /\ run'.status = run.status /\ run'.mode = run.mode
        /\ run'.discovered = run.discovered /\ run'.seen = run.seen
        /\ run'.items[b] = run.items[b] /\ row'[b] = row[b] /\ item'[b] = item[b]
    BY <1>1, <1>4, ItemFrame
  <2>2. VersionOK(b)' /\ InHand(b)'
    BY <1>1, <2>1 DEF ArtistOK, VersionOK, InHand
  <2>3. ManifestOK(b)' /\ HonourOK(b)'
    BY <1>1, <2>1 DEF ArtistOK, ManifestOK, HonourOK
  <2>4. QED BY <1>2, <2>2, <2>3 DEF ArtistOK
<1>5. QED BY <1>3, <1>4

\* At the start there is nothing.
LEMMA InitArtists == Init => SyncInv
<1> SUFFICES ASSUME Init
             PROVE  SyncInv
  OBVIOUS
<1>1. TypeOK /\ Exclusive /\ Attends /\ BeatsAge /\ BeatKept
  BY InitTypes DEF Init, Exclusive, Attends, Attended, BeatsAge, BeatKept, Beating,
                   NoWorker
<1>2. worker.pc = "idle" /\ worker.found = {} /\ worker.queue = {}
  BY DEF Init, NoWorker
<1>3. ASSUME NEW a \in Artists
      PROVE  ArtistOK(a)
  <2>1. /\ row[a].status = "NONE" /\ row[a].summary.ver = 0
        /\ row[a].detail.ver = 0 /\ run.items[a] = "NONE" /\ run.seen[a] = 0
        /\ upstream[a].ver = 0 /\ item[a].stage = "idle"
        /\ \A l \in SongLanes : carried[l].artist = {}
        /\ run.mode = "IDS" /\ run.status = "NONE"
    BY DEF Init, NoRow, Nothing, NoItems, NoItem, NoSummary
  <2>2. VersionOK(a) /\ InHand(a)
    BY <2>1 DEF VersionOK, InHand
  <2>3. ManifestOK(a) /\ HonourOK(a)
    BY <1>2, <2>1 DEF ManifestOK, HonourOK
  <2>4. QED BY <2>2, <2>3 DEF ArtistOK
<1>4. Discovered
  BY <1>2 DEF Init, Discovered
<1>5. QED BY <1>1, <1>3, <1>4 DEF SyncInv, RunInv

\* Rows, versions, items and the manifest agree in every state.
THEOREM SyncInvariant == Spec => []SyncInv
<1>1. ASSUME SyncInv, [Next]_vars, UNCHANGED vars
      PROVE  SyncInv'
  <2>1. RunInv'
    BY <1>1 DEF SyncInv, RunInv, TypeOK, Exclusive, Attends, Attended, BeatsAge,
                BeatKept, Beating, vars
  <2>2. Discovered'
    BY <1>1 DEF SyncInv, Discovered, vars
  <2>3. ASSUME NEW b \in Artists
        PROVE  ArtistOK(b)'
    BY <1>1 DEF SyncInv, ArtistOK, VersionOK, InHand, ManifestOK, HonourOK, vars
  <2>4. QED BY <2>1, <2>2, <2>3 DEF SyncInv
<1>2. ASSUME SyncInv, SongSide
      PROVE  SyncInv'
  <2>1. RunInv'
    BY <1>2, SongKeepsRun DEF SyncInv
  <2>2. Discovered'
    BY <1>2, SongFrame DEF SyncInv, Discovered
  <2>3. \A b \in Artists : ArtistOK(b)'
    BY <1>2, SongKeepsArtist
  <2>4. QED BY <2>1, <2>2, <2>3 DEF SyncInv
<1>3. ASSUME SyncInv, RunSide
      PROVE  SyncInv'
  <2>1. RunInv'
    BY <1>3, WorkerKeepsRun DEF SyncInv
  <2>2. \A b \in Artists : ArtistOK(b)'
    BY <1>3, WorkerKeepsArtist
  <2>3. QED BY <1>3, <2>1, <2>2, WorkerKeepsDiscovered DEF SyncInv
<1>4. ASSUME SyncInv, NEW a \in Artists, ItemSide(a)
      PROVE  SyncInv'
  <2>1. RunInv'
    BY <1>4, ItemKeepsRun DEF SyncInv
  <2>2. Discovered' /\ \A b \in Artists : ArtistOK(b)'
    BY <1>4, ItemKeepsArtist
  <2>3. QED BY <2>1, <2>2 DEF SyncInv
<1>5. SyncInv /\ [Next]_vars => SyncInv'
  BY <1>1, <1>2, <1>3, <1>4, NextSides
<1>6. QED BY <1>5, InitArtists, PTL DEF Spec

\* What an item of the latest run says is what the artist's row says, over
\* crashes between the two updates and resumed runs (processArtistItem).
THEOREM ItemsTruthful == Spec => []ItemsTellTheTruth
<1>1. ASSUME SyncInv
      PROVE  ItemsTellTheTruth
  <2>1. \A a \in Artists : ManifestOK(a)
    BY <1>1 DEF SyncInv, ArtistOK
  <2>2. QED BY <2>1 DEF ManifestOK, ItemsTellTheTruth
<1>2. QED BY <1>1, SyncInvariant, PTL

\* A refresh that succeeded honours every summary discovery looked at, over any
\* interleaving with song workers, crashes, signals and failed items.
THEOREM RefreshHonours == Spec => []SummariesHonoured
<1>1. ASSUME SyncInv, run.status = "SUCCEEDED", run.mode = "REFRESH", NEW a \in Existing
      PROVE  row[a].detail.ver >= run.seen[a] \/ row[a].status = "SOURCE_DELETED"
  <2>1. a \in Artists /\ ManifestOK(a) /\ HonourOK(a) /\ run.discovered
    BY <1>1 DEF SyncInv, ArtistOK, Discovered, Existing
  <2>2. run.items[a] \in {"NONE", "SYNCED", "SOURCE_DELETED"}
    BY <1>1, <2>1 DEF SyncInv, RunInv, TypeOK, Run, ManifestOK
  <2>3. QED BY <1>1, <2>1, <2>2 DEF HonourOK
<1>2. SyncInv => SummariesHonoured
  BY <1>1 DEF SummariesHonoured
<1>3. QED BY <1>2, SyncInvariant, PTL

=============================================================================
