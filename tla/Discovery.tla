------------------------------ MODULE Discovery ------------------------------
(***************************************************************************)
(* The discovery snapshots: users edit their libraries and the song sync   *)
(* changes the catalog, both invalidate; batches started by a timer or by  *)
(* an operator claim stale profiles under a lease, build a ranked snapshot *)
(* and publish it with a compare-and-set; a cleanup job deletes finished   *)
(* snapshots that nobody shows.                                            *)
(*                                                                         *)
(* Every transaction of the code is one action.  A build is four of them:  *)
(* claim, build, publish or fail; between two of them anything may happen. *)
(***************************************************************************)
EXTENDS Naturals, FiniteSets, Sequences

CONSTANTS
  Users,        \* the viewers
  Poisoned,     \* the viewers whose builds always exceed the statement timeout
  Builders,     \* the materialiser processes
  Snapshots,    \* rows of DiscoverySnapshot
  None,         \* SQL NULL
  Limit,        \* --limit: profiles selected by one batch
  Slack,        \* batch budget minus attempt reservation, in units of time
  OwnersLeave,  \* does the owner of a shared playlist delete the account?
  MaxEdits,     \* bound: invalidations per profile
  MaxChanges,   \* bound: catalog changes
  MaxFaults     \* bound: crashes, failed transactions, leases outlived

ASSUME UsersAssumption == Poisoned \subseteq Users /\ IsFiniteSet(Users)
ASSUME NoneAssumption == None \notin Users \cup Snapshots
ASSUME BoundsAssumption == /\ Limit \in Nat \ {0}
                           /\ Slack \in Nat
                           /\ OwnersLeave \in BOOLEAN
                           /\ MaxEdits \in Nat
                           /\ MaxChanges \in Nat
                           /\ MaxFaults \in Nat

VARIABLES
  library,    \* library[u]: revision of u's favourites and playlists; 0 is empty
  catalog,    \* the public songs and the version that announces their changes
  profile,    \* profile[u]: the row of DiscoveryProfile
  older,      \* older[u]: the users whose profile was updated before u's
  snapshot,   \* snapshot[s]: the row of DiscoverySnapshot
  builder,    \* builder[b]: one materialiser process
  faults      \* how many faults have happened

vars == <<library, catalog, profile, older, snapshot, builder, faults>>

-----------------------------------------------------------------------------
\* State

\* data is the revision of the synchronised songs, announced the revision the
\* last increment of version followed.
Catalog == [data : Nat, version : Nat, announced : Nat]

\* lease stands for refreshStartedAt: it names the snapshot of the build that
\* set it.  expired says that it is older than buildLeaseMs.
Profile == [exists : BOOLEAN, libraryVersion : Nat, required : Nat,
            current : Snapshots \cup {None}, lease : Snapshots \cup {None},
            expired : BOOLEAN]

NoProfile == [exists |-> FALSE, libraryVersion |-> 0, required |-> 0,
              current |-> None, lease |-> None, expired |-> FALSE]

Statuses == {"FREE", "BUILDING", "READY", "FAILED"}

\* Once built, seeds and data say what the items were computed from.
Snapshot == [status : Statuses, user : Users \cup {None}, libraryVersion : Nat,
             catalogVersion : Nat, built : BOOLEAN, seeds : Nat, data : Nat]

FreeSnapshot == [status |-> "FREE", user |-> None, libraryVersion |-> 0,
                 catalogVersion |-> 0, built |-> FALSE, seeds |-> 0, data |-> 0]

\* A process is idle, between two profiles of its batch, or inside a rebuild.
Pcs == {"idle", "batch", "building", "publishing", "failing"}

Builder == [pc : Pcs, queue : Seq(Users), elapsed : 0..(Slack + 1),
            snap : Snapshots \cup {None}]

IdleBuilder == [pc |-> "idle", queue |-> << >>, elapsed |-> 0, snap |-> None]

Init == /\ library \in [Users -> {0, 1}]
        /\ catalog = [data |-> 0, version |-> 0, announced |-> 0]
        /\ profile = [u \in Users |-> NoProfile]
        /\ older = [u \in Users |-> {}]
        /\ snapshot = [s \in Snapshots |-> FreeSnapshot]
        /\ builder = [b \in Builders |-> IdleBuilder]
        /\ faults = 0

-----------------------------------------------------------------------------
\* Helpers

MaxOf(m, n) == IF m >= n THEN m ELSE n

\* getSnapshotDiscovery: the profile's list is served and labelled FRESH.
Fresh(u) ==
  LET p == profile[u]
      s == snapshot[p.current]
  IN  /\ p.exists /\ p.current # None
      /\ s.status = "READY"
      /\ s.libraryVersion = p.libraryVersion
      /\ s.catalogVersion >= MaxOf(p.required, catalog.version)

\* The users the batch query reads: a profile, a favourite or a playlist song.
ProfileUsers == {u \in Users : profile[u].exists \/ library[u] > 0}

\* The batch query's view of a list that has to be rebuilt.
Outdated(u) ==
  LET p == profile[u]
      s == snapshot[p.current]
  IN  \/ p.current = None
      \/ s.status # "READY"
      \/ s.libraryVersion # p.libraryVersion
      \/ s.catalogVersion < MaxOf(p.required, catalog.version)

Claimable(u) == profile[u].lease = None \/ profile[u].expired

StaleCandidates == {u \in ProfileUsers : Outdated(u) /\ Claimable(u)}

\* Mutant: youngest profile first.
BeforeDescending(u, v) == \/ ~profile[u].exists
                          \/ profile[v].exists /\ u \notin older[v]

\* ORDER BY "profileUpdatedAt" ASC NULLS FIRST: u may come before v.  Profiles
\* updated by one transaction tie.
Before(u, v) == \/ ~profile[u].exists
                \/ profile[v].exists /\ v \notin older[u]

\* Every write of a profile sets its updatedAt, which makes it the youngest.
Touched(us) ==
  [v \in Users |-> IF v \in us THEN {w \in Users : profile[w].exists} \ us
                               ELSE older[v] \ us]

\* Mutant: the whole reservation is charged for an attempt.
ContinuesOvercharged(b) ==
  builder' = [builder EXCEPT ![b].pc = "batch", ![b].snap = None,
                             ![b].elapsed = builder[b].elapsed + Slack + 1]

\* A process goes on with the next profile of its batch.  An attempt takes at
\* least a unit of time and may take what is left of the budget.
Continues(b) ==
  \E t \in (builder[b].elapsed + 1)..(Slack + 1) :
    builder' = [builder EXCEPT ![b] = [@ EXCEPT !.pc = "batch", !.elapsed = t,
                                                !.snap = None]]

-----------------------------------------------------------------------------
\* Selection

\* The queues a batch may select: the first Limit stale profiles, oldest first.
Queues ==
  LET size == IF Cardinality(StaleCandidates) < Limit
              THEN Cardinality(StaleCandidates) ELSE Limit
  IN  {q \in [1..size -> StaleCandidates] :
         /\ \A i, j \in 1..size : i < j => q[i] # q[j] /\ Before(q[i], q[j])
         /\ \A u \in StaleCandidates :
              (\A i \in 1..size : q[i] # u) => (\A i \in 1..size : Before(q[i], u))}

\* A batch starts and selects its profiles; the transaction takes time.
Select(b) ==
  /\ builder[b].pc = "idle"
  /\ \E q \in Queues :
       builder' = [builder EXCEPT ![b] = [pc |-> "batch", queue |-> q,
                                          elapsed |-> 1, snap |-> None]]
  /\ UNCHANGED <<library, catalog, profile, older, snapshot, faults>>

\* Another attempt fits the budget.
Admitted(b) == /\ builder[b].pc = "batch"
               /\ builder[b].queue # << >>
               /\ builder[b].elapsed <= Slack

\* QUEUE_DRAINED, LIMIT_REACHED, NO_STALE_PROFILES or BUDGET_EXHAUSTED.
EndBatch(b) ==
  /\ builder[b].pc = "batch"
  /\ builder[b].queue = << >> \/ builder[b].elapsed > Slack
  /\ builder' = [builder EXCEPT ![b] = IdleBuilder]
  /\ UNCHANGED <<library, catalog, profile, older, snapshot, faults>>

-----------------------------------------------------------------------------
\* Rebuilding one profile

\* Snapshots of earlier builds of u that are still BUILDING.
Abandoned(u) == {s \in Snapshots : /\ snapshot[s].user = u
                                   /\ snapshot[s].status = "BUILDING"}

\* Mutant: nothing an earlier build left is failed.
TooYoungAlways(u) == Abandoned(u)

\* The abandoned snapshots that failExpiredDiscoverySnapshots may leave alone.
\* A row is created a little later than its lease is taken, so that the lease
\* can be older than buildLeaseMs when the row is not.  After a lease that has
\* expired only the row of that lease is so young.
TooYoung(u) == IF profile[u].lease = None THEN Abandoned(u)
                                          ELSE Abandoned(u) \cap {profile[u].lease}

\* startDiscoverySnapshot: takes the lease, fails what earlier builds left and
\* creates the snapshot, in one transaction.
Claim(b) ==
  /\ Admitted(b)
  /\ LET u == Head(builder[b].queue)
         required == MaxOf(profile[u].required, catalog.version)
     IN  /\ Claimable(u)
         /\ \E s \in Snapshots, young \in SUBSET TooYoung(u) :
              /\ snapshot[s].status = "FREE"
              /\ profile' = [profile EXCEPT ![u] =
                   [@ EXCEPT !.exists = TRUE, !.required = required,
                             !.lease = s, !.expired = FALSE]]
              /\ snapshot' = [r \in Snapshots |->
                   IF r = s
                   THEN [FreeSnapshot EXCEPT !.status = "BUILDING", !.user = u,
                           !.libraryVersion = profile[u].libraryVersion,
                           !.catalogVersion = required]
                   ELSE IF r \in Abandoned(u) \ young
                   THEN [snapshot[r] EXCEPT !.status = "FAILED"]
                   ELSE snapshot[r]]
              /\ builder' = [builder EXCEPT ![b] =
                   [@ EXCEPT !.pc = "building", !.snap = s,
                             !.queue = Tail(builder[b].queue)]]
         /\ older' = Touched({u})
  /\ UNCHANGED <<library, catalog, faults>>

\* Somebody else holds a lease that has not expired: the rebuild returns false.
ClaimRefused(b) ==
  /\ Admitted(b)
  /\ ~Claimable(Head(builder[b].queue))
  /\ \E t \in (builder[b].elapsed + 1)..(Slack + 1) :
       builder' = [builder EXCEPT ![b] =
         [@ EXCEPT !.elapsed = t, !.queue = Tail(builder[b].queue)]]
  /\ UNCHANGED <<library, catalog, profile, older, snapshot, faults>>

\* The claim's transaction fails; the batch counts a failure and goes on.
ClaimFails(b) ==
  /\ Admitted(b)
  /\ faults < MaxFaults
  /\ \E t \in (builder[b].elapsed + 1)..(Slack + 1) :
       builder' = [builder EXCEPT ![b] =
         [@ EXCEPT !.elapsed = t, !.queue = Tail(builder[b].queue)]]
  /\ faults' = faults + 1
  /\ UNCHANGED <<library, catalog, profile, older, snapshot>>

\* Seeds are read and ranked items inserted under one RepeatableRead snapshot.
Build(b) ==
  LET s == builder[b].snap
      u == snapshot[s].user
  IN  /\ builder[b].pc = "building"
      /\ u \notin Poisoned
      /\ snapshot' = [snapshot EXCEPT ![s] =
           [@ EXCEPT !.built = TRUE, !.seeds = library[u], !.data = catalog.data]]
      /\ builder' = [builder EXCEPT ![b].pc = "publishing"]
      /\ UNCHANGED <<library, catalog, profile, older, faults>>

\* The build's transaction exceeds its timeout or loses the database.
BuildFails(b) ==
  /\ builder[b].pc = "building"
  /\ \/ snapshot[builder[b].snap].user \in Poisoned /\ UNCHANGED faults
     \/ faults < MaxFaults /\ faults' = faults + 1
  /\ builder' = [builder EXCEPT ![b].pc = "failing"]
  /\ UNCHANGED <<library, catalog, profile, older, snapshot>>

\* Mutant: the compare-and-set leaves the lease out.
UnchangedButLease(s) ==
  LET p == profile[snapshot[s].user]
  IN  /\ p.libraryVersion = snapshot[s].libraryVersion
      /\ p.required = snapshot[s].catalogVersion

\* The profile row is the one the snapshot s was claimed for.
Unchanged(s) ==
  LET p == profile[snapshot[s].user]
  IN  /\ p.libraryVersion = snapshot[s].libraryVersion
      /\ p.required = snapshot[s].catalogVersion
      /\ p.lease = s

\* publishDiscoverySnapshot finds its snapshot no longer BUILDING.
PublishRefused(b) ==
  /\ builder[b].pc = "publishing"
  /\ snapshot[builder[b].snap].status # "BUILDING"
  /\ Continues(b)
  /\ UNCHANGED <<library, catalog, profile, older, snapshot, faults>>

\* The compare-and-set succeeds: the snapshot becomes the profile's list.
Publish(b) ==
  LET s == builder[b].snap
      u == snapshot[s].user
  IN  /\ builder[b].pc = "publishing"
      /\ snapshot[s].status = "BUILDING"
      /\ Unchanged(s)
      /\ snapshot' = [snapshot EXCEPT ![s].status = "READY"]
      /\ profile' = [profile EXCEPT ![u] =
           [@ EXCEPT !.current = s, !.lease = None, !.expired = FALSE]]
      /\ older' = Touched({u})
      /\ Continues(b)
      /\ UNCHANGED <<library, catalog, faults>>

\* The snapshot fails, and its own lease is released, not another build's.
GiveUp(s) ==
  LET u == snapshot[s].user
  IN  /\ snapshot' = IF snapshot[s].status = "BUILDING"
                     THEN [snapshot EXCEPT ![s].status = "FAILED"] ELSE snapshot
      /\ IF profile[u].lease = s
         THEN /\ profile' = [profile EXCEPT ![u] =
                   [@ EXCEPT !.lease = None, !.expired = FALSE]]
              /\ older' = Touched({u})
         ELSE UNCHANGED <<profile, older>>

\* The compare-and-set fails: STALE_BUILD.
PublishStale(b) ==
  /\ builder[b].pc = "publishing"
  /\ snapshot[builder[b].snap].status = "BUILDING"
  /\ ~Unchanged(builder[b].snap)
  /\ GiveUp(builder[b].snap)
  /\ Continues(b)
  /\ UNCHANGED <<library, catalog, faults>>

\* The publish transaction fails.  Its promise is returned, not awaited, so
\* that the catch around it does not release the lease.
PublishFails(b) ==
  /\ builder[b].pc = "publishing"
  /\ faults < MaxFaults
  /\ faults' = faults + 1
  /\ Continues(b)
  /\ UNCHANGED <<library, catalog, profile, older, snapshot>>

\* failDiscoverySnapshot after a failed build.
Fail(b) ==
  /\ builder[b].pc = "failing"
  /\ GiveUp(builder[b].snap)
  /\ Continues(b)
  /\ UNCHANGED <<library, catalog, faults>>

\* The transaction that reports the failure fails as well.
FailFails(b) ==
  /\ builder[b].pc = "failing"
  /\ faults < MaxFaults
  /\ faults' = faults + 1
  /\ Continues(b)
  /\ UNCHANGED <<library, catalog, profile, older, snapshot>>

\* The process is killed; what it wrote stays.
Crash(b) ==
  /\ builder[b].pc # "idle"
  /\ faults < MaxFaults
  /\ faults' = faults + 1
  /\ builder' = [builder EXCEPT ![b] = IdleBuilder]
  /\ UNCHANGED <<library, catalog, profile, older, snapshot>>

\* The build that took the lease of u is still being worked on.
Held(s) == \E b \in Builders : builder[b].snap = s

\* A lease outlives buildLeaseMs.  A lease whose builder is gone gets there;
\* that a builder at work does is a fault (a stalled process, a skewed clock).
Expire(u) ==
  /\ profile[u].lease # None
  /\ ~profile[u].expired
  /\ IF Held(profile[u].lease)
     THEN faults < MaxFaults /\ faults' = faults + 1
     ELSE UNCHANGED faults
  /\ profile' = [profile EXCEPT ![u].expired = TRUE]
  /\ UNCHANGED <<library, catalog, older, snapshot, builder>>

-----------------------------------------------------------------------------
\* Everybody else

\* deleteExpiredDiscoverySnapshots deletes one row.  Rows are kept for a week,
\* longer than any build.
Cleanup(s) ==
  /\ snapshot[s].status \in {"READY", "FAILED"}
  /\ \A u \in Users : profile[u].current # s
  /\ ~Held(s)
  /\ snapshot' = [snapshot EXCEPT ![s] = FreeSnapshot]
  /\ UNCHANGED <<library, catalog, profile, older, builder, faults>>

\* Mutant: a profile that is being rebuilt anyway is not invalidated.
EditSparesBuilds(us, seen, changed) ==
  /\ us # {}
  /\ \A u \in us : profile[u].libraryVersion < MaxEdits /\ library[u] <= MaxEdits
  /\ library' = [u \in Users |-> IF u \in us /\ changed THEN library[u] + 1
                                                        ELSE library[u]]
  /\ profile' = [u \in Users |->
       IF u \in us /\ profile[u].lease = None
       THEN [profile[u] EXCEPT !.exists = TRUE,
               !.libraryVersion = profile[u].libraryVersion + 1,
               !.required = MaxOf(profile[u].required, seen)]
       ELSE profile[u]]
  /\ older' = Touched(us)
  /\ UNCHANGED <<catalog, snapshot, builder, faults>>

\* A transaction on favourites or playlists and its invalidateDiscoveryProfiles.
\* It may change nothing the seeds depend on.  At Read Committed the catalog
\* version it read may have been overtaken when it writes the profile.
Edit(us, seen, changed) ==
  /\ us # {}
  /\ \A u \in us : profile[u].libraryVersion < MaxEdits
  /\ library' = [u \in Users |-> IF u \in us /\ changed THEN library[u] + 1
                                                        ELSE library[u]]
  /\ profile' = [u \in Users |->
       IF u \in us
       THEN [profile[u] EXCEPT !.exists = TRUE,
               !.libraryVersion = profile[u].libraryVersion + 1,
               !.required = MaxOf(profile[u].required, seen)]
       ELSE profile[u]]
  /\ older' = Touched(us)
  /\ UNCHANGED <<catalog, snapshot, builder, faults>>

\* The owner of a playlist shared with u deletes the account: the playlist goes
\* with it, by the cascade of the foreign keys.
OwnerDeleted(u) ==
  /\ OwnersLeave
  /\ profile[u].exists
  /\ library[u] <= MaxEdits
  /\ library' = [library EXCEPT ![u] = library[u] + 1]
  /\ UNCHANGED <<catalog, profile, older, snapshot, builder, faults>>

\* The sync commits a song whose public projection changed.
CommitSong ==
  /\ catalog.data < MaxChanges
  /\ catalog' = [catalog EXCEPT !.data = catalog.data + 1]
  /\ UNCHANGED <<library, profile, older, snapshot, builder, faults>>

\* invalidateDiscoveryCatalog, when a run that changed songs ends or is
\* interrupted.
Announce ==
  /\ catalog.announced # catalog.data
  /\ catalog' = [catalog EXCEPT !.version = catalog.version + 1,
                                !.announced = catalog.data]
  /\ UNCHANGED <<library, profile, older, snapshot, builder, faults>>

-----------------------------------------------------------------------------
\* Specification

\* What a batch does by itself.
BatchStep(b) ==
  \/ Select(b) \/ EndBatch(b) \/ Claim(b) \/ ClaimRefused(b)
  \/ Build(b) \/ BuildFails(b)
  \/ Publish(b) \/ PublishStale(b) \/ PublishRefused(b) \/ Fail(b)

Fault(b) == ClaimFails(b) \/ PublishFails(b) \/ FailFails(b) \/ Crash(b)

Next ==
  \/ \E b \in Builders : BatchStep(b) \/ Fault(b)
  \/ \E u \in Users : Expire(u) \/ OwnerDeleted(u)
  \/ \E s \in Snapshots : Cleanup(s)
  \/ \E us \in SUBSET Users, seen \in 0..catalog.version, changed \in BOOLEAN :
       Edit(us, seen, changed)
  \/ CommitSong
  \/ Announce

Spec == Init /\ [][Next]_vars

\* Timers start batches and the cleanup again and again, the code of a batch
\* runs on, and a lease nobody holds any more gets old.
Fairness ==
  /\ \A b \in Builders : WF_vars(BatchStep(b))
  /\ \A u \in Users : WF_vars(Expire(u) /\ ~Held(profile[u].lease))
  /\ \A s \in Snapshots : WF_vars(Cleanup(s))

FairSpec == Spec /\ Fairness

-----------------------------------------------------------------------------
\* Properties

\* The variables keep their types.
TypeOK ==
  /\ library \in [Users -> Nat]
  /\ catalog \in Catalog
  /\ profile \in [Users -> Profile]
  /\ older \in [Users -> SUBSET Users]
  /\ snapshot \in [Snapshots -> Snapshot]
  /\ builder \in [Builders -> Builder]
  /\ faults \in Nat

\* A list served as FRESH was computed from the library its viewer has now and
\* from every catalog change announced so far: edits, catalog increments and
\* overtaken builds between the claim and the publication never go unnoticed
\* (the version counters of getSnapshotDiscovery, claim and publish).
FreshIsCurrent ==
  \A u \in Users : Fresh(u) =>
    LET s == snapshot[profile[u].current]
    IN  s.seeds = library[u] /\ s.data >= catalog.announced

\* A list served as FRESH has the seeds live ranking would use.
FreshSeedsMatchLive ==
  \A u \in Users : Fresh(u) => snapshot[profile[u].current].seeds = library[u]

\* Crashed, stalled and half-failed builds leave at most one BUILDING snapshot
\* besides the one of the lease: the next claim fails the rest, which cleanup
\* alone, deleting only READY and FAILED rows, never would.
OrphansBounded ==
  \A u \in Users : Cardinality(Abandoned(u) \ {profile[u].lease}) <= 1

\* The list of u, as the abstract specification sees it.
Shown(u) == IF profile[u].current = None THEN None
            ELSE [seeds |-> snapshot[profile[u].current].seeds,
                  data |-> snapshot[profile[u].current].data]

View == INSTANCE DiscoveryView
          WITH library <- library, catalog <- catalog.data,
               view <- [u \in Users |-> Shown(u)]

\* Lists are replaced as the abstract specification allows: as a whole, from
\* the library of that moment, and never by one from an older catalog, although
\* builders overtake each other, leases expire and rows are cleaned up.
ImplementsView == View!Spec

\* A viewer whose list is outdated gets a FRESH one in the end: crashes, lost
\* leases, batches out of budget and profiles whose builds always fail do not
\* keep the others waiting for ever (the order of the batch query, the lease).
StaleRebuilt ==
  \A u \in Users \ Poisoned : u \in ProfileUsers /\ ~Fresh(u) ~> Fresh(u)

-----------------------------------------------------------------------------
=============================================================================
