--------------------------- MODULE DiscoveryProofs ---------------------------
(***************************************************************************)
(* Theorems about Discovery, for every number of viewers, builders, rows   *)
(* and every bound: types, the truth of the FRESH label, the bound on      *)
(* abandoned builds, and that the materialiser implements DiscoveryView.   *)
(***************************************************************************)
EXTENDS Discovery, SequenceTheorems, FiniteSetTheorems, TLAPS

-----------------------------------------------------------------------------
\* The inductive invariant

\* Counters never overtake what they are compared with.
CountersOrdered ==
  /\ catalog.announced <= catalog.data
  /\ \A u \in Users : profile[u].required <= catalog.version

\* A process inside a rebuild holds one row, which nobody else holds, which is
\* nobody's list, and whose items exist when it goes on to publish.
HoldersApart ==
  /\ \A b \in Builders :
       /\ builder[b].pc \in {"building", "publishing", "failing"} => builder[b].snap # None
       /\ builder[b].snap # None => snapshot[builder[b].snap].status \in {"BUILDING", "FAILED"}
       /\ builder[b].pc = "publishing" => snapshot[builder[b].snap].built
  /\ \A b, c \in Builders :
       builder[b].snap # None /\ builder[b].snap = builder[c].snap => b = c

\* A row carries versions its profile has reached.  Items computed for the
\* versions the profile still has are computed from what those versions count.
RowsDated ==
  \A s \in Snapshots : snapshot[s].status # "FREE" =>
    LET u == snapshot[s].user
    IN  /\ u \in Users
        /\ snapshot[s].libraryVersion <= profile[u].libraryVersion
        /\ snapshot[s].catalogVersion <= profile[u].required
        /\ snapshot[s].built =>
             /\ ~OwnersLeave /\ snapshot[s].libraryVersion = profile[u].libraryVersion
                  => snapshot[s].seeds = library[u]
             /\ snapshot[s].catalogVersion >= catalog.version
                  => snapshot[s].data >= catalog.announced
             /\ snapshot[s].data <= catalog.data

\* A list is a finished row of its viewer; a lease is an unfinished one, and
\* what it has built is no older than the list.
PointersValid ==
  \A u \in Users :
    /\ profile[u].current # None =>
         /\ snapshot[profile[u].current].status = "READY"
         /\ snapshot[profile[u].current].user = u
         /\ snapshot[profile[u].current].built
    /\ profile[u].lease # None =>
         /\ snapshot[profile[u].lease].status = "BUILDING"
         /\ snapshot[profile[u].lease].user = u
         /\ snapshot[profile[u].lease].built /\ profile[u].current # None
              => snapshot[profile[u].current].data <= snapshot[profile[u].lease].data

\* Besides the lease's there is at most one row of u that is BUILDING.
OneAbandoned ==
  \A u \in Users : \A s, r \in Abandoned(u) :
    s # profile[u].lease /\ r # profile[u].lease => s = r


-----------------------------------------------------------------------------
\* Types

LEMMA QueuesAreSequences == ASSUME NEW q \in Queues PROVE q \in Seq(Users)
<1> DEFINE size == IF Cardinality(StaleCandidates) < Limit
                   THEN Cardinality(StaleCandidates) ELSE Limit
<1>1. StaleCandidates \subseteq Users
  BY DEF StaleCandidates, ProfileUsers
<1>2. Cardinality(StaleCandidates) \in Nat
  BY <1>1, UsersAssumption, FS_Subset, FS_CardinalityType
<1>3. size \in Nat
  BY <1>2, BoundsAssumption
<1>4. q \in [1..size -> Users]
  BY <1>1 DEF Queues
<1>5. QED
  BY <1>3, <1>4, SeqDef

\* A record with some fields replaced keeps its type.
LEMMA ProfilesTyped ==
  \A p \in Profile :
    /\ [p EXCEPT !.expired = TRUE] \in Profile
    /\ [p EXCEPT !.lease = None, !.expired = FALSE] \in Profile
    /\ \A s \in Snapshots \cup {None} :
         [p EXCEPT !.current = s, !.lease = None, !.expired = FALSE] \in Profile
    /\ \A s \in Snapshots, n \in Nat :
         [p EXCEPT !.exists = TRUE, !.required = n, !.lease = s, !.expired = FALSE]
           \in Profile
    /\ \A m, n \in Nat :
         [p EXCEPT !.exists = TRUE, !.libraryVersion = m, !.required = n] \in Profile
<1> SUFFICES ASSUME NEW p \in Profile
             PROVE  /\ [p EXCEPT !.expired = TRUE] \in Profile
                    /\ [p EXCEPT !.lease = None, !.expired = FALSE] \in Profile
                    /\ \A s \in Snapshots \cup {None} :
                         [p EXCEPT !.current = s, !.lease = None, !.expired = FALSE]
                           \in Profile
                    /\ \A s \in Snapshots, n \in Nat :
                         [p EXCEPT !.exists = TRUE, !.required = n, !.lease = s,
                                   !.expired = FALSE] \in Profile
                    /\ \A m, n \in Nat :
                         [p EXCEPT !.exists = TRUE, !.libraryVersion = m,
                                   !.required = n] \in Profile
  OBVIOUS
<1>1. [p EXCEPT !.expired = TRUE] \in Profile
  BY DEF Profile
<1>2. [p EXCEPT !.lease = None, !.expired = FALSE] \in Profile
  BY DEF Profile
<1>3. \A s \in Snapshots \cup {None} :
        [p EXCEPT !.current = s, !.lease = None, !.expired = FALSE] \in Profile
  BY DEF Profile
<1>4. ASSUME NEW s \in Snapshots, NEW n \in Nat
      PROVE  [p EXCEPT !.exists = TRUE, !.required = n, !.lease = s,
                       !.expired = FALSE] \in Profile
  BY DEF Profile
<1>5. ASSUME NEW m \in Nat, NEW n \in Nat
      PROVE  [p EXCEPT !.exists = TRUE, !.libraryVersion = m, !.required = n] \in Profile
  BY DEF Profile
<1>6. QED
  BY <1>1, <1>2, <1>3, <1>4, <1>5

LEMMA RowsTyped ==
  /\ FreeSnapshot \in Snapshot
  /\ \A u \in Users, m, n \in Nat :
       [FreeSnapshot EXCEPT !.status = "BUILDING", !.user = u,
          !.libraryVersion = m, !.catalogVersion = n] \in Snapshot
  /\ \A s \in Snapshot :
       /\ \A x \in {"READY", "FAILED"} : [s EXCEPT !.status = x] \in Snapshot
       /\ \A m, n \in Nat :
            [s EXCEPT !.built = TRUE, !.seeds = m, !.data = n] \in Snapshot
<1>1. FreeSnapshot \in Snapshot
  BY DEF FreeSnapshot, Snapshot, Statuses
<1>2. \A u \in Users, m, n \in Nat :
       [FreeSnapshot EXCEPT !.status = "BUILDING", !.user = u,
          !.libraryVersion = m, !.catalogVersion = n] \in Snapshot
  BY DEF FreeSnapshot, Snapshot, Statuses
<1>3. \A s \in Snapshot, x \in {"READY", "FAILED"} : [s EXCEPT !.status = x] \in Snapshot
  BY DEF Snapshot, Statuses
<1>4. \A s \in Snapshot, m, n \in Nat :
        [s EXCEPT !.built = TRUE, !.seeds = m, !.data = n] \in Snapshot
  BY DEF Snapshot
<1>5. QED
  BY <1>1, <1>2, <1>3, <1>4

LEMMA ProcessesTyped ==
  /\ IdleBuilder \in Builder
  /\ \A q \in Seq(Users) :
       [pc |-> "batch", queue |-> q, elapsed |-> 1, snap |-> None] \in Builder
  /\ \A r \in Builder :
       /\ \A pc \in Pcs : [r EXCEPT !.pc = pc] \in Builder
       /\ \A t \in (r.elapsed + 1)..(Slack + 1) :
            [r EXCEPT !.pc = "batch", !.elapsed = t, !.snap = None] \in Builder
       /\ \A t \in (r.elapsed + 1)..(Slack + 1), q \in Seq(Users) :
            [r EXCEPT !.elapsed = t, !.queue = q] \in Builder
       /\ \A s \in Snapshots, q \in Seq(Users) :
            [r EXCEPT !.pc = "building", !.snap = s, !.queue = q] \in Builder
<1>1. IdleBuilder \in Builder
  BY EmptySeq, BoundsAssumption DEF IdleBuilder, Builder, Pcs
<1>2. \A q \in Seq(Users) :
        [pc |-> "batch", queue |-> q, elapsed |-> 1, snap |-> None] \in Builder
  BY BoundsAssumption DEF Builder, Pcs
<1>3. ASSUME NEW r \in Builder
      PROVE  /\ \A pc \in Pcs : [r EXCEPT !.pc = pc] \in Builder
             /\ \A t \in (r.elapsed + 1)..(Slack + 1) :
                  [r EXCEPT !.pc = "batch", !.elapsed = t, !.snap = None] \in Builder
             /\ \A t \in (r.elapsed + 1)..(Slack + 1), q \in Seq(Users) :
                  [r EXCEPT !.elapsed = t, !.queue = q] \in Builder
             /\ \A s \in Snapshots, q \in Seq(Users) :
                  [r EXCEPT !.pc = "building", !.snap = s, !.queue = q] \in Builder
  <2>1. \A t \in (r.elapsed + 1)..(Slack + 1) : t \in 0..(Slack + 1)
    BY BoundsAssumption DEF Builder
  <2>2. \A pc \in Pcs : [r EXCEPT !.pc = pc] \in Builder
    BY DEF Builder
  <2>3. \A t \in 0..(Slack + 1) :
          [r EXCEPT !.pc = "batch", !.elapsed = t, !.snap = None] \in Builder
    BY DEF Builder, Pcs
  <2>4. \A t \in 0..(Slack + 1), q \in Seq(Users) :
          [r EXCEPT !.elapsed = t, !.queue = q] \in Builder
    BY DEF Builder
  <2>5. \A s \in Snapshots, q \in Seq(Users) :
          [r EXCEPT !.pc = "building", !.snap = s, !.queue = q] \in Builder
    BY DEF Builder, Pcs
  <2>6. QED
    BY <2>1, <2>2, <2>3, <2>4, <2>5
<1>4. QED
  BY <1>1, <1>2, <1>3

\* What the helpers of the actions preserve.
LEMMA HelpersTyped ==
  ASSUME TypeOK, NEW b \in Builders
  PROVE  /\ \A us : Touched(us) \in [Users -> SUBSET Users]
         /\ Continues(b) => builder' \in [Builders -> Builder]
         /\ \A s \in Snapshots \cup {None} : GiveUp(s) =>
              /\ snapshot' \in [Snapshots -> Snapshot]
              /\ profile' \in [Users -> Profile]
              /\ older' \in [Users -> SUBSET Users]
<1>1. \A us : Touched(us) \in [Users -> SUBSET Users]
  BY DEF TypeOK, Touched
<1>2. Continues(b) => builder' \in [Builders -> Builder]
  <2>1. \A t \in (builder[b].elapsed + 1)..(Slack + 1) :
          [builder[b] EXCEPT !.pc = "batch", !.elapsed = t, !.snap = None] \in Builder
    BY ProcessesTyped DEF TypeOK
  <2>2. QED
    BY <2>1 DEF TypeOK, Continues
<1>3. ASSUME NEW s \in Snapshots \cup {None}, GiveUp(s)
      PROVE  /\ snapshot' \in [Snapshots -> Snapshot]
             /\ profile' \in [Users -> Profile]
             /\ older' \in [Users -> SUBSET Users]
  <2>1. snapshot' \in [Snapshots -> Snapshot]
    BY <1>3, RowsTyped DEF TypeOK, GiveUp
  <2>2. profile' \in [Users -> Profile]
    <3>1. \A u \in Users :
            [profile[u] EXCEPT !.lease = None, !.expired = FALSE] \in Profile
      BY ProfilesTyped DEF TypeOK
    <3> DEFINE v == snapshot[s].user
    <3>2. \/ profile' = profile
          \/ profile' = [profile EXCEPT ![v] =
                          [profile[v] EXCEPT !.lease = None, !.expired = FALSE]]
      BY <1>3 DEF GiveUp
    <3>3. profile \in [Users -> Profile]
      BY DEF TypeOK
    <3> DEFINE cleared == [profile[v] EXCEPT !.lease = None, !.expired = FALSE]
    <3>4. v \in Users => cleared \in Profile
      BY <3>1
    <3> HIDE DEF v, cleared
    <3>5. CASE profile' = [profile EXCEPT ![v] = cleared]
      BY <3>3, <3>4, <3>5
    <3>6. QED
      BY <3>2, <3>3, <3>5 DEF cleared
  <2>3. older' \in [Users -> SUBSET Users]
    BY <1>3, <1>1 DEF TypeOK, GiveUp
  <2>4. QED
    BY <2>1, <2>2, <2>3
<1>4. QED
  BY <1>1, <1>2, <1>3

\* The user a process turns to next.
LEMMA QueueTyped ==
  ASSUME TypeOK, NEW b \in Builders, Admitted(b)
  PROVE  /\ Head(builder[b].queue) \in Users
         /\ Tail(builder[b].queue) \in Seq(Users)
  BY HeadTailProperties DEF Admitted, TypeOK, Builder

\* What a claim by b does: it takes the row s for the user u.
Claims(b, u, s, young) ==
  LET required == MaxOf(profile[u].required, catalog.version)
  IN  /\ snapshot[s].status = "FREE"
      /\ profile' = [profile EXCEPT ![u] =
           [@ EXCEPT !.exists = TRUE, !.required = required,
                     !.lease = s, !.expired = FALSE]]
      /\ snapshot' = [r \in Snapshots |->
           IF r = s
           THEN [FreeSnapshot EXCEPT !.status = "BUILDING", !.user = u,
                   !.libraryVersion = profile[u].libraryVersion,
                   !.catalogVersion = required]
           ELSE IF r \in Abandoned(u) \ young
           THEN [snapshot[r] EXCEPT !.status = "FAILED"]
           ELSE snapshot[r]]
      /\ builder' = [builder EXCEPT ![b] =
           [@ EXCEPT !.pc = "building", !.snap = s,
                     !.queue = Tail(builder[b].queue)]]

LEMMA ClaimClaims ==
  ASSUME TypeOK, NEW b \in Builders, Claim(b)
  PROVE  \E u \in Users, s \in Snapshots : \E young \in SUBSET TooYoung(u) :
           /\ u = Head(builder[b].queue)
           /\ Claimable(u)
           /\ Claims(b, u, s, young)
<1> DEFINE u == Head(builder[b].queue)
<1>1. u \in Users
  BY QueueTyped DEF Claim
<1>2. Claimable(u)
  BY DEF Claim
<1>3. \E s \in Snapshots : \E young \in SUBSET TooYoung(u) : Claims(b, u, s, young)
  BY DEF Claim, Claims
<1>4. QED
  BY <1>1, <1>2, <1>3

\* Each step of a batch keeps the types.
LEMMA BatchTyped ==
  ASSUME TypeOK, HoldersApart, RowsDated, NEW b \in Builders, BatchStep(b) \/ Fault(b)
  PROVE  TypeOK'
<1> USE DEF TypeOK
<1>1. CASE Select(b)
  <2>1. \A q \in Queues : q \in Seq(Users)
    BY QueuesAreSequences
  <2>2. PICK q \in Queues : builder' = [builder EXCEPT ![b] =
            [pc |-> "batch", queue |-> q, elapsed |-> 1, snap |-> None]]
    BY <1>1 DEF Select
  <2>3. [pc |-> "batch", queue |-> q, elapsed |-> 1, snap |-> None] \in Builder
    BY <2>1, ProcessesTyped
  <2>4. builder' \in [Builders -> Builder]
    BY <2>2, <2>3
  <2>5. QED
    BY <1>1, <2>4 DEF Select
<1>2. CASE EndBatch(b) \/ Crash(b)
  <2>1. builder' \in [Builders -> Builder]
    BY <1>2, ProcessesTyped DEF EndBatch, Crash
  <2>2. QED
    BY <1>2, <2>1 DEF EndBatch, Crash
<1>3. CASE Claim(b)
  <2>1. PICK u \in Users, s \in Snapshots, young \in SUBSET Snapshots :
          u = Head(builder[b].queue) /\ Claims(b, u, s, young)
    BY <1>3, ClaimClaims DEF TooYoung, Abandoned
  <2> DEFINE required == MaxOf(profile[u].required, catalog.version)
  <2>2. required \in Nat /\ profile[u].libraryVersion \in Nat
    BY DEF Profile, Catalog, MaxOf
  <2>3. profile' \in [Users -> Profile]
    BY <2>1, <2>2, ProfilesTyped DEF Claims
  <2>4. snapshot' \in [Snapshots -> Snapshot]
    BY <2>1, <2>2, RowsTyped DEF Claims
  <2>5. builder' \in [Builders -> Builder]
    <3>1. [builder[b] EXCEPT !.pc = "building", !.snap = s,
                             !.queue = Tail(builder[b].queue)] \in Builder
      BY <1>3, QueueTyped, ProcessesTyped DEF Claim
    <3>2. QED
      BY <2>1, <3>1 DEF Claims
  <2>6. older' \in [Users -> SUBSET Users]
    BY <1>3, HelpersTyped DEF Claim
  <2>7. QED
    BY <1>3, <2>3, <2>4, <2>5, <2>6 DEF Claim
<1>4. CASE ClaimRefused(b) \/ ClaimFails(b)
  <2>1. builder' \in [Builders -> Builder]
    <3>1. \A t \in (builder[b].elapsed + 1)..(Slack + 1) :
            [builder[b] EXCEPT !.elapsed = t, !.queue = Tail(builder[b].queue)] \in Builder
      BY <1>4, QueueTyped, ProcessesTyped DEF ClaimRefused, ClaimFails
    <3>2. QED
      BY <1>4, <3>1 DEF ClaimRefused, ClaimFails
  <2>2. faults' \in Nat
    <3>1. CASE ClaimRefused(b)
      BY <3>1 DEF ClaimRefused
    <3>2. CASE ClaimFails(b)
      BY <3>2 DEF ClaimFails
    <3>3. QED
      BY <1>4, <3>1, <3>2
  <2>3. QED
    BY <1>4, <2>1, <2>2 DEF ClaimRefused, ClaimFails
<1>5. CASE Build(b)
  <2> DEFINE s == builder[b].snap
  <2>1. snapshot' \in [Snapshots -> Snapshot]
    <3>1. ASSUME NEW r \in Snapshots, snapshot[r].user \in Users
          PROVE  [snapshot[r] EXCEPT !.built = TRUE, !.seeds = library[snapshot[r].user],
                                     !.data = catalog.data] \in Snapshot
      BY <3>1, RowsTyped DEF Catalog
    <3>2. s \in Snapshots /\ snapshot[s].user \in Users
      BY <1>5 DEF Build, HoldersApart, RowsDated, Builder
    <3>3. QED
      BY <1>5, <3>1, <3>2 DEF Build
  <2>2. builder' \in [Builders -> Builder]
    BY <1>5, ProcessesTyped DEF Build, Pcs
  <2>3. QED
    BY <1>5, <2>1, <2>2 DEF Build
<1>6. CASE BuildFails(b)
  <2>1. builder' \in [Builders -> Builder]
    BY <1>6, ProcessesTyped DEF BuildFails, Pcs
  <2>2. QED
    BY <1>6, <2>1 DEF BuildFails
<1>7. CASE Publish(b)
  <2>1. snapshot' \in [Snapshots -> Snapshot]
    BY <1>7, RowsTyped DEF Publish
  <2>2. profile' \in [Users -> Profile]
    BY <1>7, ProfilesTyped DEF Publish, Builder
  <2>3. QED
    BY <1>7, <2>1, <2>2, HelpersTyped DEF Publish
<1>8. CASE PublishStale(b) \/ Fail(b)
  <2>1. GiveUp(builder[b].snap) /\ Continues(b) /\ UNCHANGED <<library, catalog, faults>>
    BY <1>8 DEF PublishStale, Fail
  <2>2. builder[b].snap \in Snapshots \cup {None}
    BY DEF Builder
  <2>3. QED
    BY <2>1, <2>2, HelpersTyped
<1>9. CASE PublishRefused(b) \/ PublishFails(b) \/ FailFails(b)
  BY <1>9, HelpersTyped DEF PublishRefused, PublishFails, FailFails
<1>10. QED
  BY <1>1, <1>2, <1>3, <1>4, <1>5, <1>6, <1>7, <1>8, <1>9 DEF BatchStep, Fault

\* The initial state has the types, and every step keeps them.
LEMMA TypeInit == Init => TypeOK
<1> SUFFICES ASSUME Init PROVE TypeOK
  OBVIOUS
<1>2. builder \in [Builders -> Builder]
  BY ProcessesTyped DEF Init
<1>3. snapshot \in [Snapshots -> Snapshot]
  BY RowsTyped DEF Init
<1>4. profile \in [Users -> Profile]
  <2>1. NoProfile \in Profile
    BY DEF NoProfile, Profile
  <2>2. QED
    BY <2>1 DEF Init
<1>5. catalog \in Catalog
  BY DEF Init, Catalog
<1>6. library \in [Users -> Nat] /\ older \in [Users -> SUBSET Users] /\ faults \in Nat
  BY DEF Init
<1>7. QED
  BY <1>2, <1>3, <1>4, <1>5, <1>6 DEF TypeOK

LEMMA TypeStep == TypeOK /\ HoldersApart /\ RowsDated /\ [Next]_vars => TypeOK'
<1> SUFFICES ASSUME TypeOK, HoldersApart, RowsDated, [Next]_vars PROVE TypeOK'
  OBVIOUS
<1>1. CASE \E b \in Builders : BatchStep(b) \/ Fault(b)
  BY <1>1, BatchTyped
<1>2. ASSUME NEW u \in Users, Expire(u) PROVE TypeOK'
  <2>1. profile' \in [Users -> Profile]
    BY <1>2 DEF Expire, TypeOK, Profile
  <2>2. QED
    BY <1>2, <2>1 DEF Expire, TypeOK
<1>3. ASSUME NEW u \in Users, OwnerDeleted(u) PROVE TypeOK'
  BY <1>3 DEF OwnerDeleted, TypeOK
<1>4. ASSUME NEW s \in Snapshots, Cleanup(s) PROVE TypeOK'
  <2>1. snapshot' \in [Snapshots -> Snapshot]
    BY <1>4 DEF Cleanup, TypeOK, Snapshot, Statuses, FreeSnapshot
  <2>2. QED
    BY <1>4, <2>1 DEF Cleanup, TypeOK
<1>5. ASSUME NEW us \in SUBSET Users, NEW seen \in 0..catalog.version,
             NEW changed \in BOOLEAN, Edit(us, seen, changed)
      PROVE  TypeOK'
  <2>1. seen \in Nat
    BY DEF TypeOK, Catalog
  <2>2. profile' \in [Users -> Profile]
    <3>1. \A u \in Users :
            [profile[u] EXCEPT !.exists = TRUE,
               !.libraryVersion = profile[u].libraryVersion + 1,
               !.required = MaxOf(profile[u].required, seen)] \in Profile
      <4>1. \A u \in Users : /\ profile[u] \in Profile
                             /\ profile[u].libraryVersion + 1 \in Nat
                             /\ MaxOf(profile[u].required, seen) \in Nat
        BY <2>1 DEF TypeOK, Profile, MaxOf
      <4>2. QED
        BY <4>1, ProfilesTyped
    <3>2. QED
      BY <1>5, <3>1 DEF Edit, TypeOK
  <2>3. library' \in [Users -> Nat]
    <3>1. \A u \in Users : library[u] + 1 \in Nat
      BY DEF TypeOK
    <3>2. CASE changed
      BY <1>5, <3>1, <3>2 DEF Edit, TypeOK
    <3>3. CASE ~changed
      BY <1>5, <3>3 DEF Edit, TypeOK
    <3>4. QED
      BY <3>2, <3>3
  <2>4. older' \in [Users -> SUBSET Users]
    BY <1>5 DEF Edit, TypeOK, Touched
  <2>5. QED
    BY <1>5, <2>2, <2>3, <2>4 DEF Edit, TypeOK
<1>6. CASE CommitSong
  BY <1>6 DEF CommitSong, TypeOK, Catalog
<1>7. CASE Announce
  <2>1. \A c \in Catalog, n \in Nat :
          [c EXCEPT !.version = n, !.announced = c.data] \in Catalog
    BY DEF Catalog
  <2>2. catalog.version + 1 \in Nat
    BY DEF TypeOK, Catalog
  <2>3. QED
    BY <1>7, <2>1, <2>2 DEF Announce, TypeOK
<1>8. CASE UNCHANGED vars
  BY <1>8 DEF vars, TypeOK
<1>9. QED
  BY <1>1, <1>2, <1>3, <1>4, <1>5, <1>6, <1>7, <1>8 DEF Next

-----------------------------------------------------------------------------
\* The rest of the invariant, one kind of step at a time

Rest == CountersOrdered /\ HoldersApart /\ RowsDated /\ PointersValid /\ OneAbandoned

LEMMA RestInit == Init => Rest
<1> SUFFICES ASSUME Init PROVE Rest
  OBVIOUS
<1>1. CountersOrdered
  BY DEF Init, CountersOrdered, NoProfile
<1>2. HoldersApart
  BY DEF Init, HoldersApart, IdleBuilder
<1>3. RowsDated
  BY DEF Init, RowsDated, FreeSnapshot
<1>4. PointersValid
  BY DEF Init, PointersValid, NoProfile
<1>5. OneAbandoned
  BY DEF Init, OneAbandoned, Abandoned, FreeSnapshot
<1>6. QED
  BY <1>1, <1>2, <1>3, <1>4, <1>5 DEF Rest

\* A process that only moves on, lets go of its row or is killed.
MovesOn ==
  \A b \in Builders :
    \/ builder'[b].snap = None /\ builder'[b].pc \in {"idle", "batch"}
    \/ /\ builder'[b].snap = builder[b].snap
       /\ \/ builder'[b].pc = builder[b].pc
          \/ builder'[b].pc = "failing" /\ builder[b].pc = "building"

LEMMA ContinuesMovesOn ==
  ASSUME TypeOK, NEW b \in Builders, Continues(b)
  PROVE  MovesOn /\ builder'[b].snap = None
<1>1. PICK t \in (builder[b].elapsed + 1)..(Slack + 1) :
        builder' = [builder EXCEPT ![b] = [builder[b] EXCEPT !.pc = "batch",
                                             !.elapsed = t, !.snap = None]]
  BY DEF Continues
<1>2. builder[b] \in Builder /\ builder \in [Builders -> Builder]
  BY DEF TypeOK
<1>3. builder'[b].snap = None /\ builder'[b].pc = "batch"
  BY <1>1, <1>2 DEF Builder
<1>4. \A c \in Builders : c # b => builder'[c] = builder[c]
  BY <1>1, <1>2
<1>5. QED
  BY <1>3, <1>4 DEF MovesOn

LEMMA LocalStep ==
  ASSUME TypeOK, Rest, UNCHANGED <<library, catalog, profile, snapshot>>, MovesOn
  PROVE  Rest'
<1>1. HoldersApart'
  BY DEF Rest, HoldersApart, MovesOn
<1>2. CountersOrdered' /\ RowsDated' /\ PointersValid'
  BY DEF Rest, CountersOrdered, RowsDated, PointersValid
<1>3. OneAbandoned'
  BY DEF Rest, OneAbandoned, Abandoned
<1>4. QED
  BY <1>1, <1>2, <1>3 DEF Rest

LEMMA BatchLocal ==
  ASSUME TypeOK, NEW b \in Builders,
         \/ Select(b) \/ EndBatch(b) \/ ClaimRefused(b) \/ ClaimFails(b)
         \/ BuildFails(b) \/ PublishRefused(b) \/ PublishFails(b) \/ FailFails(b)
         \/ Crash(b)
  PROVE  MovesOn /\ UNCHANGED <<library, catalog, profile, snapshot>>
<1> builder[b] \in Builder /\ builder \in [Builders -> Builder]
  BY DEF TypeOK
<1>1. CASE Select(b)
  BY <1>1 DEF Select, MovesOn
<1>2. CASE EndBatch(b) \/ Crash(b)
  BY <1>2 DEF EndBatch, Crash, IdleBuilder, MovesOn
<1>3. CASE ClaimRefused(b) \/ ClaimFails(b)
  <2>1. PICK t \in (builder[b].elapsed + 1)..(Slack + 1) :
          builder' = [builder EXCEPT ![b] = [builder[b] EXCEPT !.elapsed = t,
                                               !.queue = Tail(builder[b].queue)]]
    BY <1>3 DEF ClaimRefused, ClaimFails
  <2>2. builder'[b].snap = builder[b].snap /\ builder'[b].pc = builder[b].pc
    BY <2>1 DEF Builder
  <2>3. \A c \in Builders : c # b => builder'[c] = builder[c]
    BY <2>1
  <2>4. QED
    BY <1>3, <2>2, <2>3 DEF ClaimRefused, ClaimFails, MovesOn
<1>4. CASE BuildFails(b)
  BY <1>4 DEF BuildFails, MovesOn, Builder
<1>5. CASE PublishRefused(b) \/ PublishFails(b) \/ FailFails(b)
  BY <1>5, ContinuesMovesOn DEF PublishRefused, PublishFails, FailFails
<1>6. QED
  BY <1>1, <1>2, <1>3, <1>4, <1>5

\* A claim: a free row becomes the lease of its user, and of what earlier
\* builds left of that user's at most one row goes on BUILDING.
LEMMA ClaimStep ==
  ASSUME TypeOK, TypeOK', Rest, NEW b \in Builders, Claim(b)
  PROVE  Rest'
<1>1. PICK u \in Users, s \in Snapshots : \E young \in SUBSET TooYoung(u) :
        Claimable(u) /\ Claims(b, u, s, young)
  BY ClaimClaims
<1>2. PICK young \in SUBSET TooYoung(u) : Claims(b, u, s, young)
  BY <1>1
<1> DEFINE required == MaxOf(profile[u].required, catalog.version)
<1>3. UNCHANGED <<library, catalog>>
  BY DEF Claim
<1>4. /\ profile'[u].required = required /\ profile'[u].lease = s
      /\ profile'[u].libraryVersion = profile[u].libraryVersion
      /\ profile'[u].current = profile[u].current
      /\ \A v \in Users : v # u => profile'[v] = profile[v]
  BY <1>2 DEF Claims, TypeOK, Profile
<1>5. /\ snapshot'[s].status = "BUILDING" /\ snapshot'[s].user = u
      /\ snapshot'[s].libraryVersion = profile[u].libraryVersion
      /\ snapshot'[s].catalogVersion = required /\ ~snapshot'[s].built
  BY <1>2 DEF Claims, FreeSnapshot
<1>6. \A r \in Snapshots : r # s =>
        /\ snapshot'[r].user = snapshot[r].user
        /\ snapshot'[r].libraryVersion = snapshot[r].libraryVersion
        /\ snapshot'[r].catalogVersion = snapshot[r].catalogVersion
        /\ snapshot'[r].built = snapshot[r].built
        /\ snapshot'[r].seeds = snapshot[r].seeds
        /\ snapshot'[r].data = snapshot[r].data
        /\ snapshot'[r].status = IF r \in Abandoned(u) \ young THEN "FAILED"
                                 ELSE snapshot[r].status
  <2> SUFFICES ASSUME NEW r \in Snapshots, r # s
               PROVE  /\ snapshot'[r].user = snapshot[r].user
                      /\ snapshot'[r].libraryVersion = snapshot[r].libraryVersion
                      /\ snapshot'[r].catalogVersion = snapshot[r].catalogVersion
                      /\ snapshot'[r].built = snapshot[r].built
                      /\ snapshot'[r].seeds = snapshot[r].seeds
                      /\ snapshot'[r].data = snapshot[r].data
                      /\ snapshot'[r].status = IF r \in Abandoned(u) \ young THEN "FAILED"
                                               ELSE snapshot[r].status
    OBVIOUS
  <2>1. snapshot[r] \in Snapshot
    BY DEF TypeOK
  <2>2. snapshot'[r] = IF r \in Abandoned(u) \ young
                       THEN [snapshot[r] EXCEPT !.status = "FAILED"] ELSE snapshot[r]
    BY <1>2 DEF Claims
  <2>3. QED
    BY <2>1, <2>2 DEF Snapshot
<1>7. /\ builder'[b].snap = s /\ builder'[b].pc = "building"
      /\ \A c \in Builders : c # b => builder'[c] = builder[c]
  BY <1>2 DEF Claims, TypeOK, Builder
<1>8. snapshot[s].status = "FREE"
  BY <1>2 DEF Claims
<1>9. /\ catalog.version \in Nat
      /\ \A v \in Users : profile[v] \in Profile
      /\ \A r \in Snapshots : snapshot[r] \in Snapshot
      /\ \A c \in Builders : builder[c] \in Builder
  BY DEF TypeOK, Catalog
<1>10. required = IF catalog.version >= profile[u].required
                  THEN catalog.version ELSE profile[u].required
  BY <1>9 DEF MaxOf, Profile
<1>11. required >= profile[u].required /\ required = catalog.version
  BY <1>9, <1>10 DEF Profile, Rest, CountersOrdered
<1> HIDE DEF required
<1>12. CountersOrdered'
  BY <1>3, <1>4, <1>9, <1>11 DEF Rest, CountersOrdered, Profile
<1>13. HoldersApart'
  <2>1. \A c \in Builders : c # b => builder[c].snap # s
    BY <1>8, NoneAssumption DEF Rest, HoldersApart
  <2>2. \A c \in Builders : c # b /\ builder[c].snap # None =>
          /\ builder[c].snap \in Snapshots
          /\ snapshot'[builder[c].snap].status \in {"BUILDING", "FAILED"}
          /\ snapshot'[builder[c].snap].built = snapshot[builder[c].snap].built
    BY <1>6, <1>9, <2>1 DEF Rest, HoldersApart, Builder
  <2>3. s # None
    BY NoneAssumption
  <2>4. QED
    BY <1>5, <1>7, <2>1, <2>2, <2>3 DEF Rest, HoldersApart
<1>14. RowsDated'
  <2> SUFFICES ASSUME NEW r \in Snapshots, snapshot'[r].status # "FREE"
               PROVE  LET v == snapshot'[r].user
                      IN  /\ v \in Users
                          /\ snapshot'[r].libraryVersion <= profile'[v].libraryVersion
                          /\ snapshot'[r].catalogVersion <= profile'[v].required
                          /\ snapshot'[r].built =>
                               /\ ~OwnersLeave /\ snapshot'[r].libraryVersion = profile'[v].libraryVersion
                                    => snapshot'[r].seeds = library'[v]
                               /\ snapshot'[r].catalogVersion >= catalog'.version
                                    => snapshot'[r].data >= catalog'.announced
                               /\ snapshot'[r].data <= catalog'.data
    BY DEF RowsDated
  <2>1. CASE r = s
    BY <2>1, <1>4, <1>5, <1>9, <1>11 DEF Profile
  <2>2. CASE r # s
    <3>1. snapshot[r].status # "FREE" /\ snapshot[r].user \in Users
      BY <2>2, <1>6 DEF Rest, RowsDated, Abandoned
    <3>2. /\ snapshot[r].libraryVersion <= profile'[snapshot[r].user].libraryVersion
          /\ snapshot[r].catalogVersion <= profile'[snapshot[r].user].required
          /\ profile'[snapshot[r].user].libraryVersion = profile[snapshot[r].user].libraryVersion
      BY <3>1, <1>4, <1>9, <1>11 DEF Rest, RowsDated, Profile, Snapshot
    <3>3. QED
      BY <2>2, <3>1, <3>2, <1>3, <1>6 DEF Rest, RowsDated
  <2>3. QED
    BY <2>1, <2>2
<1>15. PointersValid'
  <2> SUFFICES ASSUME NEW v \in Users
               PROVE  /\ profile'[v].current # None =>
                           /\ snapshot'[profile'[v].current].status = "READY"
                           /\ snapshot'[profile'[v].current].user = v
                           /\ snapshot'[profile'[v].current].built
                      /\ profile'[v].lease # None =>
                           /\ snapshot'[profile'[v].lease].status = "BUILDING"
                           /\ snapshot'[profile'[v].lease].user = v
                           /\ snapshot'[profile'[v].lease].built /\ profile'[v].current # None
                                => snapshot'[profile'[v].current].data
                                     <= snapshot'[profile'[v].lease].data
    BY DEF PointersValid
  <2>1. ASSUME profile[v].current # None
        PROVE  /\ profile[v].current \in Snapshots /\ profile[v].current # s
               /\ snapshot'[profile[v].current].status = "READY"
               /\ snapshot'[profile[v].current].user = v
               /\ snapshot'[profile[v].current].built
               /\ snapshot'[profile[v].current].data = snapshot[profile[v].current].data
    BY <2>1, <1>6, <1>8, <1>9 DEF Rest, PointersValid, Profile, Abandoned
  <2>2. profile'[v].current = profile[v].current
    BY <1>4
  <2>3. CASE v = u
    BY <2>1, <2>2, <2>3, <1>4, <1>5
  <2>4. CASE v # u
    <3>1. ASSUME profile[v].lease # None
          PROVE  /\ profile[v].lease \in Snapshots /\ profile[v].lease # s
                 /\ snapshot'[profile[v].lease].status = "BUILDING"
                 /\ snapshot'[profile[v].lease].user = v
                 /\ snapshot'[profile[v].lease].built = snapshot[profile[v].lease].built
                 /\ snapshot'[profile[v].lease].data = snapshot[profile[v].lease].data
      BY <2>4, <3>1, <1>6, <1>8, <1>9 DEF Rest, PointersValid, Profile, Abandoned
    <3>2. QED
      BY <2>1, <2>2, <2>4, <3>1, <1>4 DEF Rest, PointersValid
  <2>5. QED
    BY <2>3, <2>4
<1>16. OneAbandoned'
  <2>1. \A v \in Users, r \in Snapshots :
          r \in Abandoned(v)' <=> \/ r = s /\ v = u
                                  \/ r # s /\ r \in Abandoned(v) /\ (v = u => r \in young)
    BY <1>5, <1>6 DEF Abandoned
  <2>2. \A r, q \in young : r = q
    BY NoneAssumption DEF TooYoung, Rest, OneAbandoned, Abandoned
  <2>3. young \subseteq Snapshots /\ \A v \in Users : Abandoned(v)' \subseteq Snapshots
    BY DEF TooYoung, Abandoned
  <2>4. QED
    BY <1>4, <2>1, <2>2, <2>3 DEF Rest, OneAbandoned
<1>17. QED
  BY <1>12, <1>13, <1>14, <1>15, <1>16 DEF Rest

\* The row a process inside a rebuild holds.
LEMMA HeldRow ==
  ASSUME TypeOK, Rest, NEW b \in Builders,
         builder[b].pc \in {"building", "publishing", "failing"}
  PROVE  /\ builder[b].snap \in Snapshots
         /\ snapshot[builder[b].snap].status \in {"BUILDING", "FAILED"}
         /\ snapshot[builder[b].snap].user \in Users
         /\ \A c \in Builders : c # b => builder[c].snap # builder[b].snap
         /\ \A u \in Users : profile[u].current # builder[b].snap
<1>1. builder[b].snap \in Snapshots
  BY DEF TypeOK, Rest, HoldersApart, Builder
<1>2. snapshot[builder[b].snap].status \in {"BUILDING", "FAILED"}
  BY <1>1, NoneAssumption DEF Rest, HoldersApart
<1>3. snapshot[builder[b].snap].user \in Users
  BY <1>1, <1>2 DEF Rest, RowsDated
<1>4. \A c \in Builders : c # b => builder[c].snap # builder[b].snap
  BY <1>1, NoneAssumption DEF Rest, HoldersApart
<1>5. \A u \in Users : profile[u].current # builder[b].snap
  BY <1>1, <1>2, NoneAssumption DEF Rest, PointersValid
<1>6. QED
  BY <1>1, <1>2, <1>3, <1>4, <1>5

\* A build fills its row from the library and the catalog of that moment.
LEMMA BuildStep ==
  ASSUME TypeOK, Rest, NEW b \in Builders, Build(b)
  PROVE  Rest'
<1> DEFINE s == builder[b].snap
           u == snapshot[s].user
<1>1. /\ s \in Snapshots /\ u \in Users
      /\ snapshot[s].status \in {"BUILDING", "FAILED"}
      /\ \A c \in Builders : c # b => builder[c].snap # s
      /\ \A v \in Users : profile[v].current # s
  BY HeldRow DEF Build
<1>2. UNCHANGED <<library, catalog, profile>>
  BY DEF Build
<1>3. /\ snapshot[s] \in Snapshot /\ catalog \in Catalog
      /\ \A v \in Users : profile[v] \in Profile
      /\ \A r \in Snapshots : snapshot[r] \in Snapshot
      /\ \A c \in Builders : builder[c] \in Builder
  BY <1>1 DEF TypeOK
<1>4. /\ snapshot'[s] = [snapshot[s] EXCEPT !.built = TRUE, !.seeds = library[u],
                                            !.data = catalog.data]
      /\ \A r \in Snapshots : r # s => snapshot'[r] = snapshot[r]
  BY <1>1 DEF Build, TypeOK
<1>5. /\ snapshot'[s].built /\ snapshot'[s].seeds = library[u]
      /\ snapshot'[s].data = catalog.data
      /\ snapshot'[s].status = snapshot[s].status /\ snapshot'[s].user = u
      /\ snapshot'[s].libraryVersion = snapshot[s].libraryVersion
      /\ snapshot'[s].catalogVersion = snapshot[s].catalogVersion
  BY <1>3, <1>4 DEF Snapshot
<1> HIDE DEF s
<1>a. \A r \in Snapshots :
         /\ snapshot'[r].status = snapshot[r].status /\ snapshot'[r].user = snapshot[r].user
         /\ snapshot'[r].libraryVersion = snapshot[r].libraryVersion
         /\ snapshot'[r].catalogVersion = snapshot[r].catalogVersion
  BY <1>4, <1>5
<1> USE DEF s
<1>6. /\ builder'[b].snap = s /\ builder'[b].pc = "publishing"
      /\ \A c \in Builders : c # b => builder'[c] = builder[c]
  BY <1>3 DEF Build, TypeOK, Builder
<1> HIDE DEF s, u
<1>7. CountersOrdered'
  BY <1>2 DEF Rest, CountersOrdered
<1>8. HoldersApart'
  <2>1. \A c \in Builders : c # b /\ builder[c].snap # None =>
          builder[c].snap \in Snapshots /\ snapshot'[builder[c].snap] = snapshot[builder[c].snap]
    BY <1>1, <1>3, <1>4 DEF Builder
  <2>2. \A c \in Builders : c # b => builder'[c] = builder[c]
    BY <1>6
  <2>3. ASSUME NEW c \in Builders
        PROVE  /\ builder'[c].pc \in {"building", "publishing", "failing"}
                    => builder'[c].snap # None
               /\ builder'[c].snap # None =>
                    snapshot'[builder'[c].snap].status \in {"BUILDING", "FAILED"}
               /\ builder'[c].pc = "publishing" => snapshot'[builder'[c].snap].built
    <3>1. CASE c = b
      BY <3>1, <1>1, <1>5, <1>6, NoneAssumption
    <3>2. CASE c # b
      <4>1. builder'[c] = builder[c]
        BY <3>2, <2>2
      <4>2. CASE builder[c].snap = None
        BY <4>1, <4>2 DEF Rest, HoldersApart
      <4>3. CASE builder[c].snap # None
        BY <3>2, <4>1, <4>3, <2>1 DEF Rest, HoldersApart
      <4>4. QED
        BY <4>2, <4>3
    <3>3. QED
      BY <3>1, <3>2
  <2>4. ASSUME NEW c \in Builders, NEW d \in Builders,
               builder'[c].snap # None, builder'[c].snap = builder'[d].snap
        PROVE  c = d
    BY <2>2, <2>4, <1>1, <1>6 DEF Rest, HoldersApart
  <2>5. QED
    BY <2>3, <2>4 DEF HoldersApart
<1>9. RowsDated'
  <2>1. catalog.data >= catalog.announced /\ catalog.data <= catalog.data
    BY <1>3 DEF Rest, CountersOrdered, Catalog
  <2> SUFFICES ASSUME NEW r \in Snapshots, snapshot'[r].status # "FREE"
               PROVE  LET v == snapshot'[r].user
                      IN  /\ v \in Users
                          /\ snapshot'[r].libraryVersion <= profile'[v].libraryVersion
                          /\ snapshot'[r].catalogVersion <= profile'[v].required
                          /\ snapshot'[r].built =>
                               /\ ~OwnersLeave /\ snapshot'[r].libraryVersion = profile'[v].libraryVersion
                                    => snapshot'[r].seeds = library'[v]
                               /\ snapshot'[r].catalogVersion >= catalog'.version
                                    => snapshot'[r].data >= catalog'.announced
                               /\ snapshot'[r].data <= catalog'.data
    BY DEF RowsDated
  <2>2. CASE r = s
    BY <2>1, <2>2, <1>1, <1>2, <1>5, <1>a DEF Rest, RowsDated
  <2>3. CASE r # s
    BY <2>3, <1>2, <1>4, <1>a DEF Rest, RowsDated
  <2>4. QED
    BY <2>2, <2>3
<1>10. PointersValid'
  <2>1. \A v \in Users : profile[v].current # None =>
          snapshot[profile[v].current].data <= catalog.data
    BY <1>3 DEF Rest, PointersValid, RowsDated, Profile
  <2>2. \A v \in Users : /\ profile[v].current # None => profile[v].current \in Snapshots
                         /\ profile[v].lease # None => profile[v].lease \in Snapshots
    BY <1>3 DEF Profile
  <2>3. \A v \in Users : profile[v].current # None =>
          snapshot'[profile[v].current] = snapshot[profile[v].current]
    BY <2>2, <1>1, <1>4
  <2>4. \A v \in Users : profile[v].lease # None =>
          /\ snapshot'[profile[v].lease].status = snapshot[profile[v].lease].status
          /\ snapshot'[profile[v].lease].user = snapshot[profile[v].lease].user
          /\ \/ snapshot'[profile[v].lease] = snapshot[profile[v].lease]
             \/ snapshot'[profile[v].lease].data = catalog.data
    BY <2>2, <1>4, <1>5, <1>a
  <2>5. QED
    BY <2>1, <2>3, <2>4, <1>2 DEF Rest, PointersValid
<1>11. OneAbandoned'
  <2>1. \A v \in Users : Abandoned(v)' = Abandoned(v)
    BY <1>a DEF Abandoned
  <2>2. QED
    BY <2>1, <1>2 DEF Rest, OneAbandoned
<1>12. QED
  BY <1>7, <1>8, <1>9, <1>10, <1>11 DEF Rest

\* The compare-and-set succeeds: the row of the lease becomes the list.
LEMMA PublishStep ==
  ASSUME TypeOK, Rest, NEW b \in Builders, Publish(b)
  PROVE  Rest'
<1> DEFINE s == builder[b].snap
           u == snapshot[s].user
<1>1. /\ s \in Snapshots /\ u \in Users
      /\ snapshot[s].status = "BUILDING" /\ snapshot[s].built
      /\ \A c \in Builders : c # b => builder[c].snap # s
      /\ profile[u].lease = s
  BY HeldRow DEF Publish, Unchanged, Rest, HoldersApart
<1>2. UNCHANGED <<library, catalog>>
  BY DEF Publish
<1>3. /\ snapshot[s] \in Snapshot /\ catalog \in Catalog
      /\ \A v \in Users : profile[v] \in Profile
      /\ \A r \in Snapshots : snapshot[r] \in Snapshot
      /\ \A c \in Builders : builder[c] \in Builder
  BY <1>1 DEF TypeOK
<1>4. /\ snapshot'[s] = [snapshot[s] EXCEPT !.status = "READY"]
      /\ \A r \in Snapshots : r # s => snapshot'[r] = snapshot[r]
      /\ profile'[u] = [profile[u] EXCEPT !.current = s, !.lease = None,
                                          !.expired = FALSE]
      /\ \A v \in Users : v # u => profile'[v] = profile[v]
  BY <1>1 DEF Publish, TypeOK
<1>5. /\ snapshot'[s].status = "READY"
      /\ snapshot'[s].built = snapshot[s].built /\ snapshot'[s].seeds = snapshot[s].seeds
      /\ snapshot'[s].data = snapshot[s].data /\ snapshot'[s].user = u
      /\ snapshot'[s].libraryVersion = snapshot[s].libraryVersion
      /\ snapshot'[s].catalogVersion = snapshot[s].catalogVersion
  BY <1>3, <1>4 DEF Snapshot
<1> HIDE DEF s
<1>a. \A r \in Snapshots :
         /\ snapshot'[r].user = snapshot[r].user
         /\ snapshot'[r].libraryVersion = snapshot[r].libraryVersion
         /\ snapshot'[r].catalogVersion = snapshot[r].catalogVersion
         /\ snapshot'[r].built = snapshot[r].built
         /\ snapshot'[r].seeds = snapshot[r].seeds
         /\ snapshot'[r].data = snapshot[r].data
         /\ snapshot'[r].status = IF r = s THEN "READY" ELSE snapshot[r].status
  BY <1>4, <1>5
<1> USE DEF s
<1>6. /\ profile'[u].current = s /\ profile'[u].lease = None
      /\ profile'[u].libraryVersion = profile[u].libraryVersion
      /\ profile'[u].required = profile[u].required
  BY <1>1, <1>3, <1>4 DEF Profile
<1>7. MovesOn /\ builder'[b].snap = None
  BY ContinuesMovesOn DEF Publish
<1> HIDE DEF s, u
<1>8. CountersOrdered'
  BY <1>2, <1>4, <1>6 DEF Rest, CountersOrdered
<1>9. HoldersApart'
  <2>1. \A c \in Builders : builder'[c].snap # None =>
          /\ c # b /\ builder'[c].snap = builder[c].snap /\ builder[c].snap \in Snapshots
          /\ snapshot'[builder[c].snap] = snapshot[builder[c].snap]
    BY <1>1, <1>3, <1>4, <1>7 DEF MovesOn, Builder
  <2>2. QED
    BY <2>1, <1>7 DEF Rest, HoldersApart, MovesOn
<1>10. RowsDated'
  <2>1. \A v \in Users : /\ profile'[v].libraryVersion = profile[v].libraryVersion
                         /\ profile'[v].required = profile[v].required
    BY <1>4, <1>6
  <2>2. QED
    BY <2>1, <1>1, <1>2, <1>a DEF Rest, RowsDated
<1>11. PointersValid'
  <2>1. \A v \in Users : v # u =>
          /\ profile[v].current # None =>
               profile[v].current \in Snapshots /\ profile[v].current # s
          /\ profile[v].lease # None =>
               profile[v].lease \in Snapshots /\ profile[v].lease # s
    BY <1>1, <1>3 DEF Rest, PointersValid, Profile, u
  <2>2. ASSUME NEW v \in Users, v # u
        PROVE  /\ profile'[v].current = profile[v].current
               /\ profile'[v].lease = profile[v].lease
               /\ profile[v].current # None =>
                    snapshot'[profile[v].current] = snapshot[profile[v].current]
               /\ profile[v].lease # None =>
                    snapshot'[profile[v].lease] = snapshot[profile[v].lease]
    BY <2>1, <2>2, <1>4
  <2>3. snapshot[s].user = u
    BY DEF u
  <2>4. ASSUME NEW v \in Users
        PROVE  /\ profile'[v].current # None =>
                    /\ snapshot'[profile'[v].current].status = "READY"
                    /\ snapshot'[profile'[v].current].user = v
                    /\ snapshot'[profile'[v].current].built
               /\ profile'[v].lease # None =>
                    /\ snapshot'[profile'[v].lease].status = "BUILDING"
                    /\ snapshot'[profile'[v].lease].user = v
                    /\ snapshot'[profile'[v].lease].built /\ profile'[v].current # None
                         => snapshot'[profile'[v].current].data
                              <= snapshot'[profile'[v].lease].data
    <3>1. CASE v = u
      BY <3>1, <2>3, <1>1, <1>5, <1>6
    <3>2. CASE v # u
      BY <3>2, <2>2 DEF Rest, PointersValid
    <3>3. QED
      BY <3>1, <3>2
  <2>5. QED
    BY <2>4 DEF PointersValid
<1>12. OneAbandoned'
  <2>1. \A v \in Users : Abandoned(v)' = Abandoned(v) \ {s}
    BY <1>a DEF Abandoned
  <2>2. \A v \in Users : v # u => profile'[v].lease = profile[v].lease
    BY <1>4
  <2>3. \A x, y \in Abandoned(u) : x # s /\ y # s => x = y
    BY <1>1 DEF Rest, OneAbandoned
  <2>4. QED
    BY <2>1, <2>2, <2>3 DEF Rest, OneAbandoned
<1>13. QED
  BY <1>8, <1>9, <1>10, <1>11, <1>12 DEF Rest

\* A build that gives up fails its row and lets go of its own lease only.
LEMMA GiveUpStep ==
  ASSUME TypeOK, Rest, NEW b \in Builders, PublishStale(b) \/ Fail(b)
  PROVE  Rest'
<1> DEFINE s == builder[b].snap
           u == snapshot[s].user
<1>1. /\ s \in Snapshots /\ u \in Users
      /\ snapshot[s].status \in {"BUILDING", "FAILED"}
  BY HeldRow DEF PublishStale, Fail
<1>2. GiveUp(s) /\ Continues(b) /\ UNCHANGED <<library, catalog>>
  BY DEF PublishStale, Fail
<1>3. /\ \A v \in Users : profile[v] \in Profile
      /\ \A r \in Snapshots : snapshot[r] \in Snapshot
      /\ \A c \in Builders : builder[c] \in Builder
  BY DEF TypeOK
<1>4. \A r \in Snapshots :
        /\ snapshot'[r].user = snapshot[r].user
        /\ snapshot'[r].libraryVersion = snapshot[r].libraryVersion
        /\ snapshot'[r].catalogVersion = snapshot[r].catalogVersion
        /\ snapshot'[r].built = snapshot[r].built
        /\ snapshot'[r].seeds = snapshot[r].seeds
        /\ snapshot'[r].data = snapshot[r].data
        /\ snapshot'[r].status = IF r = s THEN "FAILED" ELSE snapshot[r].status
  <2>1. snapshot' = IF snapshot[s].status = "BUILDING"
                    THEN [snapshot EXCEPT ![s].status = "FAILED"] ELSE snapshot
    BY <1>2 DEF GiveUp
  <2>2. \A r \in Snapshots : r # s => snapshot'[r] = snapshot[r]
    BY <2>1 DEF TypeOK
  <2>4. /\ snapshot'[s].user = snapshot[s].user
        /\ snapshot'[s].libraryVersion = snapshot[s].libraryVersion
        /\ snapshot'[s].catalogVersion = snapshot[s].catalogVersion
        /\ snapshot'[s].built = snapshot[s].built
        /\ snapshot'[s].seeds = snapshot[s].seeds
        /\ snapshot'[s].data = snapshot[s].data
        /\ snapshot'[s].status = "FAILED"
    <3>1. snapshot[s] \in Snapshot
      BY <1>1, <1>3
    <3>2. CASE snapshot[s].status = "BUILDING"
      <4>1. snapshot' = [snapshot EXCEPT ![s] = [snapshot[s] EXCEPT !.status = "FAILED"]]
        BY <2>1, <3>2
      <4>2. snapshot'[s] = [snapshot[s] EXCEPT !.status = "FAILED"]
        BY <4>1, <1>1 DEF TypeOK
      <4>3. QED
        BY <3>1, <4>2 DEF Snapshot
    <3>3. CASE snapshot[s].status # "BUILDING"
      BY <3>3, <2>1, <1>1
    <3>4. QED
      BY <3>2, <3>3
  <2> HIDE DEF s
  <2>5. QED
    BY <2>2, <2>4
<1>5. /\ \A v \in Users :
           /\ profile'[v].libraryVersion = profile[v].libraryVersion
           /\ profile'[v].required = profile[v].required
           /\ profile'[v].current = profile[v].current
           /\ profile'[v].lease = IF v = u /\ profile[v].lease = s THEN None
                                  ELSE profile[v].lease
  <2>1. CASE profile[u].lease = s
    <3>1. /\ profile'[u] = [profile[u] EXCEPT !.lease = None, !.expired = FALSE]
          /\ \A v \in Users : v # u => profile'[v] = profile[v]
      BY <1>1, <1>2, <2>1 DEF GiveUp, TypeOK
    <3>2. /\ profile'[u].libraryVersion = profile[u].libraryVersion
          /\ profile'[u].required = profile[u].required
          /\ profile'[u].current = profile[u].current
          /\ profile'[u].lease = None
      BY <1>1, <1>3, <3>1 DEF Profile
    <3> HIDE DEF s, u
    <3>3. QED
      BY <2>1, <3>1, <3>2
  <2>2. CASE profile[u].lease # s
    BY <1>2, <2>2 DEF GiveUp
  <2>3. QED
    BY <2>1, <2>2
<1>6. MovesOn /\ builder'[b].snap = None
  BY <1>2, ContinuesMovesOn
<1>7. CountersOrdered'
  BY <1>2, <1>5 DEF Rest, CountersOrdered
<1>8. HoldersApart'
  <2>1. \A c \in Builders : builder'[c].snap # None =>
          builder'[c].snap = builder[c].snap /\ builder[c].snap \in Snapshots
    BY <1>3, <1>6 DEF MovesOn, Builder
  <2>2. QED
    BY <2>1, <1>4, <1>6 DEF Rest, HoldersApart, MovesOn
<1>9. RowsDated'
  <2> HIDE DEF s, u
  <2>1. \A r \in Snapshots : snapshot'[r].status # "FREE" => snapshot[r].status # "FREE"
    BY <1>1, <1>4
  <2>2. QED
    BY <2>1, <1>2, <1>4, <1>5 DEF Rest, RowsDated
<1>10. PointersValid'
  <2> HIDE DEF s
  <2>1. \A v \in Users :
          /\ profile[v].current # None =>
               profile[v].current \in Snapshots /\ profile[v].current # s
          /\ profile[v].lease # None => profile[v].lease \in Snapshots
          /\ profile[v].lease = s => v = u
    BY <1>1, <1>3, NoneAssumption DEF Rest, PointersValid, Profile
  <2> HIDE DEF u
  <2>2. QED
    BY <2>1, <1>4, <1>5 DEF Rest, PointersValid
<1>11. OneAbandoned'
  <2> HIDE DEF s
  <2>1. \A v \in Users : Abandoned(v)' = Abandoned(v) \ {s}
    BY <1>4 DEF Abandoned
  <2> HIDE DEF u
  <2>2. QED
    BY <2>1, <1>5 DEF Rest, OneAbandoned
<1>12. QED
  BY <1>7, <1>8, <1>9, <1>10, <1>11 DEF Rest

\* An edit moves the library and the version that counts its changes together.
LEMMA EditStep ==
  ASSUME TypeOK, Rest, NEW us \in SUBSET Users, NEW seen \in 0..catalog.version,
         NEW changed \in BOOLEAN, Edit(us, seen, changed)
  PROVE  Rest'
<1>1. UNCHANGED <<catalog, snapshot, builder>>
  BY DEF Edit
<1>2. /\ catalog.version \in Nat /\ seen \in Nat /\ seen <= catalog.version
      /\ \A v \in Users : profile[v] \in Profile /\ library[v] \in Nat
      /\ \A r \in Snapshots : snapshot[r] \in Snapshot
  BY DEF TypeOK, Catalog
<1>3. \A v \in Users :
        /\ profile'[v].current = profile[v].current
        /\ profile'[v].lease = profile[v].lease
        /\ profile'[v].required >= profile[v].required
        /\ profile'[v].required <= catalog.version
        /\ \/ profile'[v].libraryVersion = profile[v].libraryVersion + 1
           \/ /\ profile'[v].libraryVersion = profile[v].libraryVersion
              /\ library'[v] = library[v]
  <2> SUFFICES ASSUME NEW v \in Users
               PROVE  /\ profile'[v].current = profile[v].current
                      /\ profile'[v].lease = profile[v].lease
                      /\ profile'[v].required >= profile[v].required
                      /\ profile'[v].required <= catalog.version
                      /\ \/ profile'[v].libraryVersion = profile[v].libraryVersion + 1
                         \/ /\ profile'[v].libraryVersion = profile[v].libraryVersion
                            /\ library'[v] = library[v]
    OBVIOUS
  <2>1. profile[v].required <= catalog.version /\ profile[v].required \in Nat
    BY <1>2 DEF Rest, CountersOrdered, Profile
  <2>2. CASE v \in us
    <3>1. profile'[v] = [profile[v] EXCEPT !.exists = TRUE,
               !.libraryVersion = profile[v].libraryVersion + 1,
               !.required = MaxOf(profile[v].required, seen)]
      BY <2>2 DEF Edit
    <3>2. /\ profile'[v].current = profile[v].current
          /\ profile'[v].lease = profile[v].lease
          /\ profile'[v].required = MaxOf(profile[v].required, seen)
          /\ profile'[v].libraryVersion = profile[v].libraryVersion + 1
      BY <1>2, <3>1 DEF Profile
    <3>3. QED
      BY <1>2, <2>1, <3>2 DEF MaxOf
  <2>3. CASE v \notin us
    <3>1. profile'[v] = profile[v]
      BY <2>3 DEF Edit
    <3>2. library'[v] = library[v]
      BY <2>3 DEF Edit
    <3>3. QED
      BY <1>2, <2>1, <3>1, <3>2
  <2>4. QED
    BY <2>2, <2>3
<1>4. CountersOrdered'
  BY <1>1, <1>3 DEF Rest, CountersOrdered
<1>5. HoldersApart'
  BY <1>1 DEF Rest, HoldersApart
<1>6. RowsDated'
  <2> SUFFICES ASSUME NEW r \in Snapshots, snapshot[r].status # "FREE"
               PROVE  LET v == snapshot[r].user
                      IN  /\ v \in Users
                          /\ snapshot[r].libraryVersion <= profile'[v].libraryVersion
                          /\ snapshot[r].catalogVersion <= profile'[v].required
                          /\ snapshot[r].built =>
                               /\ ~OwnersLeave /\ snapshot[r].libraryVersion = profile'[v].libraryVersion
                                    => snapshot[r].seeds = library'[v]
                               /\ snapshot[r].catalogVersion >= catalog.version
                                    => snapshot[r].data >= catalog.announced
                               /\ snapshot[r].data <= catalog.data
    BY <1>1 DEF RowsDated
  <2>1. snapshot[r].user \in Users
    BY DEF Rest, RowsDated
  <2> DEFINE p == profile[snapshot[r].user]
             q == profile'[snapshot[r].user]
  <2>2. /\ snapshot[r].libraryVersion \in Nat /\ p.libraryVersion \in Nat
        /\ snapshot[r].catalogVersion \in Nat /\ p.required \in Nat
        /\ q.required >= p.required /\ q.required \in Nat
        /\ snapshot[r].libraryVersion <= p.libraryVersion
        /\ snapshot[r].catalogVersion <= p.required
    <3>1. /\ snapshot[r].libraryVersion \in Nat /\ p.libraryVersion \in Nat
          /\ snapshot[r].catalogVersion \in Nat /\ p.required \in Nat
      BY <2>1, <1>2 DEF Profile, Snapshot
    <3>2. q.required \in Nat
      <4>1. CASE snapshot[r].user \in us
        <5>1. q = [p EXCEPT !.exists = TRUE, !.libraryVersion = p.libraryVersion + 1,
                            !.required = MaxOf(p.required, seen)]
          BY <2>1, <4>1 DEF Edit
        <5>2. q.required = MaxOf(p.required, seen)
          BY <2>1, <1>2, <5>1 DEF Profile
        <5>3. QED
          BY <3>1, <5>2, <1>2 DEF MaxOf
      <4>2. CASE snapshot[r].user \notin us
        BY <2>1, <4>2, <3>1 DEF Edit
      <4>3. QED
        BY <4>1, <4>2
    <3>3. QED
      BY <3>1, <3>2, <2>1, <1>3 DEF Rest, RowsDated
  <2>3. \/ q.libraryVersion = p.libraryVersion + 1
        \/ q.libraryVersion = p.libraryVersion /\ library'[snapshot[r].user] = library[snapshot[r].user]
    BY <2>1, <1>3
  <2> HIDE DEF p, q
  <2>4. /\ snapshot[r].libraryVersion <= q.libraryVersion
        /\ snapshot[r].catalogVersion <= q.required
    BY <2>2, <2>3
  <2>5. snapshot[r].libraryVersion = q.libraryVersion =>
          /\ snapshot[r].libraryVersion = p.libraryVersion
          /\ library'[snapshot[r].user] = library[snapshot[r].user]
    BY <2>2, <2>3
  <2>6. QED
    BY <2>1, <2>4, <2>5 DEF Rest, RowsDated, p, q
<1>7. PointersValid'
  BY <1>1, <1>3 DEF Rest, PointersValid
<1>8. OneAbandoned'
  BY <1>1, <1>3 DEF Rest, OneAbandoned, Abandoned
<1>9. QED
  BY <1>4, <1>5, <1>6, <1>7, <1>8 DEF Rest

\* An increment makes every older row outdated; a commit waits for one.
LEMMA CatalogStep ==
  ASSUME TypeOK, Rest, CommitSong \/ Announce
  PROVE  Rest'
<1>1. UNCHANGED <<library, profile, snapshot, builder>>
  BY DEF CommitSong, Announce
<1>2. /\ catalog \in Catalog /\ \A v \in Users : profile[v] \in Profile
      /\ \A r \in Snapshots : snapshot[r] \in Snapshot
  BY DEF TypeOK
<1>3. \/ /\ catalog'.data = catalog.data + 1 /\ catalog'.version = catalog.version
         /\ catalog'.announced = catalog.announced
      \/ /\ catalog'.data = catalog.data /\ catalog'.version = catalog.version + 1
         /\ catalog'.announced = catalog.data
  <2>1. CASE CommitSong
    BY <2>1, <1>2 DEF CommitSong, Catalog
  <2>2. CASE Announce
    <3>1. catalog' = [catalog EXCEPT !.version = catalog.version + 1,
                                     !.announced = catalog.data]
      BY <2>2 DEF Announce
    <3>2. QED
      BY <3>1, <1>2 DEF Catalog
  <2>3. QED
    BY <2>1, <2>2
<1>4. catalog.data \in Nat /\ catalog.version \in Nat /\ catalog.announced \in Nat
  BY <1>2 DEF Catalog
<1>5. CountersOrdered'
  BY <1>1, <1>2, <1>3, <1>4 DEF Rest, CountersOrdered, Profile
<1>6. HoldersApart'
  BY <1>1 DEF Rest, HoldersApart
<1>7. RowsDated'
  <2>1. ASSUME NEW r \in Snapshots, snapshot[r].status # "FREE"
        PROVE  /\ snapshot[r].catalogVersion \in Nat /\ snapshot[r].data \in Nat
               /\ snapshot[r].catalogVersion <= catalog.version
    <3>1. /\ snapshot[r].catalogVersion \in Nat /\ snapshot[r].data \in Nat
          /\ profile[snapshot[r].user].required \in Nat
      BY <1>2, <2>1 DEF Rest, RowsDated, Snapshot, Profile
    <3>2. QED
      BY <3>1, <2>1, <1>4 DEF Rest, RowsDated, CountersOrdered
  <2>2. QED
    BY <2>1, <1>1, <1>3, <1>4 DEF Rest, RowsDated
<1>8. PointersValid' /\ OneAbandoned'
  BY <1>1 DEF Rest, PointersValid, OneAbandoned, Abandoned
<1>9. QED
  BY <1>5, <1>6, <1>7, <1>8 DEF Rest

\* Expiry only allows a later claim; a deleted owner is nobody's invalidation.
LEMMA ExpireStep ==
  ASSUME TypeOK, Rest, NEW u \in Users, Expire(u) \/ OwnerDeleted(u)
  PROVE  Rest'
<1>1. UNCHANGED <<catalog, snapshot, builder>>
  BY DEF Expire, OwnerDeleted
<1>2. \A v \in Users :
        /\ profile'[v].libraryVersion = profile[v].libraryVersion
        /\ profile'[v].required = profile[v].required
        /\ profile'[v].current = profile[v].current
        /\ profile'[v].lease = profile[v].lease
  <2>1. CASE Expire(u)
    <3>1. profile' = [profile EXCEPT ![u].expired = TRUE]
      BY <2>1 DEF Expire
    <3>2. \A v \in Users : profile[v] \in Profile
      BY DEF TypeOK
    <3>3. QED
      BY <3>1, <3>2 DEF TypeOK, Profile
  <2>2. CASE OwnerDeleted(u)
    BY <2>2 DEF OwnerDeleted
  <2>3. QED
    BY <2>1, <2>2
<1>3. OwnersLeave \/ library' = library
  BY DEF Expire, OwnerDeleted
<1>4. CountersOrdered'
  BY <1>1, <1>2 DEF Rest, CountersOrdered
<1>5. HoldersApart'
  BY <1>1 DEF Rest, HoldersApart
<1>6. RowsDated'
  BY <1>1, <1>2, <1>3 DEF Rest, RowsDated
<1>7. PointersValid'
  BY <1>1, <1>2 DEF Rest, PointersValid
<1>8. OneAbandoned'
  BY <1>1, <1>2 DEF Rest, OneAbandoned, Abandoned
<1>9. QED
  BY <1>4, <1>5, <1>6, <1>7, <1>8 DEF Rest

\* A deleted row was nobody's list, lease or work.
LEMMA CleanupStep ==
  ASSUME TypeOK, Rest, NEW s \in Snapshots, Cleanup(s)
  PROVE  Rest'
<1>1. UNCHANGED <<library, catalog, profile, builder>>
  BY DEF Cleanup
<1>2. /\ snapshot'[s].status = "FREE"
      /\ \A r \in Snapshots : r # s => snapshot'[r] = snapshot[r]
  BY DEF Cleanup, TypeOK, FreeSnapshot
<1>3. /\ snapshot[s].status \in {"READY", "FAILED"}
      /\ \A v \in Users : profile[v].current # s /\ profile[v].lease # s
      /\ \A b \in Builders : builder[b].snap # s
  BY NoneAssumption DEF Cleanup, Held, Rest, PointersValid
<1>4. /\ \A v \in Users :
           /\ profile[v].current # None => profile[v].current \in Snapshots
           /\ profile[v].lease # None => profile[v].lease \in Snapshots
      /\ \A b \in Builders : builder[b].snap # None => builder[b].snap \in Snapshots
  BY DEF TypeOK, Profile, Builder
<1>5. CountersOrdered'
  BY <1>1 DEF Rest, CountersOrdered
<1>6. HoldersApart'
  BY <1>1, <1>2, <1>3, <1>4 DEF Rest, HoldersApart
<1>7. RowsDated'
  BY <1>1, <1>2 DEF Rest, RowsDated
<1>8. PointersValid'
  BY <1>1, <1>2, <1>3, <1>4 DEF Rest, PointersValid
<1>9. OneAbandoned'
  <2>1. \A v \in Users : Abandoned(v)' = Abandoned(v)
    BY <1>2, <1>3 DEF Abandoned
  <2>2. QED
    BY <2>1, <1>1 DEF Rest, OneAbandoned
<1>10. QED
  BY <1>5, <1>6, <1>7, <1>8, <1>9 DEF Rest

LEMMA RestStep == TypeOK /\ TypeOK' /\ Rest /\ [Next]_vars => Rest'
<1> SUFFICES ASSUME TypeOK, TypeOK', Rest, [Next]_vars PROVE Rest'
  OBVIOUS
<1>1. ASSUME NEW b \in Builders, BatchStep(b) \/ Fault(b) PROVE Rest'
  <2>1. CASE Claim(b)
    BY <2>1, ClaimStep
  <2>2. CASE Build(b)
    BY <2>2, BuildStep
  <2>3. CASE Publish(b)
    BY <2>3, PublishStep
  <2>4. CASE PublishStale(b) \/ Fail(b)
    BY <2>4, GiveUpStep
  <2>5. CASE \/ Select(b) \/ EndBatch(b) \/ ClaimRefused(b) \/ ClaimFails(b)
             \/ BuildFails(b) \/ PublishRefused(b) \/ PublishFails(b) \/ FailFails(b)
             \/ Crash(b)
    BY <2>5, BatchLocal, LocalStep
  <2>6. QED
    BY <1>1, <2>1, <2>2, <2>3, <2>4, <2>5 DEF BatchStep, Fault
<1>2. ASSUME NEW u \in Users, Expire(u) \/ OwnerDeleted(u) PROVE Rest'
  BY <1>2, ExpireStep
<1>3. ASSUME NEW s \in Snapshots, Cleanup(s) PROVE Rest'
  BY <1>3, CleanupStep
<1>4. ASSUME NEW us \in SUBSET Users, NEW seen \in 0..catalog.version,
             NEW changed \in BOOLEAN, Edit(us, seen, changed)
      PROVE  Rest'
  BY <1>4, EditStep
<1>5. CASE CommitSong \/ Announce
  BY <1>5, CatalogStep
<1>6. CASE UNCHANGED vars
  BY <1>6, LocalStep DEF vars, MovesOn
<1>7. QED
  BY <1>1, <1>2, <1>3, <1>4, <1>5, <1>6 DEF Next

-----------------------------------------------------------------------------
\* Theorems

\* The invariant is inductive and therefore holds.
THEOREM Invariance == Spec => [](TypeOK /\ Rest)
<1>1. Init => TypeOK /\ Rest
  BY TypeInit, RestInit
<1>2. TypeOK /\ Rest /\ [Next]_vars => (TypeOK /\ Rest)'
  <2>1. TypeOK /\ Rest /\ [Next]_vars => TypeOK'
    BY TypeStep DEF Rest
  <2>2. QED
    BY <2>1, RestStep
<1>3. QED
  BY <1>1, <1>2, PTL DEF Spec

\* Rows, profiles and processes keep their types whatever runs when: a queue
\* holds users, and a process inside a rebuild holds a row of an existing user.
THEOREM TypeCorrect == Spec => []TypeOK
  BY Invariance, PTL

\* A list labelled FRESH was computed from its viewer's library and from every
\* catalog change announced, unless an owner takes a shared playlist away.
THEOREM FreshTrue ==
  ASSUME OwnersLeave = FALSE
  PROVE  Spec => []FreshIsCurrent
<1>1. ASSUME TypeOK, Rest PROVE FreshIsCurrent
  <2> SUFFICES ASSUME NEW u \in Users, Fresh(u)
               PROVE  /\ snapshot[profile[u].current].seeds = library[u]
                      /\ snapshot[profile[u].current].data >= catalog.announced
    BY DEF FreshIsCurrent
  <2> DEFINE s == profile[u].current
  <2>1. /\ s # None /\ snapshot[s].status = "READY"
        /\ snapshot[s].libraryVersion = profile[u].libraryVersion
        /\ snapshot[s].catalogVersion >= MaxOf(profile[u].required, catalog.version)
    BY DEF Fresh
  <2>2. s \in Snapshots /\ snapshot[s].user = u /\ snapshot[s].built
    BY <1>1, <2>1 DEF Rest, PointersValid, TypeOK, Profile
  <2>3. snapshot[s].catalogVersion >= catalog.version
    BY <1>1, <2>1, <2>2 DEF MaxOf, TypeOK, Profile, Catalog, Snapshot
  <2>4. QED
    BY <1>1, <2>1, <2>2, <2>3 DEF Rest, RowsDated
<1>2. TypeOK /\ Rest => FreshIsCurrent
  BY <1>1
<1>3. QED
  BY <1>2, Invariance, PTL

\* Whatever crashes and stalls, a viewer has at most one BUILDING row besides
\* the one of the lease.
THEOREM FewOrphans == Spec => []OrphansBounded
<1>1. ASSUME Rest PROVE OrphansBounded
  <2> SUFFICES ASSUME NEW u \in Users
               PROVE  Cardinality(Abandoned(u) \ {profile[u].lease}) <= 1
    BY DEF OrphansBounded
  <2> DEFINE left == Abandoned(u) \ {profile[u].lease}
  <2>1. \A s, r \in left : s = r
    BY <1>1 DEF Rest, OneAbandoned
  <2>2. CASE left = {}
    BY <2>2, FS_EmptySet
  <2>3. CASE left # {}
    <3>1. PICK s \in left : TRUE
      BY <2>3
    <3>2. left = {s}
      BY <2>1, <3>1
    <3>3. QED
      BY <3>2, FS_Singleton
  <2>4. QED
    BY <2>2, <2>3
<1>2. Rest => OrphansBounded
  BY <1>1
<1>3. QED
  BY <1>2, Invariance, PTL


\* A step that touches neither a list, nor the library, nor the catalog.
LEMMA Stutters ==
  ASSUME UNCHANGED <<library, catalog>>,
         \A u \in Users :
           /\ profile'[u].current = profile[u].current
           /\ profile[u].current # None =>
                /\ snapshot'[profile[u].current].seeds = snapshot[profile[u].current].seeds
                /\ snapshot'[profile[u].current].data = snapshot[profile[u].current].data
  PROVE  UNCHANGED <<library, catalog.data, [u \in Users |-> Shown(u)]>>
<1>1. \A u \in Users : Shown(u)' = Shown(u)
  BY DEF Shown
<1>2. QED
  BY <1>1

\* Whatever builders overtake each other, the lists are replaced as DiscoveryView
\* says: from the library of that moment, never from an older catalog.
THEOREM Implements ==
  ASSUME OwnersLeave = FALSE
  PROVE  Spec => ImplementsView
<1> DEFINE view == [u \in Users |-> Shown(u)]
<1>1. Init => View!Init
  BY DEF Init, View!Init, Shown, NoProfile
<1>2. TypeOK /\ Rest /\ [Next]_vars => [View!Next]_(View!vars)
  <2> SUFFICES ASSUME TypeOK, Rest, [Next]_vars
               PROVE  View!Next \/ UNCHANGED <<library, catalog.data, view>>
    BY DEF View!vars
  <2>1. /\ \A u \in Users : /\ profile[u] \in Profile
                            /\ profile[u].current # None => profile[u].current \in Snapshots
        /\ \A r \in Snapshots : snapshot[r] \in Snapshot
        /\ \A b \in Builders : builder[b] \in Builder
        /\ catalog \in Catalog
    BY DEF TypeOK, Profile
  <2>2. ASSUME NEW b \in Builders, Publish(b)
        PROVE  View!Next
    <3>0. PICK s \in Snapshots, u \in Users : s = builder[b].snap /\ u = snapshot[s].user
      BY <2>2, HeldRow DEF Publish
    <3>1. /\ profile[u].lease = s
          /\ snapshot[s].built /\ snapshot[s].status = "BUILDING" /\ snapshot[s].user = u
          /\ snapshot[s].libraryVersion = profile[u].libraryVersion
      BY <2>2, <3>0 DEF Publish, Unchanged, Rest, HoldersApart
    <3>2. /\ snapshot[s].seeds = library[u] /\ snapshot[s].data <= catalog.data
          /\ profile[u].current # None =>
               snapshot[profile[u].current].data <= snapshot[s].data
      BY <3>1, NoneAssumption DEF Rest, RowsDated, PointersValid
    <3>3. /\ \A r \in Snapshots : /\ snapshot'[r].seeds = snapshot[r].seeds
                                  /\ snapshot'[r].data = snapshot[r].data
          /\ profile'[u].current = s
          /\ \A v \in Users : v # u => profile'[v] = profile[v]
      <4>1. /\ snapshot' = [snapshot EXCEPT ![s].status = "READY"]
            /\ profile' = [profile EXCEPT ![u] =
                 [profile[u] EXCEPT !.current = s, !.lease = None, !.expired = FALSE]]
        BY <2>2, <3>0 DEF Publish
      <4>2. profile'[u].current = s /\ \A v \in Users : v # u => profile'[v] = profile[v]
        BY <2>1, <3>1, <4>1 DEF TypeOK, Profile
      <4>3. \A r \in Snapshots : snapshot'[r].seeds = snapshot[r].seeds
                                 /\ snapshot'[r].data = snapshot[r].data
        BY <2>1, <3>1, <4>1 DEF TypeOK, Snapshot
      <4>4. QED
        BY <4>2, <4>3
    <3>4. Shown(u)' = [seeds |-> library[u], data |-> snapshot[s].data]
      BY <3>1, <3>2, <3>3, NoneAssumption DEF Shown
    <3>5. \A v \in Users : v # u => Shown(v)' = Shown(v)
      BY <2>1, <3>3 DEF Shown
    <3>6. view' = [view EXCEPT ![u] = [seeds |-> library[u], data |-> snapshot[s].data]]
      BY <3>1, <3>4, <3>5
    <3>7. snapshot[s].data \in (IF view[u] = None THEN 0 ELSE view[u].data)..catalog.data
      <4>1. snapshot[s].data \in Nat /\ catalog.data \in Nat
        BY <2>1, <3>1 DEF Snapshot, Catalog
      <4>2. CASE profile[u].current = None
        BY <3>1, <3>2, <4>1, <4>2 DEF Shown
      <4>3. CASE profile[u].current # None
        <5>1. /\ view[u] = [seeds |-> snapshot[profile[u].current].seeds,
                            data |-> snapshot[profile[u].current].data]
              /\ snapshot[profile[u].current].data \in Nat
          BY <2>1, <3>1, <4>3 DEF Shown, Snapshot
        <5>2. view[u].data = snapshot[profile[u].current].data
          BY <5>1
        <5>3. QED
          BY <3>2, <4>1, <4>3, <5>1, <5>2
      <4>4. QED
        BY <4>2, <4>3
    <3>8. UNCHANGED <<library, catalog.data>>
      BY <2>2 DEF Publish
    <3>9. View!Show(u)
      BY <3>6, <3>7, <3>8 DEF View!Show, View!Oldest
    <3>10. QED
      BY <3>1, <3>9 DEF View!Next
  <2>3. ASSUME NEW us \in SUBSET Users, NEW seen \in 0..catalog.version,
               NEW changed \in BOOLEAN, Edit(us, seen, changed)
        PROVE  View!Next
    <3>1. \A u \in Users : profile'[u].current = profile[u].current
      BY <2>1, <2>3 DEF Edit, Profile
    <3>2. UNCHANGED <<catalog.data, view>>
      BY <2>3, <3>1 DEF Edit, Shown
    <3>3. CASE changed
      BY <2>3, <3>2, <3>3 DEF Edit, View!Next, View!EditLibrary
    <3>4. CASE ~changed
      <4>1. library' = [u \in Users |-> IF u \in {} THEN library[u] + 1 ELSE library[u]]
        BY <2>3, <3>4 DEF Edit, TypeOK
      <4>2. PICK none \in SUBSET Users : none = {}
        OBVIOUS
      <4>3. library' = [u \in Users |-> IF u \in none THEN library[u] + 1 ELSE library[u]]
        BY <4>1, <4>2
      <4>4. QED
        BY <3>2, <4>3 DEF View!Next, View!EditLibrary
    <3>5. QED
      BY <3>3, <3>4
  <2>4. ASSUME CommitSong
        PROVE  View!Next
    <3>1. catalog'.data = catalog.data + 1
      BY <2>1, <2>4 DEF CommitSong, Catalog
    <3>2. UNCHANGED <<library, view>>
      BY <2>4 DEF CommitSong, Shown
    <3>3. QED
      BY <3>1, <3>2 DEF View!Next, View!ChangeCatalog
  <2>5. ASSUME Announce
        PROVE  UNCHANGED <<library, catalog.data, view>>
    <3>1. catalog' = [catalog EXCEPT !.version = catalog.version + 1,
                                     !.announced = catalog.data]
      BY <2>5 DEF Announce
    <3>2. catalog'.data = catalog.data
      BY <2>1, <3>1 DEF Catalog
    <3>3. QED
      BY <2>5, <3>2 DEF Announce, Shown
  <2>6. ASSUME NEW b \in Builders, Claim(b)
        PROVE  UNCHANGED <<library, catalog.data, view>>
    <3>1. PICK u \in Users, s \in Snapshots : \E young \in SUBSET TooYoung(u) :
            Claims(b, u, s, young)
      BY <2>6, ClaimClaims
    <3>2. PICK young \in SUBSET TooYoung(u) : Claims(b, u, s, young)
      BY <3>1
    <3>3. \A v \in Users : profile'[v].current = profile[v].current
      BY <2>1, <3>2 DEF Claims, TypeOK, Profile
    <3>4. \A r \in Snapshots : r # s /\ r \notin Abandoned(u) => snapshot'[r] = snapshot[r]
      BY <3>2 DEF Claims
    <3>5. \A v \in Users : profile[v].current # None =>
            profile[v].current # s /\ profile[v].current \notin Abandoned(u)
      BY <3>2 DEF Claims, Abandoned, Rest, PointersValid
    <3>6. UNCHANGED <<library, catalog>>
      BY <2>6 DEF Claim
    <3>7. QED
      BY <2>1, <3>3, <3>4, <3>5, <3>6, Stutters
  <2>7. ASSUME NEW b \in Builders, Build(b)
        PROVE  UNCHANGED <<library, catalog.data, view>>
    <3>1. \A v \in Users : profile[v].current # builder[b].snap
      BY <2>7, HeldRow DEF Build
    <3>2. \A r \in Snapshots : r # builder[b].snap => snapshot'[r] = snapshot[r]
      BY <2>7 DEF Build, TypeOK
    <3>3. UNCHANGED <<library, catalog, profile>>
      BY <2>7 DEF Build
    <3>4. QED
      BY <2>1, <3>1, <3>2, <3>3, Stutters
  <2>8. ASSUME NEW b \in Builders, PublishStale(b) \/ Fail(b)
        PROVE  UNCHANGED <<library, catalog.data, view>>
    <3>1. GiveUp(builder[b].snap) /\ UNCHANGED <<library, catalog>>
      BY <2>8 DEF PublishStale, Fail
    <3>2. /\ \A v \in Users : profile[v].current # builder[b].snap
          /\ snapshot[builder[b].snap].user \in Users
      BY <2>8, HeldRow DEF PublishStale, Fail
    <3>3. \A r \in Snapshots : r # builder[b].snap => snapshot'[r] = snapshot[r]
      BY <3>1 DEF GiveUp, TypeOK
    <3>4. \A v \in Users : profile'[v].current = profile[v].current
      <4> DEFINE u == snapshot[builder[b].snap].user
      <4>1. \/ profile' = [profile EXCEPT ![u] =
                 [profile[u] EXCEPT !.lease = None, !.expired = FALSE]]
            \/ profile' = profile
        BY <3>1 DEF GiveUp
      <4>2. u \in Users /\ profile \in [Users -> Profile]
        BY <3>2 DEF TypeOK
      <4>3. CASE profile' = profile
        BY <4>3
      <4>4. CASE profile' = [profile EXCEPT ![u] =
                   [profile[u] EXCEPT !.lease = None, !.expired = FALSE]]
        <5> HIDE DEF u
        <5>1. profile[u] \in Profile /\ \A v \in Users : v # u => profile'[v] = profile[v]
          BY <4>2, <4>4
        <5>2. profile'[u] = [profile[u] EXCEPT !.lease = None, !.expired = FALSE]
          BY <4>2, <4>4
        <5>3. profile'[u].current = profile[u].current
          BY <5>1, <5>2 DEF Profile
        <5>4. QED
          BY <5>1, <5>3
      <4>5. QED
        BY <4>1, <4>3, <4>4
    <3>5. QED
      BY <2>1, <3>1, <3>2, <3>3, <3>4, Stutters
  <2>9. ASSUME NEW b \in Builders, \/ Select(b) \/ EndBatch(b) \/ ClaimRefused(b)
                 \/ ClaimFails(b) \/ BuildFails(b) \/ PublishRefused(b)
                 \/ PublishFails(b) \/ FailFails(b) \/ Crash(b)
        PROVE  UNCHANGED <<library, catalog.data, view>>
    BY <2>9, BatchLocal, Stutters
  <2>10. ASSUME NEW u \in Users, Expire(u) \/ OwnerDeleted(u)
         PROVE  UNCHANGED <<library, catalog.data, view>>
    <3>1. Expire(u)
      BY <2>10 DEF OwnerDeleted
    <3>2. \A v \in Users : profile'[v].current = profile[v].current
      BY <2>1, <3>1 DEF Expire, TypeOK, Profile
    <3>3. QED
      BY <3>1, <3>2, Stutters DEF Expire
  <2>11. ASSUME NEW s \in Snapshots, Cleanup(s)
         PROVE  UNCHANGED <<library, catalog.data, view>>
    BY <2>1, <2>11, Stutters DEF Cleanup, TypeOK
  <2>12. CASE UNCHANGED vars
    BY <2>12, Stutters DEF vars
  <2>13. QED
    BY <2>2, <2>3, <2>4, <2>5, <2>6, <2>7, <2>8, <2>9, <2>10, <2>11, <2>12
       DEF Next, BatchStep, Fault
<1>3. QED
  BY <1>1, <1>2, Invariance, PTL DEF Spec, ImplementsView, View!Spec
=============================================================================
