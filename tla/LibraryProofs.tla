---------------------------- MODULE LibraryProofs ----------------------------
(***************************************************************************)
(* What the row locks of playlists, favourites and accounts keep true, for *)
(* every set of users, playlists, songs and transactions and every limit.  *)
(*                                                                         *)
(* The properties are about what is committed, and a commit writes what    *)
(* its transaction read before.  So the inductive invariant says of every  *)
(* transaction that is writing what it has read and that this is still so  *)
(* (ReadsKept, EditsSerialize), and of every two of them that their locks  *)
(* keep them apart (LocksKept).  A step is reduced to what it does to the  *)
(* data first, and to the transactions then.                               *)
(*                                                                         *)
(* The second half shows that the library implements LibraryView.  There a *)
(* playlist is a sequence: songs ordered by unique positions are ranked    *)
(* (module Ranks), and the three ways an edit writes positions append to   *)
(* that sequence, cut one place out of it and swap two neighbours.  The    *)
(* announcements of a transaction are scattered over its steps but become  *)
(* visible with its commit, so TellKept says of every transaction whom it  *)
(* has told or will tell.                                                  *)
(***************************************************************************)
EXTENDS Library, Ranks, FiniteSetTheorems, SequenceTheorems, TLAPS

-----------------------------------------------------------------------------
(***************************************************************************)
(* Positions in a finite set of songs                                      *)
(***************************************************************************)
\* Of finitely many songs with a position there is a last and a first.
LEMMA LastAndFirst ==
  ASSUME NEW S, IsFiniteSet(S), S # {}, NEW at, \A x \in S : at[x] \in Nat
  PROVE  /\ \E m \in S : \A x \in S : at[x] <= at[m]
         /\ \E m \in S : \A x \in S : at[m] <= at[x]
<1>1. ASSUME NEW T, T \subseteq SUBSET S, T # {}
      PROVE  \E u \in T : \A v \in T : ~(v \subseteq u /\ v # u)
  <2>1. IsWellFoundedOn(StrictSubsetOrdering(S), SUBSET S)
    BY FS_StrictSubsetOrderingWellFounded, FS_FiniteSubsetsOfFinite
  <2>2. PICK u \in T : \A v \in T : ~(<<v, u>> \in StrictSubsetOrdering(S))
    BY <1>1, <2>1, WFMin
  <2>3. QED BY <1>1, <2>2 DEF StrictSubsetOrdering
<1>2. \E m \in S : \A x \in S : at[x] <= at[m]
  <2> DEFINE Up(m) == {x \in S : at[x] > at[m]}
             All == {Up(m) : m \in S}
  <2>0. All \subseteq SUBSET S /\ All # {}
    OBVIOUS
  <2> HIDE DEF All
  <2>1. PICK u \in All : \A v \in All : ~(v \subseteq u /\ v # u)
    BY <1>1, <2>0
  <2> USE DEF All
  <2>2. PICK m \in S : u = Up(m)
    BY <2>1
  <2>3. ASSUME NEW x \in S, at[x] > at[m]
        PROVE  FALSE
    <3>1. x \in Up(m) /\ x \notin Up(x)
      BY <2>3
    <3>2. Up(x) \subseteq Up(m)
      BY <2>3
    <3>3. QED BY <2>1, <2>2, <3>1, <3>2
  <2>4. QED BY <2>3
<1>3. \E m \in S : \A x \in S : at[m] <= at[x]
  <2> DEFINE Down(m) == {x \in S : at[x] < at[m]}
             All == {Down(m) : m \in S}
  <2>0. All \subseteq SUBSET S /\ All # {}
    OBVIOUS
  <2> HIDE DEF All
  <2>1. PICK u \in All : \A v \in All : ~(v \subseteq u /\ v # u)
    BY <1>1, <2>0
  <2> USE DEF All
  <2>2. PICK m \in S : u = Down(m)
    BY <2>1
  <2>3. ASSUME NEW x \in S, at[x] < at[m]
        PROVE  FALSE
    <3>1. x \in Down(m) /\ x \notin Down(x)
      BY <2>3
    <3>2. Down(x) \subseteq Down(m)
      BY <2>3
    <3>3. QED BY <2>1, <2>2, <3>1, <3>2
  <2>4. QED BY <2>3
<1>4. QED BY <1>2, <1>3

\* What the model reads of a playlist depends on its positions alone.
BeforeAt(at, s) == {o \in Placed(at) : at[o] < at[s]}
AfterAt(at, s) == {o \in Placed(at) : at[o] > at[s]}

NextAt(at) ==
  IF Placed(at) = {} THEN 0
  ELSE at[CHOOSE s \in Placed(at) : AfterAt(at, s) = {}] + 1

NearAt(at, s, op) ==
  IF op = "moveUp" THEN BeforeAt(at, s) # {} ELSE AfterAt(at, s) # {}

NeighbourAt(at, s, op) ==
  IF op = "moveUp"
  THEN CHOOSE n \in BeforeAt(at, s) : \A o \in BeforeAt(at, s) : at[o] <= at[n]
  ELSE CHOOSE n \in AfterAt(at, s) : \A o \in AfterAt(at, s) : at[o] >= at[n]

PutAt(at, s, op) ==
  IF op = "addSong" THEN [NoSongs EXCEPT ![s] = NextAt(at)]
  ELSE [NoSongs EXCEPT ![s] = at[NeighbourAt(at, s, op)],
                       ![NeighbourAt(at, s, op)] = at[s]]

\* These are the operators of the model, before a step and after it.
LEMMA ReadsPositions ==
  ASSUME NEW r
  PROVE  /\ Put(r) = PutAt(list[r.list].at, r.arg, r.op)
         /\ Put(r)' = PutAt(list'[r.list].at, r.arg, r.op)
         /\ HasNeighbour(r.list, r.arg, r.op)
              <=> NearAt(list[r.list].at, r.arg, r.op)
         /\ HasNeighbour(r.list, r.arg, r.op)'
              <=> NearAt(list'[r.list].at, r.arg, r.op)
         /\ SongsOf(r.list) = Placed(list[r.list].at)
         /\ SongsOf(r.list)' = Placed(list'[r.list].at)
  BY DEF Put, PutAt, NextPosition, NextAt, Topmost, Neighbour, NeighbourAt,
         HasNeighbour, NearAt, Before, BeforeAt, After, AfterAt, SongsOf, Placed

\* A new song is placed; a move places two songs that are in the playlist.
LEMMA PutPlaces ==
  ASSUME NEW at \in Positions, NEW s \in Songs, NEW op \in SongEdits
  PROVE  /\ op = "addSong" =>
              PutAt(at, s, op) \in Positions /\ Placed(PutAt(at, s, op)) = {s}
         /\ op \in {"moveUp", "moveDown"} /\ s \in Placed(at)
              /\ NearAt(at, s, op) =>
              /\ PutAt(at, s, op) \in Positions
              /\ Placed(PutAt(at, s, op)) \subseteq Placed(at)
<1>1. /\ \A o \in Placed(at) : at[o] \in Nat
      /\ Placed(at) \subseteq Songs /\ IsFiniteSet(Placed(at))
  <2>1. Placed(at) \subseteq Songs /\ \A o \in Placed(at) : at[o] \in Nat
    BY DEF Placed, Positions
  <2>2. QED BY <2>1, FiniteAssumption, FS_Subset
<1>2. NextAt(at) \in Nat
  <2>1. CASE Placed(at) = {}
    BY <2>1 DEF NextAt
  <2>2. CASE Placed(at) # {}
    <3>1. PICK m \in Placed(at) : \A x \in Placed(at) : at[x] <= at[m]
      BY <1>1, <2>2, LastAndFirst
    <3>2. AfterAt(at, m) = {}
      BY <1>1, <3>1 DEF AfterAt
    <3>3. (CHOOSE o \in Placed(at) : AfterAt(at, o) = {}) \in Placed(at)
      BY <3>1, <3>2
    <3>4. QED BY <1>1, <2>2, <3>3 DEF NextAt
  <2>3. QED BY <2>1, <2>2
<1>3. ASSUME op = "addSong"
      PROVE  PutAt(at, s, op) \in Positions /\ Placed(PutAt(at, s, op)) = {s}
  <2>1. PutAt(at, s, op) = [NoSongs EXCEPT ![s] = NextAt(at)]
    BY <1>3 DEF PutAt
  <2>2. QED BY <1>2, <2>1, NoneAssumption DEF Positions, Placed, NoSongs
<1>4. ASSUME op \in {"moveUp", "moveDown"}, s \in Placed(at),
             NearAt(at, s, op)
      PROVE  /\ PutAt(at, s, op) \in Positions
             /\ Placed(PutAt(at, s, op)) \subseteq Placed(at)
  <2> DEFINE n == NeighbourAt(at, s, op)
  <2>1. n \in Placed(at)
    <3>1. CASE op = "moveUp"
      <4>1. BeforeAt(at, s) # {} /\ BeforeAt(at, s) \subseteq Placed(at)
        BY <1>4, <3>1 DEF NearAt, BeforeAt
      <4>2. \E m \in BeforeAt(at, s) : \A o \in BeforeAt(at, s) : at[o] <= at[m]
        BY <1>1, <4>1, FS_Subset, LastAndFirst
      <4>3. n \in BeforeAt(at, s)
        BY <3>1, <4>2 DEF NeighbourAt
      <4>4. QED BY <4>1, <4>3
    <3>2. CASE op = "moveDown"
      <4>1. AfterAt(at, s) # {} /\ AfterAt(at, s) \subseteq Placed(at)
        BY <1>4, <3>2 DEF NearAt, AfterAt
      <4>2. \E m \in AfterAt(at, s) : \A o \in AfterAt(at, s) : at[o] >= at[m]
        <5>1. PICK m \in AfterAt(at, s) :
                \A o \in AfterAt(at, s) : at[m] <= at[o]
          BY <1>1, <4>1, FS_Subset, LastAndFirst
        <5>2. QED BY <1>1, <4>1, <5>1
      <4>3. n \in AfterAt(at, s)
        BY <3>2, <4>2 DEF NeighbourAt
      <4>4. QED BY <4>1, <4>3
    <3>3. QED BY <1>4, <3>1, <3>2
  <2>2. PutAt(at, s, op) = [NoSongs EXCEPT ![s] = at[n], ![n] = at[s]]
    BY <1>4 DEF PutAt
  <2> HIDE DEF n
  <2>3. at[n] \in Nat /\ at[s] \in Nat /\ n \in Songs
    BY <1>1, <1>4, <2>1
  <2>4. QED BY <1>4, <2>1, <2>2, <2>3 DEF Positions, Placed, NoSongs
<1>5. QED BY <1>3, <1>4

-----------------------------------------------------------------------------
(***************************************************************************)
(* Types                                                                   *)
(***************************************************************************)
\* What a request is made of.
LEMMA RequestParts ==
  ASSUME NEW r \in Request \cup {NoRequest}
  PROVE  /\ r.op \in SongEdits \cup MemberEdits \cup RowEdits
                       \cup {"leave", "create", "report"} =>
              r.user \in Users /\ r.list \in Lists
         /\ r.op \in SongEdits => r.arg \in Songs
         /\ r.op \in MemberEdits => r.arg \in Users
         /\ r.op \in Moderation => r.list \in Lists
         /\ r.op \in {"favorite", "unfavorite"} =>
              r.user \in Users /\ r.arg \in Songs
         /\ r.op = "disconnect" => r.user \in Users /\ r.arg \in Providers
         /\ r.op \in {"resolve", "dismiss"} => r.arg \in Reports
         /\ r.list \in Lists \cup {None}
  BY DEF Request, NoRequest, SongEdits, MemberEdits, RowEdits, Moderation

\* Giving one transaction a new state leaves the others theirs.
LEMMA TxSet ==
  ASSUME TypeOK, NEW t \in Txs, NEW mem, tx' = [tx EXCEPT ![t] = mem]
  PROVE  /\ tx'[t] = mem
         /\ \A o \in Others(t) : tx'[o] = tx[o]
         /\ mem \in Tx => tx' \in [Txs -> Tx]
  BY DEF TypeOK, Others

\* A transaction that has ended has nothing.
LEMMA NoTxOK == NoTx \in Tx /\ NoTx.pc = "idle" /\ NoTx.rows = {}
  BY DEF NoTx, Tx, NoRequest, Request, NoSongs, Positions

\* A playlist that does not exist is empty.
LEMMA NoListOK == NoList \in List /\ NoReport \in Report
  BY DEF NoList, List, NoSongs, Positions, NoReport, Report

-----------------------------------------------------------------------------
(***************************************************************************)
(* The invariant                                                           *)
(***************************************************************************)
\* What their locks keep t and o from doing at the same time: edit the same
\* playlist, edit one that is being created, count the same user's playlists or
\* providers, write the same report.
Excludes(t, o) ==
  /\ Writing(t, ListEdits) /\ Writing(o, ListEdits) =>
       tx[t].req.list # tx[o].req.list
  /\ Writing(t, {"create"}) /\ tx[o].pc # "idle"
       /\ tx[o].req.list = tx[t].req.list =>
       tx[o].req.op \in {"leave", "report", "create"} /\ ~Writing(o, {"create"})
  /\ Writing(t, {"create", "disconnect"}) /\ Writing(o, {"create", "disconnect"})
       => tx[t].req.user # tx[o].req.user
  /\ tx[t].rows \cap tx[o].rows = {}

LocksKept == \A t \in Txs : \A o \in Others(t) : Excludes(t, o)

\* There is still room for what t adds, a provider besides the one it takes
\* away, and its song is still public.
RoomKept(t) ==
  LET r == tx[t].req IN
  /\ Writing(t, {"addSong"}) => Cardinality(SongsOf(r.list)) < SongLimit
  /\ Writing(t, {"addMember"}) => Cardinality(list[r.list].members) < MemberLimit
  /\ Writing(t, {"create"}) =>
       ~Exists(r.list) /\ Cardinality(Owned(r.user)) < ListLimit
  /\ Writing(t, {"disconnect"}) => provider[r.user] \ {r.arg} # {}
  /\ Writing(t, {"addSong", "favorite"}) => r.arg \in visible

\* The reports it has locked are as it has read them.
RowsKept(t) ==
  LET r == tx[t].req IN
  /\ tx[t].pc # "writing" => tx[t].rows = {}
  /\ Writing(t, Moderation) => \A x \in tx[t].rows : report[x].status = "OPEN"
  /\ Writing(t, {"report"}) => \A x \in tx[t].rows : report[x] = NoReport
  /\ Writing(t, {"resolve", "dismiss"}) =>
       tx[t].rows = {r.arg} /\ report[r.arg].status = "OPEN"

\* EditsSerialize, of one transaction.
EditKept(t) ==
  LET r == tx[t].req IN
  /\ Writing(t, {"addSong"}) => tx[t].put = Put(r)
  /\ Writing(t, {"moveUp", "moveDown"}) =>
       r.arg \in SongsOf(r.list) /\ HasNeighbour(r.list, r.arg, r.op)
         /\ tx[t].put = Put(r)
  /\ Writing(t, {"removeSong"}) => r.arg \in SongsOf(r.list)

ReadsKept == \A t \in Txs : RoomKept(t) /\ RowsKept(t) /\ EditKept(t)

LibraryInv ==
  TypeOK /\ LocksKept /\ ReadsKept /\ LimitsKept /\ ProviderKept

\* A step leaves alone what o, which is writing, has read.
Undisturbed(o) ==
  LET r == tx[o].req IN
  /\ Writing(o, SongEdits) => list'[r.list].at = list[r.list].at
  /\ Writing(o, {"addMember"}) =>
       list'[r.list].members \subseteq list[r.list].members
  /\ Writing(o, {"create"}) =>
       /\ list'[r.list].owner = list[r.list].owner
       /\ \A p \in Lists : list'[p].owner = r.user => list[p].owner = r.user
  /\ Writing(o, {"disconnect"}) => provider'[r.user] = provider[r.user]
  /\ Writing(o, {"addSong", "favorite"}) /\ r.arg \in visible => r.arg \in visible'
  /\ \A x \in tx[o].rows :
       /\ report'[x].status = report[x].status
       /\ report[x] = NoReport => report'[x] = NoReport

\* Then it may still write it.
LEMMA StillKept ==
  ASSUME TypeOK, TypeOK', NEW o \in Txs, tx'[o] = tx[o], Undisturbed(o),
         RoomKept(o), RowsKept(o), EditKept(o)
  PROVE  RoomKept(o)' /\ RowsKept(o)' /\ EditKept(o)'
<1>1. PICK r \in Request \cup {NoRequest} : r = tx[o].req
  BY DEF TypeOK, Tx
<1>2. tx'[o].req = r /\ \A os : Writing(o, os)' <=> Writing(o, os)
  BY <1>1 DEF Writing
<1>3. RoomKept(o)'
  <2>1. ASSUME Writing(o, {"addSong"})
        PROVE  Cardinality(SongsOf(r.list))' < SongLimit
    <3>1. list'[r.list].at = list[r.list].at
      BY <1>1, <2>1 DEF Undisturbed, Writing, SongEdits
    <3>2. SongsOf(r.list)' = SongsOf(r.list)
      BY <3>1 DEF SongsOf
    <3>3. QED BY <1>1, <2>1, <3>2 DEF RoomKept
  <2>2. ASSUME Writing(o, {"addMember"})
        PROVE  Cardinality(list'[r.list].members) < MemberLimit
    <3>1. /\ list'[r.list].members \subseteq list[r.list].members
          /\ Cardinality(list[r.list].members) < MemberLimit
      BY <1>1, <2>2 DEF Undisturbed, RoomKept
    <3>2. r.list \in Lists
      BY <1>1, <2>2, RequestParts DEF Writing, MemberEdits
    <3>3. IsFiniteSet(list[r.list].members) /\ IsFiniteSet(list'[r.list].members)
      BY <3>1, <3>2, FiniteAssumption, FS_Subset DEF TypeOK, List
    <3>4. /\ Cardinality(list'[r.list].members) <= Cardinality(list[r.list].members)
          /\ Cardinality(list'[r.list].members) \in Nat
          /\ Cardinality(list[r.list].members) \in Nat
      BY <3>1, <3>3, FS_Subset, FS_CardinalityType
    <3>5. QED BY <3>1, <3>4, LimitsAssumption
  <2>3. ASSUME Writing(o, {"create"})
        PROVE  ~Exists(r.list)' /\ Cardinality(Owned(r.user))' < ListLimit
    <3>1. /\ list'[r.list].owner = list[r.list].owner
          /\ \A p \in Lists : list'[p].owner = r.user => list[p].owner = r.user
          /\ ~Exists(r.list) /\ Cardinality(Owned(r.user)) < ListLimit
      BY <1>1, <2>3 DEF Undisturbed, RoomKept
    <3>2. Owned(r.user)' \subseteq Owned(r.user) /\ Owned(r.user) \subseteq Lists
      BY <3>1 DEF Owned
    <3>3. /\ Cardinality(Owned(r.user))' <= Cardinality(Owned(r.user))
          /\ Cardinality(Owned(r.user))' \in Nat
          /\ Cardinality(Owned(r.user)) \in Nat
      BY <3>2, FiniteAssumption, FS_Subset, FS_CardinalityType
    <3>4. QED BY <3>1, <3>3, LimitsAssumption DEF Exists
  <2>4. ASSUME Writing(o, {"disconnect"})
        PROVE  provider'[r.user] \ {r.arg} # {}
    BY <1>1, <2>4 DEF Undisturbed, RoomKept
  <2>5. ASSUME Writing(o, {"addSong", "favorite"})
        PROVE  r.arg \in visible'
    BY <1>1, <2>5 DEF Undisturbed, RoomKept
  <2>6. QED BY <1>2, <2>1, <2>2, <2>3, <2>4, <2>5 DEF RoomKept
<1>4. RowsKept(o)'
  BY <1>1, <1>2 DEF RowsKept, Undisturbed
<1>5. EditKept(o)'
  <2>1. CASE Writing(o, SongEdits)
    <3>1. list'[r.list].at = list[r.list].at
      BY <1>1, <2>1 DEF Undisturbed
    <3>2. /\ Put(r)' = Put(r) /\ SongsOf(r.list)' = SongsOf(r.list)
          /\ HasNeighbour(r.list, r.arg, r.op)'
               <=> HasNeighbour(r.list, r.arg, r.op)
      BY <3>1, ReadsPositions
    <3>3. QED BY <1>1, <1>2, <3>2 DEF EditKept
  <2>2. CASE ~Writing(o, SongEdits)
    BY <1>2, <2>2 DEF EditKept, Writing, SongEdits
  <2>3. QED BY <2>1, <2>2
<1>6. QED BY <1>3, <1>4, <1>5

\* Nobody is disturbed by a step that leaves the data alone.
LEMMA DataSame ==
  ASSUME UNCHANGED <<list, provider, visible, report>>, NEW o
  PROVE  Undisturbed(o)
  BY DEF Undisturbed

\* Two transactions that stay as they are keep each other out.
LEMMA LocksSame ==
  ASSUME NEW t, NEW o, tx'[t] = tx[t], tx'[o] = tx[o], Excludes(t, o)
  PROVE  Excludes(t, o)'
  BY DEF Excludes, Writing

\* A transaction that has ended is in nobody's way.
LEMMA LocksEnded ==
  ASSUME TypeOK, LocksKept, NEW t \in Txs, tx' = [tx EXCEPT ![t] = NoTx]
  PROVE  /\ LocksKept'
         /\ RoomKept(t)' /\ RowsKept(t)' /\ EditKept(t)'
         /\ \A o \in Others(t) : tx'[o] = tx[o]
         /\ tx' \in [Txs -> Tx]
<1>1. /\ tx'[t] = NoTx /\ \A o \in Others(t) : tx'[o] = tx[o]
      /\ tx' \in [Txs -> Tx]
  BY TxSet, NoTxOK
<1>2. tx'[t].pc = "idle" /\ tx'[t].rows = {}
  BY <1>1, NoTxOK
<1>3. ASSUME NEW v \in Txs, NEW o \in Others(v)
      PROVE  Excludes(v, o)'
  <2>1. CASE v = t \/ o = t
    BY <1>2, <2>1 DEF Excludes, Writing
  <2>2. CASE v # t /\ o # t
    BY <1>1, <2>2, LocksSame DEF LocksKept, Others
  <2>3. QED BY <2>1, <2>2
<1>4. RoomKept(t)' /\ RowsKept(t)' /\ EditKept(t)'
  BY <1>2 DEF RoomKept, RowsKept, EditKept, Writing
<1>5. QED BY <1>1, <1>3, <1>4 DEF LocksKept, Others

-----------------------------------------------------------------------------
(***************************************************************************)
(* Requests, decisions and ends                                            *)
(***************************************************************************)
\* What a transaction has found out when it decides to write.
Granted(t, put, rows) ==
  LET r == tx[t].req IN
  /\ tx[t].pc = "begun" /\ put \in Positions /\ rows \subseteq Reports
  /\ ~ReportTaken(t, rows)
  /\ r.op \in ListEdits => Exists(r.list) /\ ~ListTaken(t, r.list)
  /\ r.op = "addSong" => /\ put = Put(r) /\ r.arg \in visible
                         /\ Cardinality(SongsOf(r.list)) < SongLimit
  /\ r.op \in {"moveUp", "moveDown"} =>
       /\ put = Put(r) /\ r.arg \in SongsOf(r.list)
       /\ HasNeighbour(r.list, r.arg, r.op)
  /\ r.op = "removeSong" => r.arg \in SongsOf(r.list)
  /\ r.op = "addMember" => Cardinality(list[r.list].members) < MemberLimit
  /\ r.op = "favorite" => r.arg \in visible
  /\ r.op = "create" =>
       /\ ~UserTaken(t, r.user) /\ ~Exists(r.list)
       /\ Cardinality(Owned(r.user)) < ListLimit
       /\ \A o \in Others(t) : \/ tx[o].pc = "idle" \/ tx[o].req.list # r.list
                               \/ Begun(o, {"create"})
  /\ r.op = "disconnect" =>
       ~UserTaken(t, r.user) /\ provider[r.user] \ {r.arg} # {}
  /\ r.op \in Moderation => \A x \in rows : report[x].status = "OPEN"
  /\ r.op = "report" => \A x \in rows : report[x] = NoReport
  /\ r.op \in {"resolve", "dismiss"} =>
       rows = {r.arg} /\ report[r.arg].status = "OPEN"

\* The owner and the collaborators are users.
LEMMA PeopleAreUsers ==
  ASSUME TypeOK, NEW p \in Lists, Exists(p)
  PROVE  People(p) \subseteq Users
  BY DEF TypeOK, List, Exists, People

\* Positions nobody has.
LEMMA NoSongsOK == NoSongs \in Positions
  BY DEF NoSongs, Positions

\* The operations by name.
LEMMA Operations ==
  /\ ListEdits = {"addSong", "removeSong", "moveUp", "moveDown", "addMember",
                  "removeMember", "delete", "share", "unshare"}
  /\ Moderation = {"hide", "restore"}
  BY DEF ListEdits, SongEdits, MemberEdits, RowEdits, Moderation

\* Every decision is granted by what its action has checked.
LEMMA DecideGrants ==
  ASSUME TypeOK, NEW t \in Txs, Decide(t)
  PROVE  \E put, rows, us : /\ Decides(t, put, rows, us) /\ Granted(t, put, rows)
                            /\ us \subseteq Users
<1> DEFINE r == tx[t].req
           Goal == \E put, rows, us :
                     /\ Decides(t, put, rows, us) /\ Granted(t, put, rows)
                     /\ us \subseteq Users
<1>1. /\ r \in Request \cup {NoRequest} /\ list \in [Lists -> List]
      /\ report \in [Reports -> Report] /\ provider \in [Users -> SUBSET Providers]
  BY DEF TypeOK, Tx
<1>2. ~ReportTaken(t, {})
  BY DEF ReportTaken
<1>3. ASSUME r.list \in Lists
      PROVE  ReportsOf(r.list) \subseteq Reports /\ OpenReportsOf(r.list) \subseteq Reports
  BY DEF ReportsOf, OpenReportsOf
<1>4. CASE AddPlaylistSong(t)
  <2>1. /\ r.op = "addSong" /\ tx[t].pc = "begun" /\ ~ListTaken(t, r.list)
        /\ Exists(r.list) /\ r.arg \in visible
        /\ Cardinality(SongsOf(r.list)) < SongLimit
        /\ Decides(t, Put(r), {}, People(r.list))
    BY <1>4 DEF AddPlaylistSong, Locks, Begun
  <2>2. r.list \in Lists /\ r.arg \in Songs
    BY <1>1, <2>1, RequestParts DEF SongEdits
  <2>3. Put(r) \in Positions
    <3>1. list[r.list].at \in Positions
      BY <1>1, <2>2 DEF List
    <3>2. QED BY <2>1, <2>2, <3>1, PutPlaces, ReadsPositions DEF SongEdits
  <2>4. Granted(t, Put(r), {})
    BY <1>2, <2>1, <2>3, Operations DEF Granted
  <2>5. QED BY <2>1, <2>2, <2>4, PeopleAreUsers
<1>5. CASE RemovePlaylistSong(t)
  <2>1. /\ r.op = "removeSong" /\ tx[t].pc = "begun" /\ ~ListTaken(t, r.list)
        /\ Exists(r.list) /\ r.arg \in SongsOf(r.list)
        /\ Decides(t, NoSongs, {}, People(r.list))
    BY <1>5 DEF RemovePlaylistSong, Locks, Begun
  <2>2. r.list \in Lists
    BY <1>1, <2>1, RequestParts DEF SongEdits
  <2>3. Granted(t, NoSongs, {})
    BY <1>2, <2>1, NoSongsOK, Operations DEF Granted
  <2>4. QED BY <2>1, <2>2, <2>3, PeopleAreUsers
<1>6. CASE MovePlaylistSong(t)
  <2>1. /\ r.op \in {"moveUp", "moveDown"} /\ tx[t].pc = "begun"
        /\ ~ListTaken(t, r.list) /\ Exists(r.list) /\ r.arg \in SongsOf(r.list)
        /\ HasNeighbour(r.list, r.arg, r.op) /\ Decides(t, Put(r), {}, {})
    BY <1>6 DEF MovePlaylistSong, Locks, Begun
  <2>2. r.list \in Lists /\ r.arg \in Songs
    BY <1>1, <2>1, RequestParts DEF SongEdits
  <2>3. Put(r) \in Positions
    <3>1. list[r.list].at \in Positions
      BY <1>1, <2>2 DEF List
    <3>2. QED BY <2>1, <2>2, <3>1, PutPlaces, ReadsPositions DEF SongEdits
  <2>4. Granted(t, Put(r), {})
    BY <1>2, <2>1, <2>3, Operations DEF Granted
  <2>5. QED BY <2>1, <2>4
<1>7. CASE AddPlaylistCollaborator(t)
  <2>1. /\ r.op = "addMember" /\ tx[t].pc = "begun" /\ ~ListTaken(t, r.list)
        /\ Exists(r.list) /\ Cardinality(list[r.list].members) < MemberLimit
        /\ Decides(t, NoSongs, {}, {r.user, r.arg})
    BY <1>7 DEF AddPlaylistCollaborator, Locks, Begun
  <2>2. r.user \in Users /\ r.arg \in Users
    BY <1>1, <2>1, RequestParts DEF MemberEdits
  <2>3. Granted(t, NoSongs, {})
    BY <1>2, <2>1, NoSongsOK, Operations DEF Granted
  <2>4. QED BY <2>1, <2>2, <2>3
<1>8. CASE RemovePlaylistCollaborator(t)
  <2>1. /\ r.op = "removeMember" /\ tx[t].pc = "begun" /\ ~ListTaken(t, r.list)
        /\ Exists(r.list) /\ Decides(t, NoSongs, {}, {r.user, r.arg})
    BY <1>8 DEF RemovePlaylistCollaborator, Locks, Begun
  <2>2. r.user \in Users /\ r.arg \in Users
    BY <1>1, <2>1, RequestParts DEF MemberEdits
  <2>3. Granted(t, NoSongs, {})
    BY <1>2, <2>1, NoSongsOK, Operations DEF Granted
  <2>4. QED BY <2>1, <2>2, <2>3
<1>9. CASE LeavePlaylist(t)
  <2>1. r.op = "leave" /\ tx[t].pc = "begun" /\ Decides(t, NoSongs, {}, {r.user})
    BY <1>9 DEF LeavePlaylist, Begun
  <2>2. r.user \in Users
    BY <1>1, <2>1, RequestParts
  <2>3. Granted(t, NoSongs, {})
    BY <1>2, <2>1, NoSongsOK, Operations DEF Granted
  <2>4. QED BY <2>1, <2>2, <2>3
<1>10. CASE DeletePlaylist(t)
  <2>1. /\ r.op = "delete" /\ tx[t].pc = "begun" /\ ~ListTaken(t, r.list)
        /\ Exists(r.list) /\ ~ReportTaken(t, ReportsOf(r.list))
        /\ Decides(t, NoSongs, ReportsOf(r.list), People(r.list))
    BY <1>10 DEF DeletePlaylist, Locks, Begun
  <2>2. r.list \in Lists
    BY <1>1, <2>1, RequestParts DEF RowEdits
  <2>3. Granted(t, NoSongs, ReportsOf(r.list))
    BY <1>3, <2>1, <2>2, NoSongsOK, Operations DEF Granted
  <2>4. QED BY <2>1, <2>2, <2>3, PeopleAreUsers
<1>11. CASE SetPlaylistVisibility(t)
  <2>1. /\ r.op \in {"share", "unshare"} /\ tx[t].pc = "begun"
        /\ ~ListTaken(t, r.list) /\ Exists(r.list) /\ Decides(t, NoSongs, {}, {})
    BY <1>11 DEF SetPlaylistVisibility, Locks, Begun
  <2>2. Granted(t, NoSongs, {})
    BY <1>2, <2>1, NoSongsOK, Operations DEF Granted
  <2>3. QED BY <2>1, <2>2
<1>12. CASE CreatePlaylist(t)
  <2>1. /\ r.op = "create" /\ tx[t].pc = "begun" /\ Decides(t, NoSongs, {}, {})
        /\ ~UserTaken(t, r.user) /\ ~Exists(r.list)
        /\ Cardinality(Owned(r.user)) < ListLimit
        /\ \A o \in Others(t) : \/ tx[o].pc = "idle" \/ tx[o].req.list # r.list
                                \/ Begun(o, {"create"})
    BY <1>12 DEF CreatePlaylist, Begun
  <2>2. Granted(t, NoSongs, {})
    BY <1>2, <2>1, NoSongsOK, Operations DEF Granted
  <2>3. QED BY <2>1, <2>2
<1>13. CASE SetPlaylistModerationStatus(t)
  <2>1. /\ r.op \in Moderation /\ tx[t].pc = "begun"
        /\ ~ReportTaken(t, OpenReportsOf(r.list))
        /\ Decides(t, NoSongs, OpenReportsOf(r.list), {})
    BY <1>13 DEF SetPlaylistModerationStatus, Begun
  <2>2. r.list \in Lists
    BY <1>1, <2>1, RequestParts
  <2>3. Granted(t, NoSongs, OpenReportsOf(r.list))
    <3>1. \A x \in OpenReportsOf(r.list) : report[x].status = "OPEN"
      BY DEF OpenReportsOf
    <3>2. QED BY <1>3, <2>1, <2>2, <3>1, NoSongsOK, Operations DEF Granted
  <2>4. QED BY <2>1, <2>3
<1>14. CASE CreatePlaylistReport(t)
  <2>1. PICK x \in Reports : /\ r.op = "report" /\ tx[t].pc = "begun"
                             /\ report[x] = NoReport /\ ~ReportTaken(t, {x})
                             /\ Decides(t, NoSongs, {x}, {})
    BY <1>14 DEF CreatePlaylistReport, Begun
  <2>2. Granted(t, NoSongs, {x})
    BY <2>1, NoSongsOK, Operations DEF Granted
  <2>3. QED BY <2>1, <2>2
<1>15. CASE DisposePlaylistReport(t)
  <2>1. /\ r.op \in {"resolve", "dismiss"} /\ tx[t].pc = "begun"
        /\ report[r.arg].status = "OPEN" /\ ~ReportTaken(t, {r.arg})
        /\ Decides(t, NoSongs, {r.arg}, {})
    BY <1>15 DEF DisposePlaylistReport, Begun
  <2>2. r.arg \in Reports
    BY <1>1, <2>1, RequestParts
  <2>3. Granted(t, NoSongs, {r.arg})
    BY <2>1, <2>2, NoSongsOK, Operations DEF Granted
  <2>4. QED BY <2>1, <2>3
<1>16. CASE SetFavorite(t)
  <2>1. /\ r.op \in {"favorite", "unfavorite"} /\ tx[t].pc = "begun"
        /\ r.op = "favorite" => r.arg \in visible
        /\ Decides(t, NoSongs, {}, {r.user})
    BY <1>16 DEF SetFavorite, Begun
  <2>2. r.user \in Users
    BY <1>1, <2>1, RequestParts
  <2>3. Granted(t, NoSongs, {})
    BY <1>2, <2>1, NoSongsOK, Operations DEF Granted
  <2>4. QED BY <2>1, <2>2, <2>3
<1>17. CASE DisconnectAccountProvider(t)
  <2>1. /\ r.op = "disconnect" /\ tx[t].pc = "begun" /\ ~UserTaken(t, r.user)
        /\ r.arg \in provider[r.user] /\ Cardinality(provider[r.user]) > 1
        /\ Decides(t, NoSongs, {}, {})
    BY <1>17 DEF DisconnectAccountProvider, Begun
  <2>2. provider[r.user] \ {r.arg} # {}
    <3>1. SUFFICES ASSUME provider[r.user] = {r.arg}
                   PROVE  FALSE
      BY <2>1
    <3>2. Cardinality(provider[r.user]) = 1
      BY <3>1, FS_Singleton
    <3>3. QED BY <2>1, <3>2
  <2>3. Granted(t, NoSongs, {})
    BY <1>2, <2>1, <2>2, NoSongsOK, Operations DEF Granted
  <2>4. QED BY <2>1, <2>3
<1>18. QED BY <1>4, <1>5, <1>6, <1>7, <1>8, <1>9, <1>10, <1>11, <1>12, <1>13,
              <1>14, <1>15, <1>16, <1>17 DEF Decide

\* A step that gives t a new state and touches no data keeps what the others
\* have read; it is left to show the invariant of t.
LEMMA OnlyTx ==
  ASSUME LibraryInv, NEW t \in Txs, NEW mem \in Tx, tx' = [tx EXCEPT ![t] = mem],
         UNCHANGED <<list, users, provider, favorite, version, visible, report>>,
         ops' \in Nat, syncs' = syncs,
         \A o \in Others(t) : Excludes(t, o)' /\ Excludes(o, t)',
         RoomKept(t)' /\ RowsKept(t)' /\ EditKept(t)'
  PROVE  LibraryInv'
<1>1. /\ \A o \in Others(t) : tx'[o] = tx[o]
      /\ tx' \in [Txs -> Tx]
  BY TxSet DEF LibraryInv
<1>2. TypeOK'
  BY <1>1 DEF LibraryInv, TypeOK
<1>3. LocksKept'
  <2>1. ASSUME NEW v \in Txs, NEW o \in Others(v)
        PROVE  Excludes(v, o)'
    <3>1. CASE v = t
      BY <3>1
    <3>2. CASE o = t
      BY <3>2 DEF Others
    <3>3. CASE v # t /\ o # t
      BY <1>1, <3>3, LocksSame DEF LibraryInv, LocksKept, Others
    <3>4. QED BY <3>1, <3>2, <3>3
  <2>2. QED BY <2>1 DEF LocksKept, Others
<1>4. ReadsKept'
  <2>1. ASSUME NEW o \in Others(t)
        PROVE  RoomKept(o)' /\ RowsKept(o)' /\ EditKept(o)'
    BY <1>1, <1>2, <2>1, DataSame, StillKept DEF LibraryInv, ReadsKept, Others
  <2>2. QED BY <2>1 DEF ReadsKept, Others
<1>5. LimitsKept' /\ ProviderKept'
  BY DEF LibraryInv, LimitsKept, ProviderKept, SongsOf, Owned
<1>6. QED BY <1>2, <1>3, <1>4, <1>5 DEF LibraryInv

\* A decision keeps the invariant.
LEMMA DecideKeeps ==
  ASSUME LibraryInv, NEW t \in Txs, Decide(t)
  PROVE  LibraryInv'
<1>1. PICK put, rows, us : /\ Decides(t, put, rows, us) /\ Granted(t, put, rows)
                           /\ us \subseteq Users
  BY DecideGrants DEF LibraryInv
<1>2. PICK r \in Request \cup {NoRequest} : r = tx[t].req
  BY DEF LibraryInv, TypeOK, Tx
<1> DEFINE mem == [tx[t] EXCEPT !.pc = "writing", !.put = put, !.rows = rows,
                                !.todo = us]
<1>3. mem \in Tx
  <2>1. tx[t] \in Tx
    BY DEF LibraryInv, TypeOK
  <2>2. put \in Positions /\ rows \subseteq Reports
    BY <1>1 DEF Granted
  <2>3. QED BY <1>1, <2>1, <2>2 DEF Tx
<1>4. /\ tx' = [tx EXCEPT ![t] = mem] /\ ops' \in Nat /\ syncs' = syncs
      /\ UNCHANGED <<list, users, provider, favorite, version, visible, report>>
  BY <1>1 DEF Decides, LibraryInv, TypeOK
<1>5. mem.pc = "writing" /\ mem.put = put /\ mem.rows = rows /\ mem.req = r
  <2>1. tx[t] \in Tx
    BY DEF LibraryInv, TypeOK
  <2>2. QED BY <1>2, <2>1 DEF Tx
<1> HIDE DEF mem
<1>6. tx'[t] = mem /\ \A o \in Others(t) : tx'[o] = tx[o]
  BY <1>4, TxSet DEF LibraryInv
<1>7. ASSUME NEW o \in Others(t)
      PROVE  Excludes(t, o)' /\ Excludes(o, t)'
  <2>1. PICK q : q = tx[o]
    OBVIOUS
  <2>2. tx'[o] = q /\ o \in Txs /\ t \in Others(o)
    BY <1>6, <2>1 DEF Others
  <2>3. r.op \in ListEdits /\ q.pc = "writing" /\ q.req.op \in ListEdits
          => q.req.list # r.list
    BY <1>1, <1>2, <2>1 DEF Granted, ListTaken, Taken, Writing
  <2>4. r.op \in {"create", "disconnect"} /\ q.pc = "writing"
          /\ q.req.op \in {"create", "disconnect"} => q.req.user # r.user
    BY <1>1, <1>2, <2>1 DEF Granted, UserTaken, Writing
  <2>5. rows \cap q.rows = {}
    BY <1>1, <2>1 DEF Granted, ReportTaken
  <2>6. r.op = "create" /\ q.pc # "idle" /\ q.req.list = r.list =>
          q.req.op = "create" /\ q.pc = "begun"
    BY <1>1, <1>2, <2>1 DEF Granted, Begun
  <2>7. q.pc = "writing" /\ q.req.op = "create" /\ q.req.list = r.list =>
          r.op \in {"leave", "report"}
    <3>1. Excludes(o, t) /\ tx[t].pc = "begun"
      BY <1>1, <2>2 DEF LibraryInv, LocksKept, Granted
    <3>2. QED BY <1>2, <2>1, <2>6, <3>1 DEF Excludes, Writing
  <2>8. Excludes(t, o)'
    BY <1>5, <1>6, <2>2, <2>3, <2>4, <2>5, <2>6 DEF Excludes, Writing
  <2>9. Excludes(o, t)'
    BY <1>5, <1>6, <2>2, <2>3, <2>4, <2>5, <2>7 DEF Excludes, Writing
  <2>10. QED BY <2>8, <2>9
<1>8. RoomKept(t)'
  <2>1. /\ r.op = "addSong" => Cardinality(SongsOf(r.list)) < SongLimit
        /\ r.op = "addMember" => Cardinality(list[r.list].members) < MemberLimit
        /\ r.op = "create" =>
             ~Exists(r.list) /\ Cardinality(Owned(r.user)) < ListLimit
        /\ r.op = "disconnect" => provider[r.user] \ {r.arg} # {}
        /\ r.op \in {"addSong", "favorite"} => r.arg \in visible
    BY <1>1, <1>2 DEF Granted
  <2>2. /\ SongsOf(r.list)' = SongsOf(r.list) /\ Exists(r.list)' = Exists(r.list)
        /\ Owned(r.user)' = Owned(r.user)
    BY <1>4 DEF SongsOf, Exists, Owned
  <2>3. tx'[t].req = r
    BY <1>5, <1>6
  <2>4. QED BY <1>4, <2>1, <2>2, <2>3 DEF RoomKept, Writing
<1>9. RowsKept(t)'
  <2>1. tx'[t].req = r /\ tx'[t].rows = rows /\ tx'[t].pc = "writing"
    BY <1>5, <1>6
  <2>2. QED BY <1>1, <1>2, <1>4, <2>1 DEF Granted, RowsKept, Writing
<1>10. EditKept(t)'
  <2>1. tx'[t].req = r /\ tx'[t].put = put
    BY <1>5, <1>6
  <2>2. /\ Put(r)' = Put(r) /\ SongsOf(r.list)' = SongsOf(r.list)
        /\ HasNeighbour(r.list, r.arg, r.op)' <=> HasNeighbour(r.list, r.arg, r.op)
    BY <1>4, ReadsPositions
  <2>3. QED BY <1>1, <1>2, <2>1, <2>2 DEF Granted, EditKept, Writing
<1>11. QED BY <1>3, <1>4, <1>7, <1>8, <1>9, <1>10, OnlyTx

\* A request locks nothing; it is for a playlist that exists, or is a leave, a
\* report or a creation.
LEMMA BeginKeeps ==
  ASSUME LibraryInv, NEW t \in Txs, Begin(t)
  PROVE  LibraryInv'
<1>1. PICK r \in Request :
        Starts(r) /\ tx' = [tx EXCEPT ![t] = [NoTx EXCEPT !.pc = "begun", !.req = r]]
  BY DEF Begin
<1> DEFINE mem == [NoTx EXCEPT !.pc = "begun", !.req = r]
<1>2. /\ mem \in Tx /\ mem.pc = "begun" /\ mem.req = r /\ mem.rows = {}
  BY NoTxOK DEF Tx, NoTx
<1>3. /\ tx' = [tx EXCEPT ![t] = mem]
      /\ UNCHANGED <<list, users, provider, favorite, version, visible, report>>
      /\ ops' \in Nat /\ syncs' = syncs
  <2>1. ops \in Nat
    BY DEF LibraryInv, TypeOK
  <2>2. /\ ops' = ops + 1 /\ syncs' = syncs
        /\ UNCHANGED <<list, users, provider, favorite, version, visible, report>>
    BY DEF Begin
  <2>3. ops' \in Nat
    BY <2>1, <2>2
  <2>4. QED BY <1>1, <2>2, <2>3
<1> HIDE DEF mem
<1>4. tx'[t] = mem /\ \A o \in Others(t) : tx'[o] = tx[o]
  BY <1>3, TxSet DEF LibraryInv
<1>5. ASSUME NEW o \in Others(t)
      PROVE  Excludes(t, o)' /\ Excludes(o, t)'
  <2>1. PICK q : q = tx[o]
    OBVIOUS
  <2>2. tx'[o] = q /\ o \in Txs
    BY <1>4, <2>1 DEF Others
  <2>3. q.pc = "writing" /\ q.req.op = "create" /\ q.req.list = r.list =>
          r.op \in {"leave", "report", "create"}
    <3>1. SUFFICES ASSUME q.pc = "writing", q.req.op = "create",
                          q.req.list = r.list
                   PROVE  r.op \in {"leave", "report", "create"}
      OBVIOUS
    <3>2. ~Exists(r.list)
      BY <2>1, <2>2, <3>1 DEF LibraryInv, ReadsKept, RoomKept, Writing
    <3>3. r.op \notin ListEdits /\ r.op \notin Moderation
      BY <1>1, <3>2 DEF Starts, Admits
    <3>4. q.req.list \in Lists
      <4>1. q.req \in Request \cup {NoRequest}
        BY <2>1, <2>2 DEF LibraryInv, TypeOK, Tx
      <4>2. QED BY <3>1, <4>1, RequestParts
    <3>5. r.list # None
      BY <3>1, <3>4, NoneAssumption
    <3>6. QED BY <3>3, <3>5 DEF Request, ListEdits
  <2>4. Excludes(t, o)' /\ Excludes(o, t)'
    BY <1>2, <1>4, <2>2, <2>3 DEF Excludes, Writing
  <2>5. QED BY <2>4
<1>6. RoomKept(t)' /\ RowsKept(t)' /\ EditKept(t)'
  BY <1>2, <1>4 DEF RoomKept, RowsKept, EditKept, Writing
<1>7. QED BY <1>2, <1>3, <1>5, <1>6, OnlyTx

\* Invalidating a profile keeps the invariant.
LEMMA MarkKeeps ==
  ASSUME LibraryInv, NEW t \in Txs, Mark(t)
  PROVE  LibraryInv'
<1>1. PICK u \in Upcoming(t) : /\ u \in users
        /\ tx' = [tx EXCEPT ![t] =
                    [tx[t] EXCEPT !.todo = @ \ {u}, !.done = @ \cup {u}]]
  BY DEF Mark
<1>2. PICK q \in Tx : q = tx[t]
  BY DEF LibraryInv, TypeOK
<1> DEFINE mem == [q EXCEPT !.todo = @ \ {u}, !.done = @ \cup {u}]
<1>3. /\ mem \in Tx /\ mem.pc = q.pc /\ mem.req = q.req /\ mem.rows = q.rows
      /\ mem.put = q.put
  BY <1>1 DEF Tx, LibraryInv, TypeOK
<1>4. /\ tx' = [tx EXCEPT ![t] = mem]
      /\ UNCHANGED <<list, users, provider, favorite, version, visible, report>>
      /\ ops' \in Nat /\ syncs' = syncs
  BY <1>1, <1>2 DEF Mark, LibraryInv, TypeOK
<1> HIDE DEF mem
<1>5. tx'[t] = mem /\ \A o \in Others(t) : tx'[o] = tx[o]
  BY <1>4, TxSet DEF LibraryInv
<1>6. ASSUME NEW o \in Others(t)
      PROVE  Excludes(t, o)' /\ Excludes(o, t)'
  <2>1. PICK p : p = tx[o]
    OBVIOUS
  <2>2. tx'[o] = p
    BY <1>5, <2>1
  <2>3. Excludes(t, o) /\ Excludes(o, t)
    BY DEF LibraryInv, LocksKept, Others
  <2>4. Excludes(t, o)'
    BY <1>2, <1>3, <1>5, <2>1, <2>2, <2>3 DEF Excludes, Writing
  <2>5. Excludes(o, t)'
    BY <1>2, <1>3, <1>5, <2>1, <2>2, <2>3 DEF Excludes, Writing
  <2>6. QED BY <2>4, <2>5
<1>7. RoomKept(t) /\ RowsKept(t) /\ EditKept(t)
  BY DEF LibraryInv, ReadsKept
<1>8. PICK r : r = q.req
  OBVIOUS
<1>9. tx'[t].req = r /\ tx[t].req = r
  BY <1>2, <1>3, <1>5, <1>8
<1>10. RoomKept(t)'
  <2>1. /\ SongsOf(r.list)' = SongsOf(r.list) /\ Exists(r.list)' = Exists(r.list)
        /\ Owned(r.user)' = Owned(r.user)
    BY <1>4 DEF SongsOf, Exists, Owned
  <2>2. QED BY <1>2, <1>3, <1>4, <1>5, <1>7, <1>9, <2>1 DEF RoomKept, Writing
<1>11. RowsKept(t)'
  BY <1>2, <1>3, <1>4, <1>5, <1>7, <1>9 DEF RowsKept, Writing
<1>12. EditKept(t)'
  <2>1. /\ Put(r)' = Put(r) /\ SongsOf(r.list)' = SongsOf(r.list)
        /\ HasNeighbour(r.list, r.arg, r.op)' <=> HasNeighbour(r.list, r.arg, r.op)
    BY <1>4, ReadsPositions
  <2>2. QED BY <1>2, <1>3, <1>5, <1>7, <1>9, <2>1 DEF EditKept, Writing
<1>13. QED BY <1>3, <1>4, <1>6, <1>10, <1>11, <1>12, OnlyTx

\* So does a transaction that ends without a commit.
LEMMA EndKeeps ==
  ASSUME LibraryInv, NEW t \in Txs, End(t)
  PROVE  LibraryInv'
<1>1. /\ tx' = [tx EXCEPT ![t] = NoTx] /\ ops' \in Nat /\ syncs' = syncs
      /\ UNCHANGED <<list, users, provider, favorite, version, visible, report>>
  BY DEF End, LibraryInv, TypeOK
<1>2. LocksKept' /\ RoomKept(t)' /\ RowsKept(t)' /\ EditKept(t)'
  BY <1>1, LocksEnded DEF LibraryInv
<1>3. \A o \in Others(t) : Excludes(t, o)' /\ Excludes(o, t)'
  BY <1>2 DEF LocksKept, Others
<1>4. QED BY <1>1, <1>2, <1>3, NoTxOK, OnlyTx

-----------------------------------------------------------------------------
(***************************************************************************)
(* Limits                                                                  *)
(***************************************************************************)
\* LimitsKept, of one playlist and of one user.
SongsFit(p) == Cardinality(SongsOf(p)) <= SongLimit
MembersFit(p) == Cardinality(list[p].members) <= MemberLimit
OwnedFit(u) == Cardinality(Owned(u)) <= ListLimit

\* What becomes smaller still fits.
LEMMA SmallerFits ==
  ASSUME NEW S, IsFiniteSet(S), NEW T, T \subseteq S, NEW n \in Nat,
         Cardinality(S) <= n
  PROVE  Cardinality(T) <= n
<1>1. IsFiniteSet(T) /\ Cardinality(T) <= Cardinality(S)
  BY FS_Subset
<1>2. Cardinality(T) \in Nat /\ Cardinality(S) \in Nat
  BY <1>1, FS_CardinalityType
<1>3. QED BY <1>1, <1>2

\* What there was room for fits after one has been added.
LEMMA OneMoreFits ==
  ASSUME NEW S, IsFiniteSet(S), NEW e, NEW T, T \subseteq S \cup {e},
         NEW n \in Nat, Cardinality(S) < n
  PROVE  Cardinality(T) <= n
<1>1. IsFiniteSet(S \cup {e}) /\ Cardinality(S) \in Nat
  BY FS_AddElement, FS_CardinalityType
<1>2. Cardinality(S \cup {e}) <= Cardinality(S) + 1
  BY <1>1, FS_AddElement
<1>3. Cardinality(S \cup {e}) \in Nat
  BY <1>1, FS_CardinalityType
<1>4. QED BY <1>1, <1>2, <1>3, SmallerFits

\* The songs, collaborators and playlists are finitely many.
LEMMA FiniteParts ==
  ASSUME TypeOK, NEW p \in Lists, NEW u
  PROVE  /\ IsFiniteSet(SongsOf(p)) /\ IsFiniteSet(list[p].members)
         /\ IsFiniteSet(Owned(u))
<1>1. SongsOf(p) \subseteq Songs /\ Owned(u) \subseteq Lists
  BY DEF SongsOf, Placed, Owned
<1>2. list[p].members \subseteq Users
  BY DEF TypeOK, List
<1>3. QED BY <1>1, <1>2, FiniteAssumption, FS_Subset

\* So every limit is kept by what only shrinks.
LEMMA FitStays ==
  ASSUME TypeOK, LimitsKept, NEW p \in Lists, NEW u
  PROVE  /\ Placed(list'[p].at) \subseteq SongsOf(p) => SongsFit(p)'
         /\ list'[p].members \subseteq list[p].members => MembersFit(p)'
         /\ u \in Users /\ Owned(u)' \subseteq Owned(u) => OwnedFit(u)'
<1>1. IsFiniteSet(SongsOf(p)) /\ IsFiniteSet(list[p].members)
        /\ IsFiniteSet(Owned(u))
  BY FiniteParts
<1>2. SongLimit \in Nat /\ MemberLimit \in Nat /\ ListLimit \in Nat
  BY LimitsAssumption
<1>3. /\ Cardinality(SongsOf(p)) <= SongLimit
      /\ Cardinality(list[p].members) <= MemberLimit
      /\ u \in Users => Cardinality(Owned(u)) <= ListLimit
  BY DEF LimitsKept
<1>4. ASSUME Placed(list'[p].at) \subseteq SongsOf(p)
      PROVE  SongsFit(p)'
  <2>1. Cardinality(Placed(list'[p].at)) <= SongLimit
    BY <1>1, <1>2, <1>3, <1>4, SmallerFits
  <2>2. QED BY <2>1 DEF SongsFit, SongsOf
<1>5. ASSUME list'[p].members \subseteq list[p].members
      PROVE  MembersFit(p)'
  <2>1. Cardinality(list'[p].members) <= MemberLimit
    BY <1>1, <1>2, <1>3, <1>5, SmallerFits
  <2>2. QED BY <2>1 DEF MembersFit
<1>6. ASSUME u \in Users, Owned(u)' \subseteq Owned(u)
      PROVE  OwnedFit(u)'
  <2>1. Cardinality(Owned(u)') <= ListLimit
    BY <1>1, <1>2, <1>3, <1>6, SmallerFits
  <2>2. QED BY <2>1 DEF OwnedFit, Owned
<1>7. QED BY <1>4, <1>5, <1>6

\* LimitsKept is the three together.
LEMMA LimitsParts ==
  ASSUME \A p \in Lists : SongsFit(p)' /\ MembersFit(p)',
         \A u \in Users : OwnedFit(u)'
  PROVE  LimitsKept'
  BY DEF LimitsKept, SongsFit, MembersFit, OwnedFit

-----------------------------------------------------------------------------
(***************************************************************************)
(* Single statements                                                       *)
(***************************************************************************)
\* A statement outside the transactions disturbs none of them.
LEMMA StatementKeeps ==
  ASSUME LibraryInv, TypeOK', tx' = tx, \A o \in Txs : Undisturbed(o),
         LimitsKept', ProviderKept'
  PROVE  LibraryInv'
<1>1. LocksKept'
  <2>1. ASSUME NEW v \in Txs, NEW o \in Others(v)
        PROVE  Excludes(v, o)'
    BY LocksSame DEF LibraryInv, LocksKept, Others
  <2>2. QED BY <2>1 DEF LocksKept, Others
<1>2. ReadsKept'
  <2>1. ASSUME NEW o \in Txs
        PROVE  RoomKept(o)' /\ RowsKept(o)' /\ EditKept(o)'
    BY StillKept DEF LibraryInv, ReadsKept
  <2>2. QED BY <2>1 DEF ReadsKept
<1>3. QED BY <1>1, <1>2 DEF LibraryInv

\* The sync hides no song that somebody has locked.
LEMMA SyncSongKeeps ==
  ASSUME LibraryInv, NEW s \in Songs, SyncSong(s)
  PROVE  LibraryInv'
<1>1. TypeOK'
  <2>1. syncs' \in Nat /\ visible' \subseteq Songs
    BY DEF SyncSong, LibraryInv, TypeOK
  <2>2. QED BY <2>1 DEF SyncSong, LibraryInv, TypeOK
<1>2. LimitsKept' /\ ProviderKept'
  BY DEF SyncSong, LibraryInv, LimitsKept, ProviderKept, SongsOf, Owned
<1>3. ASSUME NEW o \in Txs
      PROVE  Undisturbed(o)
  <2>1. Writing(o, {"addSong", "favorite"}) => tx[o].req.arg # s
    BY DEF SyncSong, SongTaken
  <2>2. QED BY <2>1 DEF SyncSong, Undisturbed
<1>4. QED BY <1>1, <1>2, <1>3, StatementKeeps DEF SyncSong

\* The cleanup removes no report that somebody has locked.
LEMMA CleanReportKeeps ==
  ASSUME LibraryInv, NEW x \in Reports, CleanReport(x)
  PROVE  LibraryInv'
<1>1. TypeOK'
  BY NoListOK DEF CleanReport, LibraryInv, TypeOK
<1>2. LimitsKept' /\ ProviderKept'
  BY DEF CleanReport, LibraryInv, LimitsKept, ProviderKept, SongsOf, Owned
<1>3. ASSUME NEW o \in Txs
      PROVE  Undisturbed(o)
  <2>1. \A y \in tx[o].rows : report'[y] = report[y]
    BY DEF CleanReport, LibraryInv, TypeOK, Tx
  <2>2. QED BY <2>1 DEF CleanReport, Undisturbed
<1>4. QED BY <1>1, <1>2, <1>3, StatementKeeps DEF CleanReport

\* The deletion of an account waits for whoever has locked a row of it.
LEMMA DeleteUserAccountKeeps ==
  ASSUME LibraryInv, NEW u \in Users, DeleteUserAccount(u)
  PROVE  LibraryInv'
<1>0. /\ list \in [Lists -> List] /\ report \in [Reports -> Report]
      /\ tx \in [Txs -> Tx] /\ ops \in Nat
  BY DEF LibraryInv, TypeOK
<1>1. /\ \A p \in Lists : list'[p] = IF p \in Owned(u) THEN NoList
                                     ELSE [list[p] EXCEPT !.members = @ \ {u}]
      /\ \A x \in Reports : report'[x] =
           [report[x] EXCEPT !.reporter = IF @ = u THEN None ELSE @,
                             !.list = IF @ \in Owned(u) THEN None ELSE @]
  BY DEF DeleteUserAccount
<1>2. ASSUME NEW p \in Lists
      PROVE  /\ list'[p] \in List
             /\ p \notin Owned(u) =>
                  /\ list'[p].at = list[p].at
                  /\ list'[p].owner = list[p].owner
                  /\ list'[p].members = list[p].members \ {u}
             /\ p \in Owned(u) => list'[p] = NoList
  <2>1. CASE p \in Owned(u)
    BY <1>1, <2>1, NoListOK
  <2>2. CASE p \notin Owned(u)
    <3>1. list'[p] = [list[p] EXCEPT !.members = @ \ {u}] /\ list[p] \in List
      BY <1>0, <1>1, <2>2
    <3>2. QED BY <2>2, <3>1 DEF List
  <2>3. QED BY <2>1, <2>2
<1>3. ASSUME NEW x \in Reports
      PROVE  /\ report'[x] \in Report /\ report'[x].status = report[x].status
             /\ report[x] = NoReport => report'[x] = NoReport
  <2>1. PICK q \in Report : q = report[x]
    BY <1>0
  <2>2. report'[x] = [q EXCEPT !.reporter = IF q.reporter = u THEN None ELSE q.reporter,
                               !.list = IF q.list \in Owned(u) THEN None ELSE q.list]
    BY <1>1, <2>1
  <2>3. report'[x] \in Report /\ report'[x].status = q.status
    BY <2>2 DEF Report
  <2>4. ASSUME q = NoReport
        PROVE  report'[x] = NoReport
    <3>1. q.reporter = None /\ q.list = None
      BY <2>4 DEF NoReport
    <3>2. report'[x] = [NoReport EXCEPT !.reporter = None, !.list = None]
      BY <2>2, <2>4, <3>1
    <3>3. QED BY <3>2 DEF NoReport
  <2>5. QED BY <2>1, <2>3, <2>4
<1>4. TypeOK'
  <2>1. list' \in [Lists -> List]
    BY <1>2 DEF DeleteUserAccount
  <2>2. report' \in [Reports -> Report]
    BY <1>3 DEF DeleteUserAccount
  <2>3. /\ users' \subseteq Users
        /\ provider' \in [Users -> SUBSET Providers]
        /\ favorite' \in [Users -> SUBSET Songs]
        /\ version' \in [Users -> Nat]
    BY DEF DeleteUserAccount, LibraryInv, TypeOK
  <2>4. ops' \in Nat /\ UNCHANGED <<visible, tx, syncs>>
    <3>1. ops' = ops + 1 /\ UNCHANGED <<visible, tx, syncs>>
      BY DEF DeleteUserAccount
    <3>2. QED BY <1>0, <3>1
  <2>5. QED BY <2>1, <2>2, <2>3, <2>4 DEF LibraryInv, TypeOK
<1>5. LimitsKept'
  <2>1. ASSUME NEW p \in Lists
        PROVE  SongsFit(p)' /\ MembersFit(p)'
    <3>1. Placed(list'[p].at) \subseteq SongsOf(p)
            /\ list'[p].members \subseteq list[p].members
      <4>1. CASE p \in Owned(u)
        BY <1>2, <4>1 DEF NoList, NoSongs, Placed
      <4>2. CASE p \notin Owned(u)
        BY <1>2, <4>2 DEF SongsOf
      <4>3. QED BY <4>1, <4>2
    <3>2. QED BY <3>1, FitStays DEF LibraryInv
  <2>2. ASSUME NEW v \in Users, NEW p \in Lists
        PROVE  OwnedFit(v)'
    <3>1. Owned(v)' \subseteq Owned(v)
      <4>1. ASSUME NEW q \in Lists, list'[q].owner = v
            PROVE  list[q].owner = v
        <5>1. q \notin Owned(u)
          BY <1>2, <4>1, NoneAssumption DEF NoList
        <5>2. QED BY <1>2, <4>1, <5>1
      <4>2. QED BY <4>1 DEF Owned
    <3>2. QED BY <3>1, FitStays DEF LibraryInv
  <2>3. ASSUME NEW v \in Users, Lists = {}
        PROVE  OwnedFit(v)'
    <3>1. Owned(v)' = {}
      BY <2>3 DEF Owned
    <3>2. QED BY <3>1, FS_EmptySet, LimitsAssumption DEF OwnedFit
  <2>4. QED BY <2>1, <2>2, <2>3, LimitsParts
<1>6. ProviderKept'
  BY DEF DeleteUserAccount, LibraryInv, TypeOK, ProviderKept
<1>7. ASSUME NEW o \in Txs
      PROVE  Undisturbed(o)
  <2>1. PICK q \in Tx : q = tx[o]
    BY <1>0
  <2>2. PICK r \in Request \cup {NoRequest} : r = q.req
    BY DEF Tx
  <2>3. /\ ~Uses(o, u)
        /\ \A x \in q.rows : x \in Reports
    BY <2>1 DEF DeleteUserAccount, Tx
  <2>4. q.pc = "writing" =>
          /\ r.user # u \/ r.op \notin {"create", "disconnect"}
          /\ r.list \in Lists => r.list \notin Owned(u)
    BY <2>1, <2>2, <2>3, NoneAssumption DEF Uses, Owned
  <2>5. Writing(o, SongEdits) => list'[r.list].at = list[r.list].at
    BY <1>2, <2>1, <2>2, <2>4, RequestParts DEF Writing
  <2>6. Writing(o, {"addMember"}) =>
          list'[r.list].members \subseteq list[r.list].members
    BY <1>2, <2>1, <2>2, <2>4, RequestParts DEF Writing, MemberEdits
  <2>7. Writing(o, {"create"}) =>
          /\ list'[r.list].owner = list[r.list].owner
          /\ \A p \in Lists : list'[p].owner = r.user => list[p].owner = r.user
    <3>1. SUFFICES ASSUME Writing(o, {"create"})
                   PROVE  /\ list'[r.list].owner = list[r.list].owner
                          /\ \A p \in Lists : list'[p].owner = r.user =>
                               list[p].owner = r.user
      OBVIOUS
    <3>2. r.list \in Lists /\ r.user \in Users
      BY <2>1, <2>2, <3>1, RequestParts DEF Writing
    <3>3. r.list \notin Owned(u)
      BY <2>1, <2>4, <3>1, <3>2 DEF Writing
    <3>4. QED BY <1>2, <3>2, <3>3, NoneAssumption DEF NoList
  <2>8. Writing(o, {"disconnect"}) => provider'[r.user] = provider[r.user]
    <3>1. ASSUME Writing(o, {"disconnect"})
          PROVE  provider'[r.user] = provider[r.user]
      <4>1. r.user \in Users /\ r.user # u
        BY <2>1, <2>2, <2>4, <3>1, RequestParts DEF Writing
      <4>2. QED BY <4>1 DEF DeleteUserAccount, LibraryInv, TypeOK
    <3>2. QED BY <3>1
  <2>9. \A x \in q.rows : /\ report'[x].status = report[x].status
                          /\ report[x] = NoReport => report'[x] = NoReport
    BY <1>3, <2>3
  <2>10. visible' = visible
    BY DEF DeleteUserAccount
  <2>11. QED BY <2>1, <2>2, <2>5, <2>6, <2>7, <2>8, <2>9, <2>10 DEF Undisturbed
<1>8. QED BY <1>4, <1>5, <1>6, <1>7, StatementKeeps DEF DeleteUserAccount

-----------------------------------------------------------------------------
(***************************************************************************)
(* Commits                                                                 *)
(***************************************************************************)
\* What the locks of t mean for what another transaction has read.
LEMMA KeptApart ==
  ASSUME LibraryInv, NEW t \in Txs, NEW o \in Others(t)
  PROVE  /\ Writing(t, ListEdits \cup {"create"})
              /\ Writing(o, SongEdits \cup {"addMember"}) =>
              tx[o].req.list # tx[t].req.list
         /\ Writing(t, ListEdits \cup Moderation \cup {"create"})
              /\ Writing(o, {"create"}) => tx[o].req.list # tx[t].req.list
         /\ Writing(t, {"create", "disconnect"}) /\ Writing(o, {"create", "disconnect"})
              => tx[o].req.user # tx[t].req.user
         /\ tx[o].rows \cap tx[t].rows = {}
<1>1. Excludes(t, o) /\ Excludes(o, t)
  BY DEF LibraryInv, LocksKept, Others
<1>2. /\ tx[t].pc = "writing" /\ tx[o].pc = "writing" /\ tx[t].req.op \in ListEdits
        /\ tx[o].req.op \in ListEdits => tx[t].req.list # tx[o].req.list
      /\ tx[t].pc = "writing" /\ tx[t].req.op = "create" /\ tx[o].pc = "writing"
        /\ tx[o].req.list = tx[t].req.list => tx[o].req.op \in {"leave", "report"}
      /\ tx[o].pc = "writing" /\ tx[o].req.op = "create" /\ tx[t].pc = "writing"
        /\ tx[t].req.list = tx[o].req.list => tx[t].req.op \in {"leave", "report"}
  BY <1>1 DEF Excludes, Writing
<1>3. QED BY <1>1, <1>2, Operations DEF Excludes, Writing, SongEdits

\* A commit that writes one playlist's row disturbs nobody: it writes what only
\* the holder of the row's lock may have read, or less.
LEMMA RowWritten ==
  ASSUME LibraryInv, NEW t \in Txs, NEW row \in List, tx[t].req.list \in Lists,
         list' = [list EXCEPT ![tx[t].req.list] = row],
         UNCHANGED <<provider, visible>>,
         Writing(t, ListEdits \cup Moderation \cup {"leave", "create"}),
         Writing(t, Moderation \cup {"leave"}) =>
           /\ row.at = list[tx[t].req.list].at
           /\ row.members \subseteq list[tx[t].req.list].members
           /\ row.owner = list[tx[t].req.list].owner,
         \/ row.owner \in {list[tx[t].req.list].owner, None}
         \/ Writing(t, {"create"}) /\ row.owner = tx[t].req.user,
         \A x \in Reports : \/ x \in tx[t].rows
                            \/ /\ report'[x].status = report[x].status
                               /\ report[x] = NoReport => report'[x] = NoReport,
         NEW o \in Others(t)
  PROVE  Undisturbed(o)
<1>1. PICK p \in Lists : p = tx[t].req.list
  OBVIOUS
<1>2. o \in Txs /\ list \in [Lists -> List] /\ tx[o] \in Tx
  BY DEF Others, LibraryInv, TypeOK
<1>3. PICK r \in Request \cup {NoRequest} : r = tx[o].req
  BY <1>2 DEF Tx
<1>4. list'[p] = row /\ \A q \in Lists : q # p => list'[q] = list[q]
  BY <1>1, <1>2
<1>5. /\ Writing(t, ListEdits \cup {"create"})
           /\ Writing(o, SongEdits \cup {"addMember"}) => r.list # p
      /\ Writing(t, ListEdits \cup Moderation \cup {"create"})
           /\ Writing(o, {"create"}) => r.list # p
      /\ Writing(t, {"create"}) /\ Writing(o, {"create"}) => r.user # tx[t].req.user
      /\ tx[o].rows \cap tx[t].rows = {}
  <2>1. Writing(t, {"create"}) => Writing(t, {"create", "disconnect"})
    BY DEF Writing
  <2>2. Writing(o, {"create"}) => Writing(o, {"create", "disconnect"})
    BY DEF Writing
  <2>3. QED BY <1>1, <1>3, <2>1, <2>2, KeptApart
<1>6. Writing(t, ListEdits \cup {"create"}) \/ Writing(t, Moderation \cup {"leave"})
  BY DEF Writing
<1>7. ASSUME Writing(o, SongEdits)
      PROVE  list'[r.list].at = list[r.list].at
  <2>1. r.list \in Lists /\ Writing(o, SongEdits \cup {"addMember"})
    BY <1>3, <1>7, RequestParts DEF Writing
  <2>2. QED BY <1>1, <1>4, <1>5, <1>6, <2>1
<1>8. ASSUME Writing(o, {"addMember"})
      PROVE  list'[r.list].members \subseteq list[r.list].members
  <2>1. r.list \in Lists /\ Writing(o, SongEdits \cup {"addMember"})
    BY <1>3, <1>8, RequestParts DEF Writing, MemberEdits
  <2>2. QED BY <1>1, <1>4, <1>5, <1>6, <2>1
<1>9. ASSUME Writing(o, {"create"})
      PROVE  /\ list'[r.list].owner = list[r.list].owner
             /\ \A q \in Lists : list'[q].owner = r.user => list[q].owner = r.user
  <2>1. r.list \in Lists /\ r.user \in Users
    BY <1>3, <1>9, RequestParts DEF Writing
  <2>2. list'[r.list].owner = list[r.list].owner
    <3>1. CASE r.list = p
      <4>1. Writing(t, {"leave"})
        BY <1>5, <1>9, <3>1 DEF Writing
      <4>2. Writing(t, Moderation \cup {"leave"})
        BY <4>1 DEF Writing
      <4>3. QED BY <1>1, <1>4, <3>1, <4>2
    <3>2. CASE r.list # p
      BY <1>4, <2>1, <3>2
    <3>3. QED BY <3>1, <3>2
  <2>3. row.owner # r.user \/ row.owner = list[p].owner
    BY <1>1, <1>5, <1>9, <2>1, NoneAssumption
  <2>4. QED BY <1>1, <1>4, <2>2, <2>3
<1>10. \A x \in tx[o].rows : /\ report'[x].status = report[x].status
                             /\ report[x] = NoReport => report'[x] = NoReport
  BY <1>2, <1>5 DEF Tx
<1>11. QED BY <1>3, <1>7, <1>8, <1>9, <1>10 DEF Undisturbed

\* A commit that disturbs nobody and keeps the limits keeps the invariant.
LEMMA CommitKeeps ==
  ASSUME LibraryInv, NEW t \in Txs, NEW os, Commits(t, os),
         list' \in [Lists -> List], provider' \in [Users -> SUBSET Providers],
         favorite' \in [Users -> SUBSET Songs], report' \in [Reports -> Report],
         \A o \in Others(t) : Undisturbed(o), LimitsKept', ProviderKept'
  PROVE  LibraryInv'
<1>1. tx' = [tx EXCEPT ![t] = NoTx] /\ UNCHANGED <<users, visible, ops, syncs>>
  BY DEF Commits
<1>2. /\ LocksKept' /\ RoomKept(t)' /\ RowsKept(t)' /\ EditKept(t)'
      /\ \A o \in Others(t) : tx'[o] = tx[o]
      /\ tx' \in [Txs -> Tx]
  BY <1>1, LocksEnded DEF LibraryInv
<1>3. version' \in [Users -> Nat]
  BY DEF Commits, Versions, LibraryInv, TypeOK
<1>4. TypeOK'
  BY <1>1, <1>2, <1>3 DEF LibraryInv, TypeOK
<1>5. ReadsKept'
  <2>1. ASSUME NEW o \in Others(t)
        PROVE  RoomKept(o)' /\ RowsKept(o)' /\ EditKept(o)'
    BY <1>2, <1>4, StillKept DEF LibraryInv, ReadsKept, Others
  <2>2. QED BY <1>2, <2>1 DEF ReadsKept, Others
<1>6. QED BY <1>2, <1>4, <1>5 DEF LibraryInv

\* A commit that writes one playlist's row: what is left to show is that the row
\* keeps the limits.
LEMMA RowCommitKeeps ==
  ASSUME LibraryInv, NEW t \in Txs, NEW os, Commits(t, os),
         NEW p \in Lists, p = tx[t].req.list, NEW row \in List,
         list' = [list EXCEPT ![p] = row],
         UNCHANGED <<provider, favorite>>, report' \in [Reports -> Report],
         Writing(t, ListEdits \cup Moderation \cup {"leave", "create"}),
         Writing(t, Moderation \cup {"leave"}) =>
           /\ row.at = list[p].at /\ row.members \subseteq list[p].members
           /\ row.owner = list[p].owner,
         \/ row.owner \in {list[p].owner, None}
         \/ Writing(t, {"create"}) /\ row.owner = tx[t].req.user,
         \A x \in Reports : \/ x \in tx[t].rows
                            \/ /\ report'[x].status = report[x].status
                               /\ report[x] = NoReport => report'[x] = NoReport,
         Cardinality(Placed(row.at)) <= SongLimit,
         Cardinality(row.members) <= MemberLimit
  PROVE  LibraryInv'
<1>1. list \in [Lists -> List] /\ TypeOK /\ LimitsKept /\ RoomKept(t)
  BY DEF LibraryInv, TypeOK, ReadsKept
<1>2. /\ list' \in [Lists -> List] /\ list'[p] = row
      /\ \A q \in Lists : q # p => list'[q] = list[q]
  BY <1>1
<1>3. UNCHANGED <<provider, visible>> /\ users' = users
  BY DEF Commits
<1>4. \A o \in Others(t) : Undisturbed(o)
  BY <1>3, RowWritten
<1>5. ASSUME NEW q \in Lists
      PROVE  SongsFit(q)' /\ MembersFit(q)'
  <2>1. CASE q = p
    BY <1>2, <2>1 DEF SongsFit, MembersFit, SongsOf
  <2>2. CASE q # p
    BY <1>1, <1>2, <2>2, FitStays DEF SongsOf
  <2>3. QED BY <2>1, <2>2
<1>6. ASSUME NEW u \in Users
      PROVE  OwnedFit(u)'
  <2>1. CASE row.owner = u /\ list[p].owner # u
    <3>1. Writing(t, {"create"}) /\ tx[t].req.user = u
      BY <2>1, NoneAssumption
    <3>2. Cardinality(Owned(u)) < ListLimit
      BY <1>1, <3>1 DEF RoomKept
    <3>3. Owned(u)' \subseteq Owned(u) \cup {p}
      BY <1>2 DEF Owned
    <3>4. Cardinality(Owned(u)') <= ListLimit
      BY <1>1, <3>2, <3>3, FiniteParts, LimitsAssumption, OneMoreFits
    <3>5. QED BY <3>4 DEF OwnedFit, Owned
  <2>2. CASE ~(row.owner = u /\ list[p].owner # u)
    <3>1. Owned(u)' \subseteq Owned(u)
      BY <1>2, <2>2 DEF Owned
    <3>2. QED BY <1>1, <3>1, FitStays
  <2>3. QED BY <2>1, <2>2
<1>7. LimitsKept'
  BY <1>5, <1>6, LimitsParts
<1>8. ProviderKept'
  BY <1>3 DEF LibraryInv, ProviderKept
<1>9. /\ provider' \in [Users -> SUBSET Providers]
      /\ favorite' \in [Users -> SUBSET Songs]
  BY <1>1 DEF TypeOK
<1>10. QED BY <1>2, <1>4, <1>7, <1>8, <1>9, CommitKeeps

\* The rows of playlists before a commit, and its request.
LEMMA Committing ==
  ASSUME LibraryInv, NEW t \in Txs,
         Writing(t, ListEdits \cup Moderation \cup {"leave", "create", "report"})
  PROVE  /\ tx[t].req.list \in Lists /\ list[tx[t].req.list] \in List
         /\ Cardinality(SongsOf(tx[t].req.list)) <= SongLimit
         /\ Cardinality(list[tx[t].req.list].members) <= MemberLimit
         /\ tx[t].put \in Positions
         /\ RoomKept(t) /\ RowsKept(t) /\ EditKept(t)
<1>1. tx[t] \in Tx /\ list \in [Lists -> List] /\ LimitsKept
  BY DEF LibraryInv, TypeOK
<1>2. PICK r \in Request \cup {NoRequest} : r = tx[t].req
  BY <1>1 DEF Tx
<1>3. r.list \in Lists
  BY <1>2, RequestParts DEF Writing, ListEdits
<1>4. QED BY <1>1, <1>2, <1>3 DEF LimitsKept, Tx, LibraryInv, ReadsKept

\* Everybody may be disturbed by a report only through the rows it has locked.
LEMMA ReportsSame ==
  ASSUME UNCHANGED report
  PROVE  \A x \in Reports : /\ report'[x].status = report[x].status
                            /\ report[x] = NoReport => report'[x] = NoReport
  OBVIOUS

\* A song is added where there is room, or two change places.
LEMMA CommitPositionsKeeps ==
  ASSUME LibraryInv, NEW t \in Txs, CommitPositions(t)
  PROVE  LibraryInv'
<1>1. PICK p : p = tx[t].req.list
  OBVIOUS
<1>2. PICK r \in Request \cup {NoRequest} : r = tx[t].req
  BY DEF LibraryInv, TypeOK, Tx
<1>3. PICK put : put = tx[t].put
  OBVIOUS
<1> DEFINE at == Overlay(p, put)
           row == [list[p] EXCEPT !.at = at]
<1>4. /\ Commits(t, {"addSong", "moveUp", "moveDown"})
      /\ list' = [list EXCEPT ![p] = row]
      /\ UNCHANGED <<provider, favorite, report>>
  BY <1>1, <1>3 DEF CommitPositions
<1>5. /\ r.op \in {"addSong", "moveUp", "moveDown"} /\ r.list = p
      /\ Writing(t, {r.op}) /\ Writing(t, {"addSong", "moveUp", "moveDown"})
  BY <1>1, <1>2, <1>4 DEF Commits, Writing
<1>6. /\ p \in Lists /\ list[p] \in List /\ put \in Positions
      /\ Cardinality(SongsOf(p)) <= SongLimit
      /\ Cardinality(list[p].members) <= MemberLimit
      /\ RoomKept(t) /\ EditKept(t)
  <2>1. Writing(t, ListEdits \cup Moderation \cup {"leave", "create", "report"})
    BY <1>5, Operations DEF Writing
  <2>2. QED BY <1>1, <1>3, <2>1, Committing
<1>7. at \in Positions /\ Placed(at) \subseteq SongsOf(p) \cup Placed(put)
  BY <1>6 DEF Overlay, Positions, Placed, SongsOf, List
<1>8. r.arg \in Songs /\ r.op \in SongEdits
  BY <1>5, RequestParts DEF SongEdits
<1>9. Cardinality(Placed(at)) <= SongLimit
  <2>1. IsFiniteSet(SongsOf(p)) /\ SongLimit \in Nat
    BY <1>6, FiniteParts, LimitsAssumption DEF LibraryInv
  <2>2. CASE r.op = "addSong"
    <3>1. Writing(t, {"addSong"})
      BY <1>5, <2>2 DEF Writing
    <3>2. Cardinality(SongsOf(p)) < SongLimit /\ put = Put(r)
      BY <1>2, <1>3, <1>5, <1>6, <3>1 DEF RoomKept, EditKept
    <3>3. Placed(put) = {r.arg}
      BY <1>5, <1>6, <1>8, <2>2, <3>2, PutPlaces, ReadsPositions DEF List
    <3>4. QED BY <1>7, <2>1, <3>2, <3>3, OneMoreFits
  <2>3. CASE r.op # "addSong"
    <3>1. Writing(t, {"moveUp", "moveDown"}) /\ r.op \in {"moveUp", "moveDown"}
      BY <1>5, <2>3 DEF Writing
    <3>2. /\ r.arg \in SongsOf(p) /\ HasNeighbour(p, r.arg, r.op)
          /\ put = Put(r)
      BY <1>2, <1>3, <1>5, <1>6, <3>1 DEF EditKept
    <3>3. /\ r.arg \in Placed(list[p].at) /\ NearAt(list[p].at, r.arg, r.op)
          /\ put = PutAt(list[p].at, r.arg, r.op)
      BY <1>5, <3>2, ReadsPositions
    <3>4. Placed(put) \subseteq Placed(list[p].at)
      BY <1>6, <1>8, <3>1, <3>3, PutPlaces DEF List
    <3>5. Placed(at) \subseteq SongsOf(p)
      BY <1>7, <3>4 DEF SongsOf
    <3>6. QED BY <1>6, <2>1, <3>5, SmallerFits
  <2>4. QED BY <2>2, <2>3
<1> HIDE DEF at
<1>10. /\ row \in List /\ row.at = at /\ row.members = list[p].members
       /\ row.owner = list[p].owner
  BY <1>6, <1>7 DEF List
<1> HIDE DEF row
<1>11. /\ Writing(t, ListEdits \cup Moderation \cup {"leave", "create"})
       /\ ~Writing(t, Moderation \cup {"leave"})
  BY <1>5, <1>2, Operations DEF Writing
<1>12. report' \in [Reports -> Report]
  BY <1>4 DEF LibraryInv, TypeOK
<1>13. QED BY <1>1, <1>4, <1>6, <1>9, <1>10, <1>11, <1>12, ReportsSame,
              RowCommitKeeps

\* A song is taken out.
LEMMA CommitRemovalKeeps ==
  ASSUME LibraryInv, NEW t \in Txs, CommitRemoval(t)
  PROVE  LibraryInv'
<1>1. PICK p : p = tx[t].req.list
  OBVIOUS
<1>2. PICK s : s = tx[t].req.arg
  OBVIOUS
<1> DEFINE at == [list[p].at EXCEPT ![s] = None]
           row == [list[p] EXCEPT !.at = at]
<1>3. /\ Commits(t, {"removeSong"}) /\ list' = [list EXCEPT ![p] = row]
      /\ UNCHANGED <<provider, favorite, report>>
  BY <1>1, <1>2 DEF CommitRemoval
<1>4. tx[t].pc = "writing" /\ tx[t].req.op = "removeSong"
  BY <1>3 DEF Commits, Writing
<1>5. /\ Writing(t, ListEdits \cup Moderation \cup {"leave", "create"})
      /\ Writing(t, ListEdits \cup Moderation \cup {"leave", "create", "report"})
      /\ ~Writing(t, Moderation \cup {"leave"})
  BY <1>4, Operations DEF Writing
<1>6. /\ p \in Lists /\ list[p] \in List
      /\ Cardinality(SongsOf(p)) <= SongLimit
      /\ Cardinality(list[p].members) <= MemberLimit
  BY <1>1, <1>5, Committing
<1>7. at \in Positions /\ Placed(at) \subseteq SongsOf(p)
  BY <1>6 DEF List, Positions, Placed, SongsOf
<1>8. Cardinality(Placed(at)) <= SongLimit
  BY <1>6, <1>7, FiniteParts, LimitsAssumption, SmallerFits DEF LibraryInv
<1> HIDE DEF at
<1>9. /\ row \in List /\ row.at = at /\ row.members = list[p].members
      /\ row.owner = list[p].owner
  BY <1>6, <1>7 DEF List
<1> HIDE DEF row
<1>10. report' \in [Reports -> Report]
  BY <1>3 DEF LibraryInv, TypeOK
<1>11. QED BY <1>1, <1>3, <1>5, <1>6, <1>8, <1>9, <1>10, ReportsSame,
              RowCommitKeeps

\* A collaborator is added where there is room.
LEMMA CommitJoinKeeps ==
  ASSUME LibraryInv, NEW t \in Txs, CommitJoin(t)
  PROVE  LibraryInv'
<1>1. PICK p : p = tx[t].req.list
  OBVIOUS
<1>2. PICK u : u = tx[t].req.arg
  OBVIOUS
<1> DEFINE row == [list[p] EXCEPT !.members = @ \cup {u}]
<1>3. /\ Commits(t, {"addMember"}) /\ list' = [list EXCEPT ![p] = row]
      /\ UNCHANGED <<provider, favorite, report>>
  BY <1>1, <1>2 DEF CommitJoin
<1>4. tx[t].pc = "writing" /\ tx[t].req.op = "addMember" /\ Writing(t, {"addMember"})
  BY <1>3 DEF Commits, Writing
<1>5. /\ Writing(t, ListEdits \cup Moderation \cup {"leave", "create"})
      /\ Writing(t, ListEdits \cup Moderation \cup {"leave", "create", "report"})
      /\ ~Writing(t, Moderation \cup {"leave"})
  BY <1>4, Operations DEF Writing
<1>6. /\ p \in Lists /\ list[p] \in List /\ RoomKept(t)
      /\ Cardinality(SongsOf(p)) <= SongLimit
  BY <1>1, <1>5, Committing
<1>7. u \in Users
  <2>1. tx[t].req \in Request \cup {NoRequest}
    BY DEF LibraryInv, TypeOK, Tx
  <2>2. QED BY <1>2, <1>4, <2>1, RequestParts DEF MemberEdits
<1>8. Cardinality(list[p].members) < MemberLimit
  BY <1>1, <1>4, <1>6 DEF RoomKept
<1>9. Cardinality(list[p].members \cup {u}) <= MemberLimit
  BY <1>6, <1>8, FiniteParts, LimitsAssumption, OneMoreFits DEF LibraryInv
<1>10. /\ row \in List /\ row.at = list[p].at /\ row.owner = list[p].owner
       /\ row.members = list[p].members \cup {u}
  BY <1>6, <1>7 DEF List
<1> HIDE DEF row
<1>11. report' \in [Reports -> Report] /\ Placed(row.at) = SongsOf(p)
  BY <1>3, <1>10 DEF LibraryInv, TypeOK, SongsOf
<1>12. QED BY <1>1, <1>3, <1>5, <1>6, <1>9, <1>10, <1>11, ReportsSame,
              RowCommitKeeps

\* A collaborator leaves or is removed.
LEMMA CommitQuitKeeps ==
  ASSUME LibraryInv, NEW t \in Txs, CommitQuit(t)
  PROVE  LibraryInv'
<1>1. PICK p : p = tx[t].req.list
  OBVIOUS
<1>2. PICK u : u = IF tx[t].req.op = "leave" THEN tx[t].req.user ELSE tx[t].req.arg
  OBVIOUS
<1> DEFINE row == [list[p] EXCEPT !.members = @ \ {u}]
<1>3. /\ Commits(t, {"removeMember", "leave"}) /\ list' = [list EXCEPT ![p] = row]
      /\ UNCHANGED <<provider, favorite, report>>
  BY <1>1, <1>2 DEF CommitQuit
<1>4. tx[t].pc = "writing" /\ tx[t].req.op \in {"removeMember", "leave"}
  BY <1>3 DEF Commits, Writing
<1>5. /\ Writing(t, ListEdits \cup Moderation \cup {"leave", "create"})
      /\ Writing(t, ListEdits \cup Moderation \cup {"leave", "create", "report"})
  BY <1>4, Operations DEF Writing
<1>6. /\ p \in Lists /\ list[p] \in List
      /\ Cardinality(SongsOf(p)) <= SongLimit
      /\ Cardinality(list[p].members) <= MemberLimit
  BY <1>1, <1>5, Committing
<1>7. Cardinality(list[p].members \ {u}) <= MemberLimit
  BY <1>6, FiniteParts, LimitsAssumption, SmallerFits DEF LibraryInv
<1>8. /\ row \in List /\ row.at = list[p].at /\ row.owner = list[p].owner
      /\ row.members = list[p].members \ {u}
  BY <1>6 DEF List
<1> HIDE DEF row
<1>9. report' \in [Reports -> Report] /\ Placed(row.at) = SongsOf(p)
  BY <1>3, <1>8 DEF LibraryInv, TypeOK, SongsOf
<1>10. row.members \subseteq list[p].members
  BY <1>8
<1>11. QED BY <1>1, <1>3, <1>5, <1>6, <1>7, <1>8, <1>9, <1>10, ReportsSame,
              RowCommitKeeps

\* The playlist is deleted; its reports keep their status.
LEMMA CommitDeletionKeeps ==
  ASSUME LibraryInv, NEW t \in Txs, CommitDeletion(t)
  PROVE  LibraryInv'
<1>1. PICK p : p = tx[t].req.list
  OBVIOUS
<1>2. /\ Commits(t, {"delete"}) /\ list' = [list EXCEPT ![p] = NoList]
      /\ report' = [x \in Reports |-> IF report[x].list = p
                                      THEN [report[x] EXCEPT !.list = None]
                                      ELSE report[x]]
      /\ UNCHANGED <<provider, favorite>>
  BY <1>1 DEF CommitDeletion
<1>3. tx[t].pc = "writing" /\ tx[t].req.op = "delete"
  BY <1>2 DEF Commits, Writing
<1>4. /\ Writing(t, ListEdits \cup Moderation \cup {"leave", "create"})
      /\ Writing(t, ListEdits \cup Moderation \cup {"leave", "create", "report"})
      /\ ~Writing(t, Moderation \cup {"leave"})
  BY <1>3, Operations DEF Writing
<1>5. p \in Lists
  BY <1>1, <1>4, Committing
<1>6. /\ Cardinality(Placed(NoList.at)) <= SongLimit
      /\ Cardinality(NoList.members) <= MemberLimit
      /\ NoList.owner = None
  <2>1. Placed(NoList.at) = {} /\ NoList.members = {} /\ NoList.owner = None
    BY DEF NoList, NoSongs, Placed
  <2>2. QED BY <2>1, FS_EmptySet, LimitsAssumption
<1>7. ASSUME NEW x \in Reports
      PROVE  /\ report'[x] \in Report /\ report'[x].status = report[x].status
             /\ report[x] = NoReport => report'[x] = NoReport
  <2>1. report[x] \in Report
    BY DEF LibraryInv, TypeOK
  <2>2. NoReport.list # p
    BY <1>5, NoneAssumption DEF NoReport
  <2>3. QED BY <1>2, <2>1, <2>2 DEF Report
<1>8. report' \in [Reports -> Report]
  BY <1>2, <1>7
<1>9. QED BY <1>1, <1>2, <1>4, <1>5, <1>6, <1>7, <1>8, NoListOK, RowCommitKeeps

\* It is shared or not any more.
LEMMA CommitVisibilityKeeps ==
  ASSUME LibraryInv, NEW t \in Txs, CommitVisibility(t)
  PROVE  LibraryInv'
<1>1. PICK p : p = tx[t].req.list
  OBVIOUS
<1>2. PICK b \in BOOLEAN : b <=> tx[t].req.op = "share"
  OBVIOUS
<1> DEFINE row == [list[p] EXCEPT !.public = (tx[t].req.op = "share")]
<1>3. /\ Commits(t, {"share", "unshare"}) /\ list' = [list EXCEPT ![p] = row]
      /\ UNCHANGED <<provider, favorite, report>>
  BY <1>1 DEF CommitVisibility
<1>4. tx[t].pc = "writing" /\ tx[t].req.op \in {"share", "unshare"}
  BY <1>3 DEF Commits, Writing
<1>5. /\ Writing(t, ListEdits \cup Moderation \cup {"leave", "create"})
      /\ Writing(t, ListEdits \cup Moderation \cup {"leave", "create", "report"})
      /\ ~Writing(t, Moderation \cup {"leave"})
  BY <1>4, Operations DEF Writing
<1>6. /\ p \in Lists /\ list[p] \in List
      /\ Cardinality(SongsOf(p)) <= SongLimit
      /\ Cardinality(list[p].members) <= MemberLimit
  BY <1>1, <1>5, Committing
<1>7. /\ row \in List /\ row.at = list[p].at /\ row.owner = list[p].owner
      /\ row.members = list[p].members
  BY <1>6 DEF List
<1> HIDE DEF row
<1>8. report' \in [Reports -> Report] /\ Placed(row.at) = SongsOf(p)
  BY <1>3, <1>7 DEF LibraryInv, TypeOK, SongsOf
<1>9. QED BY <1>1, <1>3, <1>5, <1>6, <1>7, <1>8, ReportsSame, RowCommitKeeps

\* The moderator hides or restores it and settles the reports it has locked.
LEMMA CommitModerationKeeps ==
  ASSUME LibraryInv, NEW t \in Txs, CommitModeration(t)
  PROVE  LibraryInv'
<1>1. PICK p : p = tx[t].req.list
  OBVIOUS
<1> DEFINE row == [list[p] EXCEPT !.hidden = (tx[t].req.op = "hide")]
<1>2. /\ Commits(t, Moderation) /\ list' = [list EXCEPT ![p] = row]
      /\ \A x \in Reports : report'[x] =
           IF x \in tx[t].rows
           THEN [report[x] EXCEPT !.status = IF tx[t].req.op = "hide" THEN "RESOLVED"
                                             ELSE "DISMISSED"]
           ELSE report[x]
      /\ report' = [x \in Reports |-> report'[x]]
      /\ UNCHANGED <<provider, favorite>>
  BY <1>1 DEF CommitModeration
<1>3. /\ Writing(t, ListEdits \cup Moderation \cup {"leave", "create"})
      /\ Writing(t, ListEdits \cup Moderation \cup {"leave", "create", "report"})
  BY <1>2 DEF Commits, Writing
<1>4. /\ p \in Lists /\ list[p] \in List
      /\ Cardinality(SongsOf(p)) <= SongLimit
      /\ Cardinality(list[p].members) <= MemberLimit
  BY <1>1, <1>3, Committing
<1>5. /\ row \in List /\ row.at = list[p].at /\ row.owner = list[p].owner
      /\ row.members = list[p].members
  BY <1>4 DEF List
<1> HIDE DEF row
<1>6. Placed(row.at) = SongsOf(p) /\ row.members \subseteq list[p].members
  BY <1>5 DEF SongsOf
<1>7. ASSUME NEW x \in Reports
      PROVE  /\ report'[x] \in Report
             /\ x \notin tx[t].rows => report'[x] = report[x]
  <2>1. report[x] \in Report
    BY DEF LibraryInv, TypeOK
  <2>2. QED BY <1>2, <2>1 DEF Report
<1>8. report' \in [Reports -> Report]
  BY <1>2, <1>7
<1>9. \A x \in Reports : \/ x \in tx[t].rows
                         \/ /\ report'[x].status = report[x].status
                            /\ report[x] = NoReport => report'[x] = NoReport
  BY <1>7
<1>10. QED BY <1>1, <1>2, <1>3, <1>4, <1>5, <1>6, <1>8, <1>9, RowCommitKeeps

\* A new playlist has its owner, for whom there was room.
LEMMA CommitCreationKeeps ==
  ASSUME LibraryInv, NEW t \in Txs, CommitCreation(t)
  PROVE  LibraryInv'
<1>1. PICK p : p = tx[t].req.list
  OBVIOUS
<1>2. PICK u : u = tx[t].req.user
  OBVIOUS
<1> DEFINE row == [NoList EXCEPT !.owner = u]
<1>3. /\ Commits(t, {"create"}) /\ list' = [list EXCEPT ![p] = row]
      /\ UNCHANGED <<provider, favorite, report>>
  BY <1>1, <1>2 DEF CommitCreation
<1>4. tx[t].pc = "writing" /\ tx[t].req.op = "create" /\ Writing(t, {"create"})
  BY <1>3 DEF Commits, Writing
<1>5. /\ Writing(t, ListEdits \cup Moderation \cup {"leave", "create"})
      /\ Writing(t, ListEdits \cup Moderation \cup {"leave", "create", "report"})
      /\ ~Writing(t, Moderation \cup {"leave"})
  BY <1>4, Operations DEF Writing
<1>6. p \in Lists
  BY <1>1, <1>5, Committing
<1>7. u \in Users
  <2>1. tx[t].req \in Request \cup {NoRequest}
    BY DEF LibraryInv, TypeOK, Tx
  <2>2. QED BY <1>2, <1>4, <2>1, RequestParts
<1>8. row \in List /\ row.owner = u /\ row.members = {} /\ Placed(row.at) = {}
  BY <1>7, NoListOK DEF NoList, List, Placed, NoSongs
<1> HIDE DEF row
<1>9. /\ Cardinality(Placed(row.at)) <= SongLimit
      /\ Cardinality(row.members) <= MemberLimit
  BY <1>8, FS_EmptySet, LimitsAssumption
<1>10. report' \in [Reports -> Report]
  BY <1>3 DEF LibraryInv, TypeOK
<1>11. QED BY <1>1, <1>2, <1>3, <1>4, <1>5, <1>6, <1>8, <1>9, <1>10, ReportsSame,
              RowCommitKeeps

\* A commit that writes no playlist: it disturbs nobody by the reports it has
\* locked, or by its user's providers.
LEMMA OtherCommitKeeps ==
  ASSUME LibraryInv, NEW t \in Txs, NEW os, Commits(t, os), UNCHANGED list,
         provider' \in [Users -> SUBSET Providers],
         favorite' \in [Users -> SUBSET Songs], report' \in [Reports -> Report],
         \A x \in Reports : \/ x \in tx[t].rows
                            \/ /\ report'[x].status = report[x].status
                               /\ report[x] = NoReport => report'[x] = NoReport,
         \/ UNCHANGED provider
         \/ /\ Writing(t, {"disconnect"})
            /\ provider'[tx[t].req.user] # {}
            /\ \A u \in Users : u # tx[t].req.user => provider'[u] = provider[u]
  PROVE  LibraryInv'
<1>1. UNCHANGED <<users, visible>>
  BY DEF Commits
<1>2. LimitsKept'
  BY DEF LibraryInv, LimitsKept, SongsOf, Owned
<1>3. ProviderKept'
  BY <1>1 DEF LibraryInv, TypeOK, ProviderKept
<1>4. ASSUME NEW o \in Others(t)
      PROVE  Undisturbed(o)
  <2>1. PICK r \in Request \cup {NoRequest} : r = tx[o].req
    BY DEF LibraryInv, TypeOK, Tx, Others
  <2>2. Writing(o, {"disconnect"}) => provider'[r.user] = provider[r.user]
    <3>1. SUFFICES ASSUME Writing(o, {"disconnect"}), Writing(t, {"disconnect"})
                   PROVE  r.user # tx[t].req.user /\ r.user \in Users
      BY <2>1 DEF Writing
    <3>2. Writing(o, {"create", "disconnect"}) /\ Writing(t, {"create", "disconnect"})
      BY <3>1 DEF Writing
    <3>3. QED BY <2>1, <3>1, <3>2, KeptApart, RequestParts DEF Writing
  <2>3. \A x \in tx[o].rows : /\ report'[x].status = report[x].status
                              /\ report[x] = NoReport => report'[x] = NoReport
    <3>1. tx[o].rows \subseteq Reports /\ tx[o].rows \cap tx[t].rows = {}
      BY KeptApart DEF LibraryInv, TypeOK, Tx, Others
    <3>2. QED BY <3>1
  <2>4. QED BY <1>1, <2>1, <2>2, <2>3 DEF Undisturbed
<1>5. list' \in [Lists -> List]
  BY DEF LibraryInv, TypeOK
<1>6. QED BY <1>2, <1>3, <1>4, <1>5, CommitKeeps

\* A report is inserted in its row.
LEMMA CommitReportKeeps ==
  ASSUME LibraryInv, NEW t \in Txs, CommitReport(t)
  PROVE  LibraryInv'
<1>1. Commits(t, {"report"}) /\ UNCHANGED <<list, provider, favorite>>
  BY DEF CommitReport
<1>2. tx[t].req.user \in Users /\ tx[t].req.list \in Lists
  <2>1. tx[t].req \in Request \cup {NoRequest} /\ tx[t].req.op = "report"
    BY <1>1 DEF LibraryInv, TypeOK, Tx, Commits, Writing
  <2>2. QED BY <2>1, RequestParts
<1>3. ASSUME NEW x \in Reports
      PROVE  /\ report'[x] \in Report
             /\ x \notin tx[t].rows => report'[x] = report[x]
  BY <1>2 DEF CommitReport, LibraryInv, TypeOK, Report
<1>4. report' \in [Reports -> Report]
  BY <1>3 DEF CommitReport
<1>5. /\ provider' \in [Users -> SUBSET Providers]
      /\ favorite' \in [Users -> SUBSET Songs]
  BY <1>1 DEF LibraryInv, TypeOK
<1>6. QED BY <1>1, <1>3, <1>4, <1>5, OtherCommitKeeps

\* A report is settled.
LEMMA CommitDisposalKeeps ==
  ASSUME LibraryInv, NEW t \in Txs, CommitDisposal(t)
  PROVE  LibraryInv'
<1>1. Commits(t, {"resolve", "dismiss"}) /\ UNCHANGED <<list, provider, favorite>>
  BY DEF CommitDisposal
<1>2. tx[t].rows = {tx[t].req.arg}
  BY <1>1 DEF LibraryInv, ReadsKept, RowsKept, Commits
<1>3. \A x \in Reports : x \notin tx[t].rows => report'[x] = report[x]
  BY <1>2 DEF CommitDisposal, LibraryInv, TypeOK
<1>4. report' \in [Reports -> Report]
  BY DEF CommitDisposal, LibraryInv, TypeOK, Report
<1>5. /\ provider' \in [Users -> SUBSET Providers]
      /\ favorite' \in [Users -> SUBSET Songs]
  BY <1>1 DEF LibraryInv, TypeOK
<1>6. QED BY <1>1, <1>3, <1>4, <1>5, OtherCommitKeeps

\* A favourite is set or removed.
LEMMA CommitFavoriteKeeps ==
  ASSUME LibraryInv, NEW t \in Txs, CommitFavorite(t)
  PROVE  LibraryInv'
<1>1. /\ Commits(t, {"favorite", "unfavorite"}) /\ UNCHANGED <<list, provider, report>>
  BY DEF CommitFavorite
<1>2. tx[t].req.user \in Users /\ tx[t].req.arg \in Songs
  <2>1. /\ tx[t].req \in Request \cup {NoRequest}
        /\ tx[t].req.op \in {"favorite", "unfavorite"}
    BY <1>1 DEF LibraryInv, TypeOK, Tx, Commits, Writing
  <2>2. QED BY <2>1, RequestParts
<1>3. favorite' \in [Users -> SUBSET Songs]
  BY <1>2 DEF CommitFavorite, LibraryInv, TypeOK
<1>4. provider' \in [Users -> SUBSET Providers] /\ report' \in [Reports -> Report]
  BY <1>1 DEF LibraryInv, TypeOK
<1>5. QED BY <1>1, <1>3, <1>4, OtherCommitKeeps

\* A provider is disconnected; another one is left.
LEMMA CommitDisconnectionKeeps ==
  ASSUME LibraryInv, NEW t \in Txs, CommitDisconnection(t)
  PROVE  LibraryInv'
<1>1. /\ Commits(t, {"disconnect"}) /\ UNCHANGED <<list, favorite, report>>
      /\ Writing(t, {"disconnect"})
  BY DEF CommitDisconnection, Commits
<1>2. PICK u : u = tx[t].req.user
  OBVIOUS
<1>3. u \in Users
  <2>1. tx[t].req \in Request \cup {NoRequest} /\ tx[t].req.op = "disconnect"
    BY <1>1 DEF LibraryInv, TypeOK, Tx, Writing
  <2>2. QED BY <1>2, <2>1, RequestParts
<1>4. provider[u] \ {tx[t].req.arg} # {}
  BY <1>1, <1>2 DEF LibraryInv, ReadsKept, RoomKept
<1>5. /\ provider' \in [Users -> SUBSET Providers] /\ provider'[u] # {}
      /\ \A v \in Users : v # u => provider'[v] = provider[v]
  BY <1>2, <1>3, <1>4 DEF CommitDisconnection, LibraryInv, TypeOK
<1>6. favorite' \in [Users -> SUBSET Songs] /\ report' \in [Reports -> Report]
  BY <1>1 DEF LibraryInv, TypeOK
<1>7. QED BY <1>1, <1>2, <1>5, <1>6, OtherCommitKeeps

-----------------------------------------------------------------------------
(***************************************************************************)
(* The theorems                                                            *)
(***************************************************************************)
\* At the start nobody has locked anything.
LEMMA InitKeeps == Init => LibraryInv
<1> SUFFICES ASSUME Init
             PROVE  LibraryInv
  OBVIOUS
<1>1. PICK q \in Population : list = q.list /\ report = q.report
  BY DEF Init
<1>2. list \in [Lists -> List] /\ report \in [Reports -> Report]
  BY <1>1, PopulationAssumption
<1>3. TypeOK
  BY <1>2, NoTxOK DEF Init, TypeOK
<1>4. \A t \in Txs : tx[t].pc = "idle" /\ tx[t].rows = {}
  BY NoTxOK DEF Init
<1>5. LocksKept
  BY <1>4 DEF LocksKept, Excludes, Writing, Others
<1>6. ReadsKept
  BY <1>4 DEF ReadsKept, RoomKept, RowsKept, EditKept, Writing
<1>7. LimitsKept
  BY <1>1, PopulationAssumption DEF LimitsKept, SongsOf, Owned
<1>8. ProviderKept
  BY ProvidersAssumption DEF Init, ProviderKept
<1>9. QED BY <1>3, <1>5, <1>6, <1>7, <1>8 DEF LibraryInv

\* The same state keeps it.
LEMMA StutterKeeps ==
  ASSUME LibraryInv, UNCHANGED vars
  PROVE  LibraryInv'
<1>1. TypeOK'
  BY DEF LibraryInv, TypeOK, vars
<1>2. LimitsKept' /\ ProviderKept'
  BY DEF LibraryInv, LimitsKept, ProviderKept, SongsOf, Owned, vars
<1>3. tx' = tx /\ \A o \in Txs : Undisturbed(o)
  BY DataSame DEF vars
<1>4. QED BY <1>1, <1>2, <1>3, StatementKeeps

\* Every step keeps it.
LEMMA NextKeeps ==
  ASSUME LibraryInv, [Next]_vars
  PROVE  LibraryInv'
<1>1. ASSUME NEW t \in Txs, Commit(t)
      PROVE  LibraryInv'
  BY <1>1, CommitPositionsKeeps, CommitRemovalKeeps, CommitJoinKeeps,
     CommitQuitKeeps, CommitDeletionKeeps, CommitVisibilityKeeps,
     CommitModerationKeeps, CommitReportKeeps, CommitDisposalKeeps,
     CommitFavoriteKeeps, CommitCreationKeeps, CommitDisconnectionKeeps DEF Commit
<1>2. QED BY <1>1, BeginKeeps, DecideKeeps, MarkKeeps, EndKeeps,
             DeleteUserAccountKeeps, SyncSongKeeps, CleanReportKeeps,
             StutterKeeps DEF Next

\* What a transaction has read under its locks is still so, and their locks keep
\* any two of them apart, whatever the others do.
THEOREM LibraryInvariant == Spec => []LibraryInv
<1>1. Init => LibraryInv
  BY InitKeeps
<1>2. LibraryInv /\ [Next]_vars => LibraryInv'
  BY NextKeeps
<1>3. QED BY <1>1, <1>2, PTL DEF Spec

\* The variables keep their types.
THEOREM TypeCorrect == Spec => []TypeOK
<1>1. LibraryInv => TypeOK
  BY DEF LibraryInv
<1>2. QED BY <1>1, LibraryInvariant, PTL

\* The positions an edit of the songs has computed are those it would compute when
\* it writes: edits of one playlist are serial although each reads and writes in
\* statements of its own.
THEOREM SerialEdits == Spec => []EditsSerialize
<1>1. LibraryInv => EditsSerialize
  BY DEF LibraryInv, ReadsKept, EditKept, EditsSerialize
<1>2. QED BY <1>1, LibraryInvariant, PTL

\* No playlist, membership or account outgrows its limit, although the count and
\* the insert are two statements.
THEOREM LimitsHold == Spec => []LimitsKept
<1>1. LibraryInv => LimitsKept
  BY DEF LibraryInv
<1>2. QED BY <1>1, LibraryInvariant, PTL

\* Two providers disconnected at the same time do not leave an account with none.
THEOREM ProviderLeft == Spec => []ProviderKept
<1>1. LibraryInv => ProviderKept
  BY DEF LibraryInv
<1>2. QED BY <1>1, LibraryInvariant, PTL

-----------------------------------------------------------------------------
(***************************************************************************)
(* What a step may never do                                                *)
(***************************************************************************)
\* A step that is no commit and deletes no account writes no song of a playlist and
\* no favourite, and no report except to clean it up.
LEMMA OnlyCommitsWrite ==
  ASSUME TypeOK, [Next]_vars,
         ~\E t \in Txs : Commit(t), ~\E u \in Users : DeleteUserAccount(u)
  PROVE  /\ UNCHANGED <<list, favorite>>
         /\ \A x \in Reports : report'[x] = report[x] \/ report'[x] = NoReport
<1>1. ASSUME NEW t \in Txs, Begin(t) \/ Mark(t) \/ End(t)
      PROVE  UNCHANGED <<list, favorite, report>>
  BY <1>1 DEF Begin, Mark, End
<1>2. ASSUME NEW t \in Txs, Decide(t)
      PROVE  UNCHANGED <<list, favorite, report>>
  BY <1>2, DecideGrants DEF Decides
<1>3. ASSUME NEW s \in Songs, SyncSong(s)
      PROVE  UNCHANGED <<list, favorite, report>>
  BY <1>3 DEF SyncSong
<1>4. ASSUME NEW y \in Reports, CleanReport(y)
      PROVE  /\ UNCHANGED <<list, favorite>>
             /\ \A x \in Reports : report'[x] = report[x] \/ report'[x] = NoReport
  BY <1>4 DEF CleanReport, TypeOK
<1>5. ASSUME UNCHANGED vars
      PROVE  UNCHANGED <<list, favorite, report>>
  BY <1>5 DEF vars
<1>6. QED BY <1>1, <1>2, <1>3, <1>4, <1>5 DEF Next

\* Only songs that are public are added to a playlist or to the favourites.
PublicAdded ==
  /\ \A p \in Lists : Placed(list'[p].at) \ SongsOf(p) \subseteq visible
  /\ \A u \in Users : favorite'[u] \ favorite[u] \subseteq visible

LEMMA CommitAddsPublic ==
  ASSUME LibraryInv, NEW t \in Txs, Commit(t)
  PROVE  PublicAdded
<1>0. /\ list \in [Lists -> List] /\ favorite \in [Users -> SUBSET Songs]
      /\ tx[t] \in Tx /\ RoomKept(t) /\ EditKept(t)
  BY DEF LibraryInv, TypeOK, ReadsKept
<1>1. PICK r \in Request \cup {NoRequest} : r = tx[t].req
  BY <1>0 DEF Tx
<1>2. ASSUME \A p \in Lists : Placed(list'[p].at) \subseteq SongsOf(p),
             favorite' = favorite
      PROVE  PublicAdded
  BY <1>2 DEF PublicAdded
<1>3. CASE CommitPositions(t)
  <2>1. PICK put \in Positions : put = tx[t].put
    BY <1>0 DEF Tx
  <2>2. /\ list' = [list EXCEPT ![r.list].at = Overlay(r.list, put)]
        /\ favorite' = favorite /\ tx[t].pc = "writing"
        /\ r.op \in {"addSong", "moveUp", "moveDown"}
    BY <1>1, <1>3, <2>1 DEF CommitPositions, Commits, Writing
  <2>3. r.list \in Lists /\ r.arg \in Songs /\ r.op \in SongEdits
    BY <2>2, RequestParts DEF SongEdits
  <2>4. list[r.list] \in List /\ list[r.list].at \in Positions
    BY <1>0, <2>3 DEF List
  <2>5. list'[r.list].at = Overlay(r.list, put)
    BY <1>0, <2>2, <2>3, <2>4 DEF List
  <2>6. Placed(list'[r.list].at) \subseteq SongsOf(r.list) \cup Placed(put)
    BY <2>4, <2>5 DEF Overlay, Placed, SongsOf, Positions
  <2>7. Placed(put) \subseteq SongsOf(r.list) \cup visible
    <3>1. CASE r.op = "addSong"
      <4>1. put = Put(r) /\ r.arg \in visible
        BY <1>0, <1>1, <2>1, <2>2, <3>1 DEF EditKept, RoomKept, Writing
      <4>2. Placed(put) = {r.arg}
        BY <2>3, <2>4, <3>1, <4>1, PutPlaces, ReadsPositions
      <4>3. QED BY <4>1, <4>2
    <3>2. CASE r.op # "addSong"
      <4>1. /\ put = Put(r) /\ r.arg \in SongsOf(r.list)
            /\ HasNeighbour(r.list, r.arg, r.op)
            /\ r.op \in {"moveUp", "moveDown"}
        BY <1>0, <1>1, <2>1, <2>2, <3>2 DEF EditKept, Writing
      <4>2. /\ put = PutAt(list[r.list].at, r.arg, r.op)
            /\ r.arg \in Placed(list[r.list].at)
            /\ NearAt(list[r.list].at, r.arg, r.op)
        BY <4>1, ReadsPositions
      <4>3. Placed(put) \subseteq Placed(list[r.list].at)
        BY <2>3, <2>4, <4>1, <4>2, PutPlaces
      <4>4. QED BY <4>3 DEF SongsOf
    <3>3. QED BY <3>1, <3>2
  <2>8. \A p \in Lists : p # r.list => list'[p] = list[p]
    BY <1>0, <2>2
  <2>9. QED BY <2>2, <2>6, <2>7, <2>8 DEF PublicAdded, SongsOf
<1>4. CASE CommitFavorite(t)
  <2>1. /\ UNCHANGED list /\ tx[t].pc = "writing" /\ r.op \in {"favorite", "unfavorite"}
        /\ favorite' = [favorite EXCEPT ![r.user] =
             IF r.op = "favorite" THEN @ \cup {r.arg} ELSE @ \ {r.arg}]
    BY <1>1, <1>4 DEF CommitFavorite, Commits, Writing
  <2>2. r.op = "favorite" => r.arg \in visible
    BY <1>0, <1>1, <2>1 DEF RoomKept, Writing
  <2>3. r.user \in Users
    BY <2>1, RequestParts
  <2>4. QED BY <1>0, <2>1, <2>2, <2>3 DEF PublicAdded, SongsOf
<1>5. CASE CommitRemoval(t)
  <2>1. /\ list' = [list EXCEPT ![r.list].at[r.arg] = None]
        /\ favorite' = favorite /\ r.op = "removeSong"
    BY <1>1, <1>5 DEF CommitRemoval, Commits, Writing
  <2>2. r.list \in Lists /\ r.arg \in Songs
    BY <2>1, RequestParts DEF SongEdits
  <2>3. list[r.list] \in List /\ list[r.list].at \in Positions
    BY <1>0, <2>2 DEF List
  <2>4. list'[r.list].at = [list[r.list].at EXCEPT ![r.arg] = None]
    BY <1>0, <2>1, <2>2, <2>3 DEF List
  <2>5. Placed(list'[r.list].at) \subseteq SongsOf(r.list)
    BY <2>3, <2>4 DEF Placed, SongsOf, Positions
  <2>6. \A p \in Lists : p # r.list => list'[p] = list[p]
    BY <1>0, <2>1
  <2>7. QED BY <1>2, <2>1, <2>5, <2>6 DEF SongsOf
<1>6. CASE CommitJoin(t) \/ CommitQuit(t) \/ CommitVisibility(t)
             \/ CommitModeration(t)
  <2>1. favorite' = favorite
    BY <1>6 DEF CommitJoin, CommitQuit, CommitVisibility, CommitModeration
  <2>2. ASSUME NEW p \in Lists
        PROVE  list'[p].at = list[p].at
    <3>1. list[p] \in List
      BY <1>0
    <3>2. CASE CommitJoin(t)
      BY <1>0, <3>1, <3>2 DEF CommitJoin, List
    <3>3. CASE CommitQuit(t)
      BY <1>0, <3>1, <3>3 DEF CommitQuit, List
    <3>4. CASE CommitVisibility(t)
      BY <1>0, <3>1, <3>4 DEF CommitVisibility, List
    <3>5. CASE CommitModeration(t)
      BY <1>0, <3>1, <3>5 DEF CommitModeration, List
    <3>6. QED BY <1>6, <3>2, <3>3, <3>4, <3>5
  <2>3. QED BY <1>2, <2>1, <2>2 DEF SongsOf
<1>7. CASE CommitDeletion(t) \/ CommitCreation(t)
  <2>1. favorite' = favorite
    BY <1>7 DEF CommitDeletion, CommitCreation
  <2>2. PICK row : /\ list' = [list EXCEPT ![r.list] = row] /\ Placed(row.at) = {}
    <3>1. Placed(NoList.at) = {} /\ Placed([NoList EXCEPT !.owner = r.user].at) = {}
      BY DEF NoList, NoSongs, Placed
    <3>2. CASE CommitDeletion(t)
      BY <1>1, <3>1, <3>2 DEF CommitDeletion
    <3>3. CASE CommitCreation(t)
      BY <1>1, <3>1, <3>3 DEF CommitCreation
    <3>4. QED BY <1>7, <3>2, <3>3
  <2>3. \A p \in Lists : list'[p] = list[p] \/ Placed(list'[p].at) = {}
    BY <1>0, <2>2
  <2>4. QED BY <1>2, <2>1, <2>3 DEF SongsOf
<1>8. CASE CommitReport(t) \/ CommitDisposal(t) \/ CommitDisconnection(t)
  <2>1. UNCHANGED <<list, favorite>>
    BY <1>8 DEF CommitReport, CommitDisposal, CommitDisconnection
  <2>2. QED BY <2>1 DEF PublicAdded, SongsOf
<1>9. QED BY <1>3, <1>4, <1>5, <1>6, <1>7, <1>8 DEF Commit

\* The sync cannot hide a song between the check and the insert: only songs that
\* are public at that moment become entries or favourites.
THEOREM PublicOnly == Spec => OnlyPublicAdded
<1>1. ASSUME LibraryInv, [Next]_vars
      PROVE  PublicAdded
  <2>1. CASE \E t \in Txs : Commit(t)
    BY <1>1, <2>1, CommitAddsPublic
  <2>2. CASE \E u \in Users : DeleteUserAccount(u)
    <3>1. PICK u \in Users : DeleteUserAccount(u)
      BY <2>2
    <3>2. ASSUME NEW p \in Lists
          PROVE  Placed(list'[p].at) \subseteq SongsOf(p)
      <4>1. list[p] \in List
        BY <1>1 DEF LibraryInv, TypeOK
      <4>2. CASE p \in Owned(u)
        <5>1. list'[p] = NoList
          BY <3>1, <4>2 DEF DeleteUserAccount
        <5>2. QED BY <5>1 DEF NoList, NoSongs, Placed
      <4>3. CASE p \notin Owned(u)
        <5>1. list'[p] = [list[p] EXCEPT !.members = @ \ {u}]
          BY <3>1, <4>3 DEF DeleteUserAccount
        <5>2. QED BY <4>1, <5>1 DEF List, SongsOf
      <4>4. QED BY <4>2, <4>3
    <3>3. \A v \in Users : favorite'[v] \subseteq favorite[v]
      BY <1>1, <3>1 DEF DeleteUserAccount, LibraryInv, TypeOK
    <3>4. QED BY <3>2, <3>3 DEF PublicAdded
  <2>3. CASE ~(\E t \in Txs : Commit(t)) /\ ~\E u \in Users : DeleteUserAccount(u)
    <3>1. UNCHANGED <<list, favorite>>
      BY <1>1, <2>3, OnlyCommitsWrite DEF LibraryInv
    <3>2. QED BY <3>1 DEF PublicAdded, SongsOf
  <2>4. QED BY <2>1, <2>2, <2>3
<1>2. LibraryInv /\ [Next]_vars => [PublicAdded]_vars
  BY <1>1
<1>3. OnlyPublicAdded <=> [][PublicAdded]_vars
  BY DEF OnlyPublicAdded, PublicAdded
<1>4. QED BY <1>2, <1>3, LibraryInvariant, PTL DEF Spec

\* A report that is settled keeps its outcome.
Frozen(x) == report[x].status \in {"RESOLVED", "DISMISSED"} =>
               report'[x].status \in {report[x].status, "none"}

LEMMA CommitFreezes ==
  ASSUME LibraryInv, NEW t \in Txs, Commit(t), NEW x \in Reports
  PROVE  Frozen(x)
<1>0. report \in [Reports -> Report] /\ report[x] \in Report /\ RowsKept(t)
  BY DEF LibraryInv, TypeOK, ReadsKept
<1>1. CASE CommitDeletion(t)
  <2>1. report'[x] = IF report[x].list = tx[t].req.list
                     THEN [report[x] EXCEPT !.list = None] ELSE report[x]
    BY <1>1 DEF CommitDeletion
  <2>2. QED BY <1>0, <2>1 DEF Frozen, Report
<1>2. CASE CommitModeration(t)
  <2>1. x \in tx[t].rows => report[x].status = "OPEN"
    BY <1>0, <1>2 DEF RowsKept, CommitModeration, Commits
  <2>2. x \notin tx[t].rows => report'[x] = report[x]
    BY <1>2 DEF CommitModeration
  <2>3. QED BY <2>1, <2>2 DEF Frozen
<1>3. CASE CommitReport(t)
  <2>1. x \in tx[t].rows => report[x].status = "none"
    BY <1>0, <1>3 DEF RowsKept, CommitReport, Commits, NoReport
  <2>2. x \notin tx[t].rows => report'[x] = report[x]
    BY <1>3 DEF CommitReport
  <2>3. QED BY <2>1, <2>2 DEF Frozen
<1>4. CASE CommitDisposal(t)
  <2>1. report[tx[t].req.arg].status = "OPEN"
    BY <1>0, <1>4 DEF RowsKept, CommitDisposal, Commits
  <2>2. x # tx[t].req.arg => report'[x] = report[x]
    BY <1>0, <1>4 DEF CommitDisposal
  <2>3. QED BY <2>1, <2>2 DEF Frozen
<1>5. CASE ~(CommitDeletion(t) \/ CommitModeration(t) \/ CommitReport(t)
              \/ CommitDisposal(t))
  <2>1. UNCHANGED report
    BY <1>5 DEF Commit, CommitPositions, CommitRemoval, CommitJoin, CommitQuit,
                CommitVisibility, CommitFavorite, CommitCreation, CommitDisconnection
  <2>2. QED BY <2>1 DEF Frozen
<1>6. QED BY <1>1, <1>2, <1>3, <1>4, <1>5

\* A settled report keeps its outcome whatever operators and moderators do at the
\* same time; it can only be cleaned up.
THEOREM SettledStays == Spec => SettledReportsFrozen
<1>1. ASSUME LibraryInv, [Next]_vars, NEW x \in Reports
      PROVE  Frozen(x)
  <2>1. CASE \E t \in Txs : Commit(t)
    BY <1>1, <2>1, CommitFreezes
  <2>2. CASE \E u \in Users : DeleteUserAccount(u)
    <3>1. PICK u \in Users : DeleteUserAccount(u)
      BY <2>2
    <3>2. report[x] \in Report
      BY <1>1 DEF LibraryInv, TypeOK
    <3>3. report'[x] = [report[x] EXCEPT
            !.reporter = IF @ = u THEN None ELSE @,
            !.list = IF @ \in Owned(u) THEN None ELSE @]
      BY <3>1 DEF DeleteUserAccount
    <3>4. QED BY <3>2, <3>3 DEF Frozen, Report
  <2>3. CASE ~(\E t \in Txs : Commit(t)) /\ ~\E u \in Users : DeleteUserAccount(u)
    <3>1. report'[x] = report[x] \/ report'[x] = NoReport
      BY <1>1, <2>3, OnlyCommitsWrite DEF LibraryInv
    <3>2. QED BY <3>1 DEF Frozen, NoReport
  <2>4. QED BY <2>1, <2>2, <2>3
<1>2. LibraryInv /\ [Next]_vars => [\A x \in Reports : Frozen(x)]_vars
  BY <1>1
<1>3. SettledReportsFrozen <=> [][\A x \in Reports : Frozen(x)]_vars
  BY DEF SettledReportsFrozen, Frozen
<1>4. QED BY <1>2, <1>3, LibraryInvariant, PTL DEF Spec

-----------------------------------------------------------------------------
(***************************************************************************)
(* The songs of a playlist in their order                                  *)
(***************************************************************************)
\* Order, of positions.
OrderAt(at) == [i \in 1..Cardinality(Placed(at)) |->
                  CHOOSE s \in Placed(at) : Cardinality(BeforeAt(at, s)) = i - 1]

\* Order looks at the positions only, before and after a step.
LEMMA OrderReads ==
  ASSUME NEW p
  PROVE  Order(p) = OrderAt(list[p].at) /\ Order(p)' = OrderAt(list'[p].at)
  BY DEF Order, OrderAt, SongsOf, Placed, Before, BeforeAt

\* f lists the songs by ascending positions.
Climbs(at, f) ==
  /\ f \in [1..Cardinality(Placed(at)) -> Placed(at)]
  /\ \A i, j \in 1..Cardinality(Placed(at)) : i < j => at[f[i]] < at[f[j]]

\* The order of the songs by their positions.
ByPosition(at) == {p \in Placed(at) \X Placed(at) : at[p[1]] < at[p[2]]}

\* No two songs share a position.
Unique(at) == \A s, o \in Placed(at) : at[s] = at[o] => s = o

\* Positions are numbers, and finitely many songs have one.
LEMMA PlacedParts ==
  ASSUME NEW at \in Positions
  PROVE  /\ Placed(at) \in SUBSET Songs /\ IsFiniteSet(Placed(at))
         /\ Cardinality(Placed(at)) \in Nat
         /\ \A s \in Placed(at) : at[s] \in Nat
         /\ \A s \in Songs : s \in Placed(at) <=> at[s] \in Nat
<1>1. Placed(at) \in SUBSET Songs
  BY DEF Placed
<1>2. \A s \in Songs : s \in Placed(at) <=> at[s] \in Nat
  BY NoneAssumption DEF Placed, Positions
<1>3. QED BY <1>1, <1>2, FiniteAssumption, FS_Subset, FS_CardinalityType

\* If no two songs share a position, the positions order them strictly, and Order
\* is the sequence that is sorted by them.
LEMMA OrderIsSorted ==
  ASSUME NEW at \in Positions, Unique(at)
  PROVE  /\ StrictOrder(Placed(at), ByPosition(at))
         /\ OrderAt(at) = Sorted(Placed(at), ByPosition(at))
<1> DEFINE S == Placed(at)
           R == ByPosition(at)
<1>1. \A s \in S : at[s] \in Nat
  BY PlacedParts
<1>2. \A s, o \in S : <<s, o>> \in R <=> at[s] < at[o]
  BY DEF ByPosition
<1>3. StrictOrder(S, R)
  BY <1>1, <1>2 DEF StrictOrder, Unique
<1>4. ASSUME NEW s \in S
      PROVE  Below(S, R, s) = BeforeAt(at, s) /\ Cardinality(BeforeAt(at, s)) \in Nat
  <2>1. Below(S, R, s) = BeforeAt(at, s)
    BY <1>2 DEF Below, BeforeAt
  <2>2. BeforeAt(at, s) \in SUBSET S
    BY DEF BeforeAt
  <2>3. QED BY <2>1, <2>2, PlacedParts, FS_Subset, FS_CardinalityType
<1>5. ASSUME NEW i \in 1..Cardinality(S)
      PROVE  OrderAt(at)[i] = Sorted(S, R)[i]
  <2>1. \A s \in S : Rank(S, R, s) = i <=> Cardinality(BeforeAt(at, s)) = i - 1
    BY <1>4, PlacedParts DEF Rank
  <2>2. (CHOOSE s \in S : Rank(S, R, s) = i)
          = CHOOSE s \in S : Cardinality(BeforeAt(at, s)) = i - 1
    BY <2>1
  <2>3. QED BY <2>2 DEF OrderAt, Sorted
<1>6. QED BY <1>3, <1>5 DEF OrderAt, Sorted

\* So it lists the songs by ascending positions, each of them once.
LEMMA OrderClimbs ==
  ASSUME NEW at \in Positions, Unique(at)
  PROVE  /\ Climbs(at, OrderAt(at))
         /\ \A s \in Placed(at) : \E i \in 1..Cardinality(Placed(at)) : OrderAt(at)[i] = s
<1> DEFINE S == Placed(at)
           R == ByPosition(at)
<1>1. /\ OrderAt(at) = Sorted(S, R) /\ StrictOrder(S, R) /\ IsFiniteSet(S)
      /\ Cardinality(S) \in Nat
  BY OrderIsSorted, PlacedParts
<1>2. /\ OrderAt(at) \in [1..Cardinality(S) -> S]
      /\ \A i \in 1..Cardinality(S) : Rank(S, R, OrderAt(at)[i]) = i
      /\ \A x \in S : OrderAt(at)[Rank(S, R, x)] = x
  BY <1>1, SortedByRank
<1>3. /\ \A x \in S : Rank(S, R, x) \in 1..Cardinality(S)
      /\ \A x, y \in S : <<x, y>> \in R <=> Rank(S, R, x) < Rank(S, R, y)
  BY <1>1, RankedOnce
<1>4. ASSUME NEW i \in 1..Cardinality(S), NEW j \in 1..Cardinality(S), i < j
      PROVE  at[OrderAt(at)[i]] < at[OrderAt(at)[j]]
  <2>1. /\ OrderAt(at)[i] \in S /\ OrderAt(at)[j] \in S
        /\ Rank(S, R, OrderAt(at)[i]) < Rank(S, R, OrderAt(at)[j])
    BY <1>2, <1>4
  <2> HIDE DEF S, R
  <2>2. <<OrderAt(at)[i], OrderAt(at)[j]>> \in R
    BY <1>3, <2>1
  <2>3. QED BY <2>2 DEF R, ByPosition
<1>5. QED BY <1>2, <1>3, <1>4 DEF Climbs

\* Nothing else does.
LEMMA OnlyOrderClimbs ==
  ASSUME NEW at \in Positions, Unique(at), NEW f, Climbs(at, f)
  PROVE  OrderAt(at) = f
<1>1. \A i, j \in 1..Cardinality(Placed(at)) : i < j => <<f[i], f[j]>> \in ByPosition(at)
  BY DEF Climbs, ByPosition
<1>2. f \in [1..Cardinality(Placed(at)) -> Placed(at)]
  BY DEF Climbs
<1>3. QED BY <1>1, <1>2, OrderIsSorted, PlacedParts, SortedOnly

\* The next position is above all others.
LEMMA NextIsAbove ==
  ASSUME NEW at \in Positions
  PROVE  NextAt(at) \in Nat /\ \A s \in Placed(at) : at[s] < NextAt(at)
<1>1. \A s \in Placed(at) : at[s] \in Nat
  BY PlacedParts
<1>2. CASE Placed(at) = {}
  BY <1>2 DEF NextAt
<1>3. CASE Placed(at) # {}
  <2>1. PICK m \in Placed(at) : \A s \in Placed(at) : at[s] <= at[m]
    BY <1>1, <1>3, PlacedParts, LastAndFirst
  <2>2. AfterAt(at, m) = {}
    BY <1>1, <2>1 DEF AfterAt
  <2>3. PICK k \in Placed(at) : AfterAt(at, k) = {} /\ NextAt(at) = at[k] + 1
    BY <1>3, <2>2 DEF NextAt
  <2>4. \A s \in Placed(at) : ~(at[s] > at[k])
    BY <2>3 DEF AfterAt
  <2>5. QED BY <1>1, <2>3, <2>4
<1>4. QED BY <1>2, <1>3

\* A song at the next position is the last.
LEMMA AddedIsLast ==
  ASSUME NEW at \in Positions, Unique(at), NEW s \in Songs, s \notin Placed(at),
         NEW new, new = [at EXCEPT ![s] = NextAt(at)]
  PROVE  /\ new \in Positions /\ Unique(new) /\ Placed(new) = Placed(at) \cup {s}
         /\ OrderAt(new) = Append(OrderAt(at), s)
<1> DEFINE S == Placed(at)
           n == Cardinality(S)
           f == OrderAt(at)
<1>1. /\ S \in SUBSET Songs /\ IsFiniteSet(S) /\ n \in Nat
      /\ \A x \in S : at[x] \in Nat
  BY PlacedParts
<1>2. NextAt(at) \in Nat /\ \A x \in S : at[x] < NextAt(at)
  BY NextIsAbove
<1>3. /\ new \in Positions /\ new[s] = NextAt(at)
      /\ \A x \in Songs : x # s => new[x] = at[x]
  BY <1>2 DEF Positions
<1>4. Placed(new) = S \cup {s}
  BY <1>2, <1>3, NoneAssumption DEF Placed
<1>5. Unique(new)
  <2>1. ASSUME NEW x \in S, NEW y \in S \cup {s}, new[x] = new[y]
        PROVE  x = y
    <3>1. x # s /\ new[x] = at[x] /\ at[x] # NextAt(at)
      BY <1>1, <1>2, <1>3
    <3>2. y # s /\ new[y] = at[y] /\ y \in S
      BY <1>1, <1>3, <2>1, <3>1
    <3>3. QED BY <2>1, <3>1, <3>2 DEF Unique
  <2>2. QED BY <1>4, <2>1 DEF Unique
<1>6. Cardinality(Placed(new)) = n + 1
  BY <1>1, <1>4, FS_AddElement
<1>7. f \in [1..n -> S] /\ \A i, j \in 1..n : i < j => at[f[i]] < at[f[j]]
  BY OrderClimbs DEF Climbs
<1> HIDE DEF f, S, n
<1>8. /\ f \in Seq(S) /\ Len(f) = n
  BY <1>1, <1>7
<1>9. /\ Append(f, s) \in [1..n + 1 -> S \cup {s}]
      /\ \A i \in 1..n : Append(f, s)[i] = f[i]
      /\ Append(f, s)[n + 1] = s
  <2> DEFINE U == S \cup {s}
  <2>1. f \in Seq(U) /\ s \in U
    BY <1>1, <1>7, <1>8
  <2> HIDE DEF U
  <2>2. /\ Append(f, s) \in Seq(U) /\ Len(Append(f, s)) = n + 1
        /\ \A i \in 1..n : Append(f, s)[i] = f[i]
        /\ Append(f, s)[n + 1] = s
    BY <1>8, <2>1, AppendProperties
  <2>3. Append(f, s) \in [1..n + 1 -> U]
    BY <2>2, LenProperties
  <2>4. QED BY <2>2, <2>3 DEF U
<1>10. ASSUME NEW i \in 1..n + 1, NEW j \in 1..n + 1, i < j
       PROVE  new[Append(f, s)[i]] < new[Append(f, s)[j]]
  <2>1. i \in 1..n /\ f[i] \in S /\ f[i] # s
    BY <1>1, <1>7, <1>10 DEF S
  <2>2. new[f[i]] = at[f[i]] /\ at[f[i]] < NextAt(at)
    BY <1>1, <1>2, <1>3, <2>1
  <2>3. CASE j = n + 1
    BY <1>3, <1>9, <2>1, <2>2, <2>3
  <2>4. CASE j # n + 1
    <3>1. j \in 1..n /\ f[j] \in S /\ f[j] # s
      BY <1>1, <1>7, <2>4 DEF S
    <3>2. new[f[j]] = at[f[j]]
      BY <1>1, <1>3, <3>1
    <3>3. QED BY <1>7, <1>9, <1>10, <2>1, <2>2, <3>1, <3>2
  <2>5. QED BY <2>3, <2>4
<1>11. Climbs(new, Append(f, s))
  BY <1>4, <1>6, <1>9, <1>10 DEF Climbs, S
<1>12. QED BY <1>3, <1>4, <1>5, <1>11, OnlyOrderClimbs DEF f, S

\* Without a song, the others keep their order.
LEMMA RemovedIsGone ==
  ASSUME NEW at \in Positions, Unique(at), NEW k \in 1..Cardinality(Placed(at)),
         NEW new, new = [at EXCEPT ![OrderAt(at)[k]] = None]
  PROVE  /\ new \in Positions /\ Unique(new)
         /\ Placed(new) = Placed(at) \ {OrderAt(at)[k]}
         /\ OrderAt(new) = SubSeq(OrderAt(at), 1, k - 1)
                              \o SubSeq(OrderAt(at), k + 1, Len(OrderAt(at)))
<1> DEFINE S == Placed(at)
           n == Cardinality(S)
           f == OrderAt(at)
           s == f[k]
           g == [i \in 1..n - 1 |-> IF i < k THEN f[i] ELSE f[i + 1]]
<1>1. /\ S \in SUBSET Songs /\ IsFiniteSet(S) /\ n \in Nat
      /\ \A x \in S : at[x] \in Nat
  BY PlacedParts
<1>2. f \in [1..n -> S] /\ \A i, j \in 1..n : i < j => at[f[i]] < at[f[j]]
  BY OrderClimbs DEF Climbs
<1> HIDE DEF f
<1>3. s \in S
  BY <1>2
<1> HIDE DEF s
<1>4. /\ new \in Positions /\ new[s] = None
      /\ \A x \in Songs : x # s => new[x] = at[x]
  BY <1>1, <1>3 DEF Positions, s, f
<1>5. Placed(new) = S \ {s}
  BY <1>4 DEF Placed
<1>6. Unique(new)
  BY <1>1, <1>4, <1>5 DEF Unique
<1>7. Cardinality(Placed(new)) = n - 1
  BY <1>1, <1>3, <1>5, FS_RemoveElement
<1> HIDE DEF S, n
<1>8. /\ f \in Seq(S) /\ Len(f) = n
  BY <1>1, <1>2
<1>9. k \in Nat \ {0} /\ k <= n /\ n - 1 \in Nat
  BY <1>1 DEF n, S
<1>10. ASSUME NEW i \in 1..n, NEW j \in 1..n, i # j
       PROVE  f[i] # f[j]
  <2>1. f[i] \in S /\ f[j] \in S
    BY <1>2
  <2>2. at[f[i]] < at[f[j]] \/ at[f[j]] < at[f[i]]
    BY <1>1, <1>2, <1>10
  <2>3. QED BY <1>1, <2>1, <2>2
<1>11. ASSUME NEW i \in 1..n - 1
       PROVE  g[i] \in S \ {s}
  BY <1>1, <1>2, <1>9, <1>10 DEF s
<1>12. ASSUME NEW i \in 1..n - 1, NEW j \in 1..n - 1, i < j
       PROVE  new[g[i]] < new[g[j]]
  <2>1. at[g[i]] < at[g[j]]
    BY <1>1, <1>2, <1>9, <1>12
  <2>2. new[g[i]] = at[g[i]] /\ new[g[j]] = at[g[j]]
    BY <1>1, <1>4, <1>11
  <2>3. QED BY <2>1, <2>2
<1>13. Climbs(new, g)
  <2>1. g \in [1..n - 1 -> S \ {s}]
    BY <1>11
  <2> HIDE DEF g
  <2>2. QED BY <1>5, <1>7, <1>12, <2>1 DEF Climbs
<1>14. g = SubSeq(f, 1, k - 1) \o SubSeq(f, k + 1, Len(f))
  <2> DEFINE a == SubSeq(f, 1, k - 1)
             b == SubSeq(f, k + 1, n)
  <2>1. /\ \A i \in 1..k - 1 : f[i] \in S
        /\ \A i \in k + 1..n : f[i] \in S
    BY <1>1, <1>2, <1>9
  <2>2. /\ a \in Seq(S) /\ Len(a) = k - 1
        /\ \A i \in 1..k - 1 : a[i] = f[i]
    <3>1. /\ a \in Seq(S) /\ Len(a) = IF 1 <= k - 1 THEN k - 1 - 1 + 1 ELSE 0
          /\ \A i \in 1..k - 1 - 1 + 1 : a[i] = f[1 + i - 1]
      BY <1>9, <2>1, SubSeqProperties, 1 \in Int, k - 1 \in Int
    <3> HIDE DEF a
    <3>2. QED BY <1>9, <3>1
  <2>3. /\ b \in Seq(S) /\ Len(b) = n - k
        /\ \A i \in 1..n - k : b[i] = f[k + i]
    <3>1. /\ b \in Seq(S) /\ Len(b) = IF k + 1 <= n THEN n - (k + 1) + 1 ELSE 0
          /\ \A i \in 1..n - (k + 1) + 1 : b[i] = f[k + 1 + i - 1]
      BY <1>1, <1>9, <2>1, SubSeqProperties, k + 1 \in Int, n \in Int
    <3> HIDE DEF b
    <3>2. QED BY <1>1, <1>9, <3>1
  <2> HIDE DEF a, b
  <2>4. /\ a \o b \in Seq(S) /\ Len(a \o b) = n - 1
        /\ \A i \in 1..n - 1 : (a \o b)[i] = IF i <= k - 1 THEN a[i] ELSE b[i - (k - 1)]
    <3>1. /\ a \o b \in Seq(S) /\ Len(a \o b) = Len(a) + Len(b)
          /\ \A i \in 1..Len(a) + Len(b) :
               (a \o b)[i] = IF i <= Len(a) THEN a[i] ELSE b[i - Len(a)]
      BY <2>2, <2>3, ConcatProperties, Zenon
    <3>2. Len(a) + Len(b) = n - 1 /\ Len(a) = k - 1
      BY <1>1, <1>9, <2>2, <2>3
    <3>3. QED BY <3>1, <3>2, Zenon
  <2>5. a \o b \in [1..n - 1 -> S]
    BY <2>4, LenProperties
  <2>6. ASSUME NEW i \in 1..n - 1
        PROVE  (a \o b)[i] = g[i]
    <3>1. CASE i < k
      BY <1>1, <1>9, <2>2, <2>4, <3>1
    <3>2. CASE k <= i
      <4>1. i - (k - 1) \in 1..n - k /\ ~(i <= k - 1) /\ ~(i < k)
        BY <1>1, <1>9, <3>2
      <4>2. b[i - (k - 1)] = f[k + (i - (k - 1))] /\ k + (i - (k - 1)) = i + 1
        BY <1>9, <2>3, <4>1
      <4>3. QED BY <2>4, <4>1, <4>2
    <3>3. i < k \/ k <= i
      BY <1>1, <1>9
    <3>4. QED BY <3>1, <3>2, <3>3
  <2>7. a \o b = g
    BY <2>5, <2>6
  <2>8. QED BY <1>8, <2>7 DEF a, b
<1>15. QED BY <1>4, <1>5, <1>6, <1>13, <1>14, OnlyOrderClimbs DEF f, S, s

\* The nearest song is the one before or behind, so they change places.
LEMMA MovedAreSwapped ==
  ASSUME NEW at \in Positions, Unique(at), NEW s \in Placed(at),
         NEW op \in {"moveUp", "moveDown"}, NearAt(at, s, op),
         NEW new, new = [at EXCEPT ![s] = at[NeighbourAt(at, s, op)],
                                   ![NeighbourAt(at, s, op)] = at[s]]
  PROVE  /\ new \in Positions /\ Unique(new) /\ Placed(new) = Placed(at)
         /\ NeighbourAt(at, s, op) \in Placed(at)
         /\ \E i \in 1..Cardinality(Placed(at)) - 1 :
              OrderAt(new) = [OrderAt(at) EXCEPT ![i] = OrderAt(at)[i + 1],
                                                 ![i + 1] = OrderAt(at)[i]]
<1> DEFINE S == Placed(at)
           n == Cardinality(S)
           f == OrderAt(at)
           m == NeighbourAt(at, s, op)
<1>1. /\ S \in SUBSET Songs /\ IsFiniteSet(S) /\ n \in Nat
      /\ \A x \in S : at[x] \in Nat
  BY PlacedParts
<1>2. /\ f \in [1..n -> S] /\ \A i, j \in 1..n : i < j => at[f[i]] < at[f[j]]
      /\ \A x \in S : \E i \in 1..n : f[i] = x
  BY OrderClimbs DEF Climbs
<1>3. /\ m \in S
      /\ \/ at[m] < at[s] /\ \A o \in S : at[o] < at[s] => at[o] <= at[m]
         \/ at[s] < at[m] /\ \A o \in S : at[s] < at[o] => at[m] <= at[o]
  <2>1. CASE op = "moveUp"
    <3>1. BeforeAt(at, s) # {} /\ BeforeAt(at, s) \in SUBSET S
      BY <2>1 DEF NearAt, BeforeAt
    <3>2. \E x \in BeforeAt(at, s) : \A o \in BeforeAt(at, s) : at[o] <= at[x]
      BY <1>1, <3>1, FS_Subset, LastAndFirst
    <3>3. m \in BeforeAt(at, s) /\ \A o \in BeforeAt(at, s) : at[o] <= at[m]
      BY <2>1, <3>2 DEF NeighbourAt
    <3> HIDE DEF m
    <3>4. QED BY <3>3 DEF BeforeAt
  <2>2. CASE op = "moveDown"
    <3>1. AfterAt(at, s) # {} /\ AfterAt(at, s) \in SUBSET S
      BY <2>2 DEF NearAt, AfterAt
    <3>2. \E x \in AfterAt(at, s) : \A o \in AfterAt(at, s) : at[o] >= at[x]
      <4>1. PICK x \in AfterAt(at, s) : \A o \in AfterAt(at, s) : at[x] <= at[o]
        BY <1>1, <3>1, FS_Subset, LastAndFirst
      <4>2. QED BY <1>1, <3>1, <4>1
    <3>3. m \in AfterAt(at, s) /\ \A o \in AfterAt(at, s) : at[o] >= at[m]
      BY <2>2, <3>2 DEF NeighbourAt
    <3> HIDE DEF m
    <3>4. m \in S /\ at[m] > at[s] /\ \A o \in S : at[o] > at[s] => at[o] >= at[m]
      BY <3>3 DEF AfterAt
    <3>5. QED BY <1>1, <3>4
  <2>3. QED BY <2>1, <2>2
<1>4. new = [at EXCEPT ![s] = at[m], ![m] = at[s]]
  OBVIOUS
<1> HIDE DEF f, m
<1>5. s # m
  BY <1>1, <1>3
<1>6. /\ new \in Positions /\ new[s] = at[m] /\ new[m] = at[s]
      /\ \A x \in Songs : x # s /\ x # m => new[x] = at[x]
  <2>1. at[m] \in Nat /\ at[s] \in Nat /\ s \in Songs /\ m \in Songs
    BY <1>1, <1>3
  <2>2. QED BY <1>4, <1>5, <2>1 DEF Positions
<1>7. Placed(new) = S
  BY <1>1, <1>3, <1>6, NoneAssumption DEF Placed
<1>8. Unique(new)
  BY <1>1, <1>3, <1>6, <1>7 DEF Unique
<1> HIDE DEF n, S
<1>9. PICK k \in 1..n - 1 : {f[k], f[k + 1]} = {s, m}
  <2>1. PICK i \in 1..n : f[i] = s
    BY <1>2 DEF S
  <2>2. PICK j \in 1..n : f[j] = m
    BY <1>2, <1>3
  <2>3. at[f[i]] \in Nat /\ at[f[j]] \in Nat /\ i # j
    BY <1>1, <1>2, <1>5, <2>1, <2>2
  <2>4. \A x, y \in 1..n : at[f[x]] < at[f[y]] => x < y
    <3>1. ASSUME NEW x \in 1..n, NEW y \in 1..n, at[f[x]] < at[f[y]]
          PROVE  x < y
      <4>1. at[f[x]] \in Nat /\ at[f[y]] \in Nat
        BY <1>1, <1>2
      <4>2. ~(at[f[y]] < at[f[x]]) /\ at[f[x]] # at[f[y]]
        BY <3>1, <4>1
      <4>3. ~(y < x) /\ x # y
        BY <1>2, <4>2
      <4>4. QED BY <1>1, <4>3
    <3>2. QED BY <3>1
  <2>5. CASE at[m] < at[s] /\ \A o \in S : at[o] < at[s] => at[o] <= at[m]
    <3>1. j < i
      BY <2>1, <2>2, <2>4, <2>5
    <3>2. i = j + 1
      <4>1. ASSUME j + 1 < i
            PROVE  FALSE
        <5>1. j + 1 \in 1..n /\ f[j + 1] \in S
          BY <1>1, <1>2, <4>1
        <5>2. at[f[j]] < at[f[j + 1]] /\ at[f[j + 1]] < at[f[i]] /\ at[f[j + 1]] \in Nat
          BY <1>1, <1>2, <4>1, <5>1
        <5>3. QED BY <2>1, <2>2, <2>3, <2>5, <5>1, <5>2
      <4>2. QED BY <1>1, <3>1, <4>1
    <3>3. j \in 1..n - 1
      BY <1>1, <3>2
    <3>4. QED BY <2>1, <2>2, <3>2, <3>3
  <2>6. CASE at[s] < at[m] /\ \A o \in S : at[s] < at[o] => at[m] <= at[o]
    <3>1. i < j
      BY <2>1, <2>2, <2>4, <2>6
    <3>2. j = i + 1
      <4>1. ASSUME i + 1 < j
            PROVE  FALSE
        <5>1. i + 1 \in 1..n /\ f[i + 1] \in S
          BY <1>1, <1>2, <4>1
        <5>2. at[f[i]] < at[f[i + 1]] /\ at[f[i + 1]] < at[f[j]] /\ at[f[i + 1]] \in Nat
          BY <1>1, <1>2, <4>1, <5>1
        <5>3. QED BY <2>1, <2>2, <2>3, <2>6, <5>1, <5>2
      <4>2. QED BY <1>1, <3>1, <4>1
    <3>3. i \in 1..n - 1
      BY <1>1, <3>2
    <3>4. QED BY <2>1, <2>2, <3>2, <3>3
  <2>7. QED BY <1>3, <2>5, <2>6
<1> DEFINE g == [f EXCEPT ![k] = f[k + 1], ![k + 1] = f[k]]
<1>10. /\ k \in 1..n /\ k + 1 \in 1..n /\ k # k + 1
       /\ g[k] = f[k + 1] /\ g[k + 1] = f[k]
       /\ \A i \in 1..n : i # k /\ i # k + 1 => g[i] = f[i]
       /\ g \in [1..n -> S]
  <2>1. k \in 1..n /\ k + 1 \in 1..n /\ k # k + 1
    BY <1>1
  <2>2. QED BY <1>2, <2>1
<1> HIDE DEF g
<1>11. ASSUME NEW i \in 1..n
       PROVE  new[g[i]] = at[f[i]]
  <2>1. CASE i = k \/ i = k + 1
    <3>1. CASE f[k] = s /\ f[k + 1] = m
      BY <1>5, <1>6, <1>10, <2>1, <3>1
    <3>2. CASE f[k] = m /\ f[k + 1] = s
      BY <1>5, <1>6, <1>10, <2>1, <3>2
    <3>3. QED BY <1>5, <1>9, <3>1, <3>2
  <2>2. CASE i # k /\ i # k + 1
    <3>1. f[i] # f[k] /\ f[i] # f[k + 1]
      <4>1. ASSUME NEW j \in 1..n, i # j
            PROVE  f[i] # f[j]
        <5>1. at[f[i]] < at[f[j]] \/ at[f[j]] < at[f[i]]
          BY <1>1, <1>2, <4>1
        <5>2. at[f[i]] \in Nat /\ at[f[j]] \in Nat
          BY <1>1, <1>2
        <5>3. QED BY <5>1, <5>2
      <4>2. QED BY <1>10, <2>2, <4>1
    <3>2. f[i] # s /\ f[i] # m /\ f[i] \in Songs
      BY <1>1, <1>2, <1>9, <3>1
    <3>3. QED BY <1>6, <1>10, <2>2, <3>2
  <2>3. QED BY <2>1, <2>2
<1>12. Climbs(new, g)
  BY <1>2, <1>7, <1>10, <1>11 DEF Climbs, n, S
<1>13. OrderAt(new) = g
  BY <1>6, <1>8, <1>12, OnlyOrderClimbs
<1>14. QED BY <1>3, <1>6, <1>7, <1>8, <1>13 DEF g, f, m, n, S

-----------------------------------------------------------------------------
(***************************************************************************)
(* What a transaction will announce                                        *)
(***************************************************************************)
\* What a transaction in state m, whose playlist's row is row, has yet to announce
\* or has announced, and what it has checked: an edit knows everybody it has to
\* tell, and its playlist is there.
Tells(m, row) ==
  LET r == m.req
      told == m.todo \cup m.done
      doing(os) == m.pc = "writing" /\ r.op \in os
  IN  /\ m.pc # "writing" => told = {}
      /\ doing(ListEdits) => row.owner # None
      /\ doing({"addSong"}) => r.arg \notin Placed(row.at)
      /\ doing({"addMember"}) => r.arg # row.owner
      /\ doing({"addSong", "removeSong", "delete"}) =>
           {row.owner} \cup row.members \subseteq told
      /\ doing(MemberEdits) => r.arg \in told
      /\ doing({"leave", "favorite", "unfavorite"}) => r.user \in told
      /\ doing({"moveUp", "moveDown", "create"}) => told = {}

\* Whom transaction t has told, seen from the playlist it is about.
TellKept(t) == Tells(tx[t], list[tx[t].req.list])

\* Every row is a playlist or the lack of one.
RowsWhole == \A p \in Lists : Whole(list[p])

\* What the refinement needs to know of a state.
ViewInv == LibraryInv /\ RowsWhole /\ \A t \in Txs : TellKept(t)

\* A row that o edits has the owner it had, no new collaborators and, if a song
\* is being added, no new songs.
Steady(m, row, new) ==
  m.pc = "writing" /\ m.req.op \in ListEdits =>
    /\ new.owner = row.owner /\ new.members \subseteq row.members
    /\ m.req.op = "addSong" => Placed(new.at) \subseteq Placed(row.at)

\* Then it still tells whom it has to.
LEMMA SteadyTells ==
  ASSUME NEW m, NEW row, NEW new, Tells(m, row), Steady(m, row, new)
  PROVE  Tells(m, new)
  BY Operations DEF Tells, Steady, MemberEdits

\* A transaction that is not writing has nobody to tell.
LEMMA IdleTells ==
  ASSUME NEW m, NEW row, m.pc # "writing", m.todo = {}, m.done = {}
  PROVE  Tells(m, row)
  BY DEF Tells

\* A transaction that is not open has told nobody.
LEMMA NoTxTells ==
  ASSUME NEW row
  PROVE  Tells(NoTx, row)
  BY DEF Tells, NoTx

\* A transaction that ends leaves the others to tell what they have to, if their
\* rows are steady.
LEMMA EndedTells ==
  ASSUME ViewInv, NEW t \in Txs, tx' = [tx EXCEPT ![t] = NoTx],
         \A o \in Others(t) :
           Steady(tx[o], list[tx[o].req.list], list'[tx[o].req.list])
  PROVE  \A o \in Txs : TellKept(o)'
<1>1. tx'[t] = NoTx /\ \A o \in Others(t) : tx'[o] = tx[o]
  BY TxSet, NoTxOK DEF ViewInv, LibraryInv
<1>2. TellKept(t)'
  BY <1>1, NoTxTells DEF TellKept
<1>3. ASSUME NEW o \in Others(t)
      PROVE  TellKept(o)'
  <2>1. Tells(tx[o], list[tx[o].req.list])
    BY DEF ViewInv, TellKept, Others
  <2>2. Tells(tx[o], list'[tx[o].req.list])
    BY <2>1, SteadyTells
  <2>3. QED BY <1>1, <2>2 DEF TellKept
<1>4. QED BY <1>2, <1>3 DEF Others

\* What a transaction owes does not change when neither it nor its rows do.
LEMMA SameSteady ==
  ASSUME NEW m, NEW row, NEW new, new = row
  PROVE  Steady(m, row, new)
  BY DEF Steady

\* A request begins with nobody to tell.
LEMMA BeginTells ==
  ASSUME ViewInv, NEW t \in Txs, Begin(t)
  PROVE  \A o \in Txs : TellKept(o)'
<1>1. PICK r \in Request : tx' = [tx EXCEPT ![t] = [NoTx EXCEPT !.pc = "begun", !.req = r]]
  BY DEF Begin
<1>2. /\ tx'[t] = [NoTx EXCEPT !.pc = "begun", !.req = r]
      /\ \A o \in Others(t) : tx'[o] = tx[o]
  BY <1>1, TxSet DEF ViewInv, LibraryInv
<1>3. tx'[t].pc # "writing" /\ tx'[t].todo = {} /\ tx'[t].done = {}
  BY <1>2 DEF NoTx
<1>4. TellKept(t)'
  BY <1>3, IdleTells DEF TellKept
<1>5. list' = list
  BY DEF Begin
<1>6. QED BY <1>2, <1>4, <1>5 DEF TellKept, ViewInv, Others

\* Telling one of them leaves all of them told.
LEMMA MarkTells ==
  ASSUME ViewInv, NEW t \in Txs, Mark(t)
  PROVE  \A o \in Txs : TellKept(o)'
<1>1. PICK u \in Upcoming(t) :
        tx' = [tx EXCEPT ![t] = [tx[t] EXCEPT !.todo = @ \ {u}, !.done = @ \cup {u}]]
  BY DEF Mark
<1>2. u \in tx[t].todo
  BY <1>1 DEF Upcoming
<1>3. PICK m \in Tx : m = tx[t]
  BY DEF ViewInv, LibraryInv, TypeOK
<1>4. /\ tx'[t] = [m EXCEPT !.todo = @ \ {u}, !.done = @ \cup {u}]
      /\ \A o \in Others(t) : tx'[o] = tx[o]
  BY <1>1, <1>3, TxSet DEF ViewInv, LibraryInv
<1>5. /\ tx'[t].pc = m.pc /\ tx'[t].req = m.req
      /\ tx'[t].todo \cup tx'[t].done = m.todo \cup m.done
  BY <1>2, <1>3, <1>4 DEF Tx
<1>6. list' = list /\ Tells(m, list[m.req.list])
  BY <1>3 DEF Mark, ViewInv, TellKept
<1>7. Tells(tx'[t], list'[tx'[t].req.list])
  BY <1>5, <1>6 DEF Tells
<1>8. QED BY <1>4, <1>6, <1>7 DEF TellKept, ViewInv, Others

\* The transaction that decides has nobody to tell yet; it will tell us.
LEMMA DecidedTells ==
  ASSUME ViewInv, NEW t \in Txs, NEW put, NEW rows, NEW us,
         Decides(t, put, rows, us), tx[t].pc = "begun", NEW r, r = tx[t].req,
         r.op \in ListEdits => Exists(r.list),
         r.op = "addSong" => r.arg \notin SongsOf(r.list),
         r.op = "addMember" => r.arg # list[r.list].owner,
         r.op \in {"addSong", "removeSong", "delete"} => People(r.list) \subseteq us,
         r.op \in MemberEdits => r.arg \in us,
         r.op \in {"leave", "favorite", "unfavorite"} => r.user \in us,
         r.op \in {"moveUp", "moveDown", "create"} => us = {}
  PROVE  \A o \in Txs : TellKept(o)'
<1>1. PICK m \in Tx : m = tx[t]
  BY DEF ViewInv, LibraryInv, TypeOK
<1>2. m.done = {}
  BY <1>1 DEF ViewInv, TellKept, Tells
<1>3. /\ tx'[t] = [m EXCEPT !.pc = "writing", !.put = put, !.rows = rows, !.todo = us]
      /\ \A o \in Others(t) : tx'[o] = tx[o]
      /\ list' = list
  BY <1>1, TxSet DEF Decides, ViewInv, LibraryInv
<1>4. /\ tx'[t].pc = "writing" /\ tx'[t].req = r /\ tx'[t].todo = us
      /\ tx'[t].done = {}
  BY <1>1, <1>2, <1>3 DEF Tx
<1>5. Tells(tx'[t], list[r.list])
  BY <1>4 DEF Tells, Exists, SongsOf, People
<1>6. QED BY <1>3, <1>4, <1>5 DEF TellKept, ViewInv, Others

\* A transaction that has decided owes the news to everyone it was decided for.
LEMMA DecideTells ==
  ASSUME ViewInv, NEW t \in Txs, Decide(t)
  PROVE  \A o \in Txs : TellKept(o)'
<1> DEFINE r == tx[t].req
           Goal == \A o \in Txs : TellKept(o)'
<1>1. CASE AddPlaylistSong(t)
  <2>1. /\ r.op = "addSong" /\ tx[t].pc = "begun" /\ Exists(r.list)
        /\ r.arg \notin SongsOf(r.list) /\ Decides(t, Put(r), {}, People(r.list))
    BY <1>1 DEF AddPlaylistSong, Locks, Begun
  <2>2. QED BY <2>1, DecidedTells, Operations DEF MemberEdits
<1>2. CASE RemovePlaylistSong(t)
  <2>1. /\ r.op = "removeSong" /\ tx[t].pc = "begun" /\ Exists(r.list)
        /\ Decides(t, NoSongs, {}, People(r.list))
    BY <1>2 DEF RemovePlaylistSong, Locks, Begun
  <2>2. QED BY <2>1, DecidedTells, Operations DEF MemberEdits
<1>3. CASE MovePlaylistSong(t)
  <2>1. /\ r.op \in {"moveUp", "moveDown"} /\ tx[t].pc = "begun" /\ Exists(r.list)
        /\ Decides(t, Put(r), {}, {})
    BY <1>3 DEF MovePlaylistSong, Locks, Begun
  <2>2. QED BY <2>1, DecidedTells, Operations DEF MemberEdits
<1>4. CASE AddPlaylistCollaborator(t)
  <2>1. /\ r.op = "addMember" /\ tx[t].pc = "begun" /\ Exists(r.list)
        /\ r.arg # list[r.list].owner
        /\ Decides(t, NoSongs, {}, {r.user, r.arg})
    BY <1>4 DEF AddPlaylistCollaborator, Locks, Begun, People
  <2>2. QED BY <2>1, DecidedTells, Operations DEF MemberEdits
<1>5. CASE RemovePlaylistCollaborator(t)
  <2>1. /\ r.op = "removeMember" /\ tx[t].pc = "begun" /\ Exists(r.list)
        /\ Decides(t, NoSongs, {}, {r.user, r.arg})
    BY <1>5 DEF RemovePlaylistCollaborator, Locks, Begun
  <2>2. QED BY <2>1, DecidedTells, Operations DEF MemberEdits
<1>6. CASE LeavePlaylist(t)
  <2>1. /\ r.op = "leave" /\ tx[t].pc = "begun" /\ Decides(t, NoSongs, {}, {r.user})
    BY <1>6 DEF LeavePlaylist, Begun
  <2>2. QED BY <2>1, DecidedTells, Operations DEF MemberEdits
<1>7. CASE DeletePlaylist(t)
  <2>1. /\ r.op = "delete" /\ tx[t].pc = "begun" /\ Exists(r.list)
        /\ Decides(t, NoSongs, ReportsOf(r.list), People(r.list))
    BY <1>7 DEF DeletePlaylist, Locks, Begun
  <2>2. QED BY <2>1, DecidedTells, Operations DEF MemberEdits
<1>8. CASE SetPlaylistVisibility(t)
  <2>1. /\ r.op \in {"share", "unshare"} /\ tx[t].pc = "begun" /\ Exists(r.list)
        /\ Decides(t, NoSongs, {}, {})
    BY <1>8 DEF SetPlaylistVisibility, Locks, Begun
  <2>2. QED BY <2>1, DecidedTells, Operations DEF MemberEdits
<1>9. CASE CreatePlaylist(t)
  <2>1. r.op = "create" /\ tx[t].pc = "begun" /\ Decides(t, NoSongs, {}, {})
    BY <1>9 DEF CreatePlaylist, Begun
  <2>2. QED BY <2>1, DecidedTells, Operations DEF MemberEdits
<1>10. CASE SetPlaylistModerationStatus(t)
  <2>1. /\ r.op \in Moderation /\ tx[t].pc = "begun"
        /\ Decides(t, NoSongs, OpenReportsOf(r.list), {})
    BY <1>10 DEF SetPlaylistModerationStatus, Begun
  <2>2. QED BY <2>1, DecidedTells, Operations DEF MemberEdits
<1>11. CASE CreatePlaylistReport(t)
  <2>1. /\ r.op = "report" /\ tx[t].pc = "begun"
        /\ \E rows : Decides(t, NoSongs, rows, {})
    BY <1>11 DEF CreatePlaylistReport, Begun
  <2>2. QED BY <2>1, DecidedTells, Operations DEF MemberEdits
<1>12. CASE DisposePlaylistReport(t)
  <2>1. /\ r.op \in {"resolve", "dismiss"} /\ tx[t].pc = "begun"
        /\ \E rows : Decides(t, NoSongs, rows, {})
    BY <1>12 DEF DisposePlaylistReport, Begun
  <2>2. QED BY <2>1, DecidedTells, Operations DEF MemberEdits
<1>13. CASE SetFavorite(t)
  <2>1. /\ r.op \in {"favorite", "unfavorite"} /\ tx[t].pc = "begun"
        /\ Decides(t, NoSongs, {}, {r.user})
    BY <1>13 DEF SetFavorite, Begun
  <2>2. QED BY <2>1, DecidedTells, Operations DEF MemberEdits
<1>14. CASE DisconnectAccountProvider(t)
  <2>1. /\ r.op = "disconnect" /\ tx[t].pc = "begun"
        /\ Decides(t, NoSongs, {}, {})
    BY <1>14 DEF DisconnectAccountProvider, Begun
  <2>2. QED BY <2>1, DecidedTells, Operations DEF MemberEdits
<1>15. QED
  BY <1>1, <1>2, <1>3, <1>4, <1>5, <1>6, <1>7, <1>8, <1>9, <1>10, <1>11, <1>12,
     <1>13, <1>14 DEF Decide

-----------------------------------------------------------------------------
(***************************************************************************)
(* Commits, as edits of the abstract playlists                             *)
(***************************************************************************)
\* What LibraryView sees of the rows.
Orders == [p \in Lists |-> Order(p)]
Peoples == [p \in Lists |-> People(p) \ {None}]

\* What a step must be.
ViewStep == View!Edit \/ UNCHANGED View!vars

\* A step that leaves the seen variables alone is a stutter.
LEMMA ViewSame ==
  ASSUME UNCHANGED <<list, favorite, version>>
  PROVE  ViewStep
<1>1. UNCHANGED Orders /\ UNCHANGED Peoples
  BY OrderReads DEF Orders, Peoples, People
<1>2. QED BY <1>1 DEF ViewStep, View!vars, Orders, Peoples

\* A commit announces to those it has told, once.
LEMMA CommitTold ==
  ASSUME LibraryInv, NEW t \in Txs, NEW os, Commits(t, os),
         NEW us \in SUBSET Users, us \subseteq tx[t].done
  PROVE  View!Told(us)
  BY DEF Commits, Versions, View!Told, LibraryInv, TypeOK

\* A row that is written changes what is seen of its playlist only.
LEMMA RowSeen ==
  ASSUME LibraryInv, NEW p \in Lists, NEW row, list' = [list EXCEPT ![p] = row]
  PROVE  /\ list'[p] = row /\ \A q \in Lists : q # p => list'[q] = list[q]
         /\ Orders' = [Orders EXCEPT ![p] = OrderAt(row.at)]
         /\ Peoples' = [Peoples EXCEPT ![p] = ({row.owner} \cup row.members) \ {None}]
<1>1. list'[p] = row /\ \A q \in Lists : q # p => list'[q] = list[q]
  BY DEF LibraryInv, TypeOK
<1>2. ASSUME NEW q \in Lists
      PROVE  /\ Orders'[q] = OrderAt(list'[q].at) /\ Orders[q] = OrderAt(list[q].at)
             /\ Peoples'[q] = ({list'[q].owner} \cup list'[q].members) \ {None}
             /\ Peoples[q] = ({list[q].owner} \cup list[q].members) \ {None}
  BY OrderReads DEF Orders, Peoples, People
<1>3. /\ Orders' = [q \in Lists |-> Orders'[q]]
      /\ Peoples' = [q \in Lists |-> Peoples'[q]]
      /\ Orders = [q \in Lists |-> Orders[q]]
      /\ Peoples = [q \in Lists |-> Peoples[q]]
  BY DEF Orders, Peoples
<1>4. Orders' = [Orders EXCEPT ![p] = OrderAt(row.at)]
  BY <1>1, <1>2, <1>3
<1>5. Peoples' = [Peoples EXCEPT ![p] = ({row.owner} \cup row.members) \ {None}]
  <2> DEFINE seen(r) == ({r.owner} \cup r.members) \ {None}
  <2>1. \A q \in Lists : Peoples'[q] = seen(list'[q]) /\ Peoples[q] = seen(list[q])
    BY <1>2
  <2> HIDE DEF seen
  <2>2. Peoples'[p] = seen(row) /\ \A q \in Lists : q # p => Peoples'[q] = Peoples[q]
    BY <1>1, <2>1
  <2>3. Peoples' = [Peoples EXCEPT ![p] = seen(row)]
    BY <1>3, <2>2
  <2>4. QED BY <2>3 DEF seen
<1>6. QED BY <1>1, <1>4, <1>5

\* A transaction that locks a playlist's row, or one that takes nothing from it
\* but a collaborator, writes it and leaves the others to tell what they have to.
LEMMA CommitTells ==
  ASSUME ViewInv, NEW t \in Txs, NEW os, Commits(t, os),
         NEW p \in Lists, p = tx[t].req.list, NEW row, Whole(row),
         list' = [list EXCEPT ![p] = row],
         \/ Writing(t, ListEdits \cup {"create"})
         \/ /\ row.owner = list[p].owner /\ row.at = list[p].at
            /\ row.members \subseteq list[p].members
  PROVE  RowsWhole' /\ \A o \in Txs : TellKept(o)'
<1>1. LibraryInv
  BY DEF ViewInv
<1>2. list'[p] = row /\ \A q \in Lists : q # p => list'[q] = list[q]
  BY <1>1, RowSeen
<1>3. RowsWhole'
  BY <1>2 DEF RowsWhole, ViewInv
<1>4. ASSUME NEW o \in Others(t)
      PROVE  Steady(tx[o], list[tx[o].req.list], list'[tx[o].req.list])
  <2>1. SUFFICES ASSUME tx[o].pc = "writing", tx[o].req.op \in ListEdits
                 PROVE  Steady(tx[o], list[tx[o].req.list], list'[tx[o].req.list])
    BY DEF Steady
  <2>2. tx[o].req.list \in Lists
    <3>1. PICK r \in Request \cup {NoRequest} : r = tx[o].req
      BY <1>1 DEF LibraryInv, TypeOK, Tx, Others
    <3>2. QED BY <2>1, <3>1, RequestParts DEF ListEdits
  <2>3. CASE tx[o].req.list # p
    BY <1>2, <2>2, <2>3, SameSteady
  <2>4. CASE tx[o].req.list = p
    <3>1. Excludes(t, o)
      BY <1>1 DEF LibraryInv, LocksKept
    <3>2. ~Writing(t, ListEdits \cup {"create"})
      BY <2>1, <2>4, <3>1, Operations DEF Excludes, Writing
    <3>3. QED BY <1>2, <2>4, <3>2 DEF Steady
  <2>5. QED BY <2>3, <2>4
<1>5. tx' = [tx EXCEPT ![t] = NoTx]
  BY DEF Commits
<1>6. QED BY <1>3, <1>4, <1>5, EndedTells

\* addPlaylistSong puts the song last; movePlaylistSong lets two neighbours change
\* places.
LEMMA CommitPositionsView ==
  ASSUME ViewInv, NEW t \in Txs, CommitPositions(t)
  PROVE  RowsWhole' /\ (\A o \in Txs : TellKept(o)') /\ ViewStep
<1>1. PICK m \in Tx : m = tx[t]
  BY DEF ViewInv, LibraryInv, TypeOK
<1>2. PICK r \in Request \cup {NoRequest} : r = m.req
  BY DEF Tx
<1>3. PICK p \in Lists : p = r.list
  <2>1. Writing(t, ListEdits \cup Moderation \cup {"leave", "create", "report"})
    BY Operations DEF CommitPositions, Commits, Writing
  <2>2. QED BY <1>1, <1>2, <2>1, Committing DEF ViewInv
<1> DEFINE at == list[p].at
           new == Overlay(p, m.put)
           row == [list[p] EXCEPT !.at = new]
<1>4. /\ Commits(t, {"addSong", "moveUp", "moveDown"}) /\ m.todo = {}
      /\ m.pc = "writing" /\ r.op \in {"addSong", "moveUp", "moveDown"}
      /\ list' = [list EXCEPT ![p].at = new] /\ UNCHANGED favorite
  BY <1>1, <1>2, <1>3 DEF CommitPositions, Commits, Writing
<1>5. list' = [list EXCEPT ![p] = row]
  BY <1>4
<1>6. /\ list[p] \in List /\ at \in Positions /\ Whole(list[p]) /\ Unique(at)
      /\ LibraryInv
  BY DEF ViewInv, LibraryInv, TypeOK, List, RowsWhole, Whole, Unique
<1>7. r.arg \in Songs /\ r.op \in SongEdits
  BY <1>4, RequestParts DEF SongEdits
<1>8. /\ list[p].owner # None
      /\ r.op = "addSong" => /\ r.arg \notin Placed(at)
                             /\ {list[p].owner} \cup list[p].members \subseteq m.done
      /\ r.op # "addSong" => m.done = {}
  <2>1. Tells(m, list[p])
    BY <1>1, <1>2, <1>3 DEF ViewInv, TellKept
  <2>2. QED BY <1>2, <1>4, <2>1, Operations DEF Tells
<1>9. /\ m.put = PutAt(at, r.arg, r.op)
      /\ r.op # "addSong" => r.arg \in Placed(at) /\ NearAt(at, r.arg, r.op)
  <2>1. EditKept(t)
    BY <1>6 DEF LibraryInv, ReadsKept
  <2>2. /\ m.put = Put(r)
        /\ r.op # "addSong" =>
             r.arg \in SongsOf(r.list) /\ HasNeighbour(r.list, r.arg, r.op)
    BY <1>1, <1>2, <1>4, <2>1 DEF EditKept, Writing
  <2>3. QED BY <1>3, <2>2, ReadsPositions
<1>10. new = [s \in Songs |-> IF m.put[s] = None THEN at[s] ELSE m.put[s]]
  BY DEF Overlay
<1> HIDE DEF new
<1>11. row.owner = list[p].owner /\ row.members = list[p].members /\ row.at = new
  BY <1>6 DEF List
<1> HIDE DEF row
<1>12. Writing(t, ListEdits \cup {"create"})
  BY <1>1, <1>2, <1>4, Operations DEF Writing
<1>13. CASE r.op = "addSong"
  <2>1. new = [at EXCEPT ![r.arg] = NextAt(at)]
    <3>1. m.put = [NoSongs EXCEPT ![r.arg] = NextAt(at)] /\ NextAt(at) \in Nat
      BY <1>6, <1>9, <1>13, NextIsAbove DEF PutAt
    <3> HIDE DEF at
    <3>2. QED BY <1>6, <1>7, <1>10, <3>1, NoneAssumption DEF Positions, NoSongs
  <2>2. /\ new \in Positions /\ Unique(new)
        /\ OrderAt(new) = Append(OrderAt(at), r.arg)
    BY <1>6, <1>7, <1>8, <1>13, <2>1, AddedIsLast
  <2>3. Whole(row)
    BY <1>6, <1>8, <1>11, <2>2 DEF Whole, Unique
  <2>4. RowsWhole' /\ \A o \in Txs : TellKept(o)'
    BY <1>1, <1>2, <1>3, <1>4, <1>5, <1>12, <2>3, CommitTells
  <2>5. View!Add(p, r.arg)
    <3>1. /\ Orders' = [Orders EXCEPT ![p] = Append(OrderAt(at), r.arg)]
          /\ Peoples' = [Peoples EXCEPT ![p] = ({row.owner} \cup row.members) \ {None}]
      BY <1>5, <1>6, <1>11, <2>2, RowSeen
    <3>2. Orders[p] = OrderAt(at) /\ Peoples[p] = ({row.owner} \cup row.members) \ {None}
      BY <1>11, OrderReads DEF Orders, Peoples, People
    <3>3. Orders' = [Orders EXCEPT ![p] = Append(@, r.arg)] /\ UNCHANGED Peoples
      BY <3>1, <3>2 DEF Peoples
    <3>4. r.arg \notin View!ToSet(Orders[p])
      <4>1. OrderAt(at) \in [1..Cardinality(Placed(at)) -> Placed(at)]
        BY <1>6, OrderClimbs DEF Climbs
      <4>2. QED BY <1>8, <1>13, <3>2, <4>1 DEF View!ToSet
    <3>5. View!Told(Peoples[p])
      <4>1. Peoples[p] \in SUBSET Users
        BY <1>6 DEF Peoples, People, List
      <4>2. Peoples[p] \subseteq m.done
        BY <1>8, <1>13 DEF Peoples, People
      <4>3. QED BY <1>1, <1>4, <1>6, <4>1, <4>2, CommitTold
    <3>6. QED BY <1>4, <3>3, <3>4, <3>5 DEF View!Add, Orders, Peoples
  <2>6. QED BY <1>7, <2>4, <2>5 DEF ViewStep, View!Edit
<1>14. CASE r.op # "addSong"
  <2> DEFINE n == NeighbourAt(at, r.arg, r.op)
             swapped == [at EXCEPT ![r.arg] = at[n], ![n] = at[r.arg]]
             f == OrderAt(at)
  <2>1. /\ swapped \in Positions /\ Unique(swapped)
        /\ n \in Placed(at)
        /\ \E i \in 1..Cardinality(Placed(at)) - 1 :
             OrderAt(swapped) = [f EXCEPT ![i] = f[i + 1], ![i + 1] = f[i]]
    <3>1. r.arg \in Placed(at) /\ r.op \in {"moveUp", "moveDown"} /\ NearAt(at, r.arg, r.op)
      BY <1>4, <1>9, <1>14
    <3>2. QED BY <1>6, <3>1, MovedAreSwapped
  <2>2. new = swapped
    <3>1. m.put = [NoSongs EXCEPT ![r.arg] = at[n], ![n] = at[r.arg]]
      BY <1>9, <1>14 DEF PutAt
    <3>2. r.arg \in Songs /\ n \in Songs /\ at[r.arg] # None /\ at[n] # None
      BY <1>7, <1>9, <1>14, <2>1 DEF Placed
    <3>3. at \in [Songs -> {None} \cup Nat]
      BY <1>6 DEF Positions
    <3> HIDE DEF n, at
    <3>4. QED BY <1>10, <3>1, <3>2, <3>3 DEF NoSongs
  <2> HIDE DEF swapped, n
  <2>3. Whole(row)
    BY <1>6, <1>8, <1>11, <2>1, <2>2 DEF Whole, Unique
  <2>4. RowsWhole' /\ \A o \in Txs : TellKept(o)'
    BY <1>1, <1>2, <1>3, <1>4, <1>5, <1>12, <2>3, CommitTells
  <2>5. PICK i \in 1..Cardinality(Placed(at)) - 1 :
          OrderAt(new) = [f EXCEPT ![i] = f[i + 1], ![i + 1] = f[i]]
    BY <2>1, <2>2
  <2>6. View!Swap(p, i)
    <3>1. /\ Orders' = [Orders EXCEPT ![p] = OrderAt(new)]
          /\ Peoples' = [Peoples EXCEPT ![p] = ({row.owner} \cup row.members) \ {None}]
      BY <1>5, <1>6, <1>11, RowSeen
    <3>2. Orders[p] = f /\ Peoples[p] = ({row.owner} \cup row.members) \ {None}
      BY <1>11, OrderReads DEF Orders, Peoples, People
    <3>3. /\ Orders' = [Orders EXCEPT ![p] = [@ EXCEPT ![i] = Orders[p][i + 1],
                                                      ![i + 1] = Orders[p][i]]]
          /\ UNCHANGED Peoples
      BY <2>5, <3>1, <3>2 DEF Peoples
    <3>4. version' = version
      BY <1>1, <1>4, <1>8, <1>14, <1>6 DEF Commits, Versions, LibraryInv, TypeOK
    <3>5. QED BY <1>4, <3>3, <3>4 DEF View!Swap, Orders, Peoples
  <2>7. i \in 1..Len(Orders[p]) - 1
    <3>1. f \in [1..Cardinality(Placed(at)) -> Placed(at)] /\ Cardinality(Placed(at)) \in Nat
      BY <1>6, OrderClimbs, PlacedParts DEF Climbs
    <3>2. Len(f) = Cardinality(Placed(at))
      BY <3>1
    <3>3. Orders[p] = f
      BY OrderReads DEF Orders
    <3>4. QED BY <3>2, <3>3
  <2>8. QED BY <2>4, <2>6, <2>7 DEF ViewStep, View!Edit, Orders
<1>15. QED BY <1>13, <1>14

\* What is known of a transaction that commits to a playlist's row.
LEMMA RowCommit ==
  ASSUME ViewInv, NEW t \in Txs, NEW os, Commits(t, os),
         os \subseteq ListEdits \cup Moderation \cup {"leave", "create"}
  PROVE  /\ LibraryInv /\ tx[t].pc = "writing" /\ tx[t].req.op \in os
         /\ tx[t].req \in Request \cup {NoRequest} /\ tx[t].req.list \in Lists
         /\ list[tx[t].req.list] \in List /\ Whole(list[tx[t].req.list])
         /\ Tells(tx[t], list[tx[t].req.list]) /\ tx[t].todo = {}
         /\ tx[t].todo \cup tx[t].done = tx[t].done
<1>1. LibraryInv /\ tx[t] \in Tx /\ list \in [Lists -> List]
  BY DEF ViewInv, LibraryInv, TypeOK
<1>2. tx[t].pc = "writing" /\ tx[t].req.op \in os /\ tx[t].todo = {}
  BY DEF Commits, Writing
<1>3. tx[t].req \in Request \cup {NoRequest}
  BY <1>1 DEF Tx
<1>4. tx[t].req.list \in Lists
  <2>1. Writing(t, ListEdits \cup Moderation \cup {"leave", "create", "report"})
    BY <1>2 DEF Writing
  <2>2. QED BY <1>1, <2>1, Committing
<1>5. QED BY <1>1, <1>2, <1>3, <1>4 DEF ViewInv, RowsWhole, TellKept

\* removePlaylistSong takes one song out of the order.
LEMMA CommitRemovalView ==
  ASSUME ViewInv, NEW t \in Txs, CommitRemoval(t)
  PROVE  RowsWhole' /\ (\A o \in Txs : TellKept(o)') /\ ViewStep
<1>1. /\ Commits(t, {"removeSong"}) /\ UNCHANGED favorite
      /\ list' = [list EXCEPT ![tx[t].req.list].at[tx[t].req.arg] = None]
  BY DEF CommitRemoval
<1>2. PICK r : r = tx[t].req
  OBVIOUS
<1>3. PICK p \in Lists : p = r.list
  BY <1>1, <1>2, RowCommit, Operations
<1> DEFINE at == list[p].at
           new == [at EXCEPT ![r.arg] = None]
           row == [list[p] EXCEPT !.at = new]
           n == Cardinality(Placed(at))
           f == OrderAt(at)
<1>4. /\ LibraryInv /\ tx[t].pc = "writing" /\ r.op = "removeSong"
      /\ list[p] \in List /\ Whole(list[p]) /\ Tells(tx[t], list[p])
      /\ tx[t].todo \cup tx[t].done = tx[t].done
  BY <1>1, <1>2, <1>3, RowCommit, Operations
<1>5. at \in Positions /\ Unique(at)
  BY <1>4 DEF List, Whole, Unique
<1>6. list[p].owner # None /\ {list[p].owner} \cup list[p].members \subseteq tx[t].done
  BY <1>2, <1>4, Operations DEF Tells
<1>7. r.arg \in Placed(at)
  BY <1>2, <1>3, <1>4 DEF LibraryInv, ReadsKept, EditKept, Writing, SongsOf
<1>8. PICK k \in 1..n : f[k] = r.arg
  BY <1>5, <1>7, OrderClimbs
<1>9. /\ new \in Positions /\ Unique(new)
      /\ OrderAt(new) = SubSeq(f, 1, k - 1) \o SubSeq(f, k + 1, Len(f))
  BY <1>5, <1>8, RemovedIsGone
<1>10. list' = [list EXCEPT ![p] = row]
  BY <1>1, <1>2, <1>3
<1> HIDE DEF new
<1>11. row.owner = list[p].owner /\ row.members = list[p].members /\ row.at = new
  BY <1>4 DEF List
<1> HIDE DEF row
<1>12. Whole(row)
  BY <1>4, <1>6, <1>9, <1>11 DEF Whole, Unique
<1>13. Writing(t, ListEdits \cup {"create"})
  BY <1>2, <1>4, Operations DEF Writing
<1>14. RowsWhole' /\ \A o \in Txs : TellKept(o)'
  BY <1>1, <1>2, <1>3, <1>10, <1>12, <1>13, CommitTells
<1>15. View!Drop(p, k)
  <2>1. /\ Orders' = [Orders EXCEPT ![p] = OrderAt(new)]
        /\ Peoples' = [Peoples EXCEPT ![p] = ({row.owner} \cup row.members) \ {None}]
    BY <1>4, <1>10, <1>11, RowSeen
  <2>2. Orders[p] = f /\ Peoples[p] = ({row.owner} \cup row.members) \ {None}
    BY <1>11, OrderReads DEF Orders, Peoples, People
  <2>3. Orders' = [Orders EXCEPT ![p] = View!RemoveAt(@, k)] /\ UNCHANGED Peoples
    BY <1>9, <2>1, <2>2 DEF Peoples, View!RemoveAt
  <2>4. View!Told(Peoples[p])
    <3>1. Peoples[p] \in SUBSET Users
      BY <1>4 DEF Peoples, People, List
    <3>2. Peoples[p] \subseteq tx[t].done
      BY <1>6 DEF Peoples, People
    <3>3. QED BY <1>1, <1>4, <3>1, <3>2, CommitTold
  <2>5. QED BY <1>1, <2>3, <2>4 DEF View!Drop, Orders, Peoples
<1>16. k \in 1..Len(Orders[p])
  <2>1. f \in [1..n -> Placed(at)] /\ n \in Nat
    BY <1>5, OrderClimbs, PlacedParts DEF Climbs
  <2>2. Len(f) = n
    BY <2>1
  <2>3. Orders[p] = f
    BY OrderReads DEF Orders
  <2>4. QED BY <2>2, <2>3
<1>17. QED BY <1>14, <1>15, <1>16 DEF ViewStep, View!Edit, Orders

\* addPlaylistCollaborator and the two ways of leaving a playlist.
LEMMA CommitJoinView ==
  ASSUME ViewInv, NEW t \in Txs, CommitJoin(t)
  PROVE  RowsWhole' /\ (\A o \in Txs : TellKept(o)') /\ ViewStep
<1>1. /\ Commits(t, {"addMember"}) /\ UNCHANGED favorite
      /\ list' = [list EXCEPT ![tx[t].req.list].members = @ \cup {tx[t].req.arg}]
  BY DEF CommitJoin
<1>2. PICK r : r = tx[t].req
  OBVIOUS
<1>3. PICK p \in Lists : p = r.list
  BY <1>1, <1>2, RowCommit, Operations
<1> DEFINE row == [list[p] EXCEPT !.members = @ \cup {r.arg}]
<1>4. /\ LibraryInv /\ tx[t].pc = "writing" /\ r.op = "addMember"
      /\ list[p] \in List /\ Whole(list[p]) /\ Tells(tx[t], list[p])
      /\ tx[t].todo \cup tx[t].done = tx[t].done
      /\ r \in Request \cup {NoRequest}
  BY <1>1, <1>2, <1>3, RowCommit, Operations
<1>5. r.arg \in Users
  BY <1>4, RequestParts DEF MemberEdits
<1>6. list[p].owner # None /\ r.arg # list[p].owner /\ r.arg \in tx[t].done
  BY <1>2, <1>4, Operations DEF Tells, MemberEdits
<1>7. list' = [list EXCEPT ![p] = row]
  BY <1>1, <1>2, <1>3
<1>8. /\ row.owner = list[p].owner /\ row.members = list[p].members \cup {r.arg}
      /\ row.at = list[p].at
  BY <1>4 DEF List
<1> HIDE DEF row
<1>9. Whole(row)
  BY <1>4, <1>6, <1>8 DEF Whole
<1>10. Writing(t, ListEdits \cup {"create"})
  BY <1>2, <1>4, Operations DEF Writing
<1>11. RowsWhole' /\ \A o \in Txs : TellKept(o)'
  BY <1>1, <1>2, <1>3, <1>7, <1>9, <1>10, CommitTells
<1>12. /\ Orders' = [Orders EXCEPT ![p] = OrderAt(row.at)]
       /\ Peoples' = [Peoples EXCEPT ![p] = ({row.owner} \cup row.members) \ {None}]
  BY <1>4, <1>7, RowSeen
<1>13. /\ Orders[p] = OrderAt(row.at)
       /\ Peoples[p] = ({list[p].owner} \cup list[p].members) \ {None}
  BY <1>8, OrderReads DEF Orders, Peoples, People
<1>14. UNCHANGED Orders
  BY <1>12, <1>13 DEF Orders
<1>15. Peoples' = [Peoples EXCEPT ![p] = @ \cup {r.arg}]
  <2>1. ({row.owner} \cup row.members) \ {None} = Peoples[p] \cup {r.arg}
    BY <1>5, <1>8, <1>13, NoneAssumption
  <2>2. QED BY <1>12, <2>1
<1>16. View!Told({r.arg})
  BY <1>1, <1>4, <1>5, <1>6, CommitTold
<1>17. CASE r.arg \in Peoples[p]
  <2>1. Peoples[p] \cup {r.arg} = Peoples[p]
    BY <1>17
  <2>2. UNCHANGED Peoples
    BY <1>15, <2>1 DEF Peoples
  <2>3. View!Tell
    BY <1>1, <1>14, <1>16, <2>2 DEF View!Tell, View!Told, Orders, Peoples
  <2>4. QED BY <1>11, <2>3 DEF ViewStep, View!Edit
<1>18. CASE r.arg \notin Peoples[p]
  <2>1. Peoples[p] # {}
    BY <1>6, <1>13
  <2>2. View!Join(p, r.arg)
    BY <1>1, <1>14, <1>15, <1>16, <1>18, <2>1 DEF View!Join, Orders, Peoples
  <2>3. QED BY <1>5, <1>11, <2>2 DEF ViewStep, View!Edit
<1>19. QED BY <1>17, <1>18

\* Who is not there any more is told all the same.
LEMMA CommitQuitView ==
  ASSUME ViewInv, NEW t \in Txs, CommitQuit(t)
  PROVE  RowsWhole' /\ (\A o \in Txs : TellKept(o)') /\ ViewStep
<1>1. PICK r : r = tx[t].req
  OBVIOUS
<1>2. PICK u : u = IF r.op = "leave" THEN r.user ELSE r.arg
  OBVIOUS
<1>3. /\ Commits(t, {"removeMember", "leave"}) /\ UNCHANGED favorite
      /\ list' = [list EXCEPT ![r.list].members = @ \ {u}]
  BY <1>1, <1>2 DEF CommitQuit
<1>4. PICK p \in Lists : p = r.list
  BY <1>1, <1>3, RowCommit, Operations
<1> DEFINE row == [list[p] EXCEPT !.members = @ \ {u}]
<1>5. /\ LibraryInv /\ tx[t].pc = "writing" /\ r.op \in {"removeMember", "leave"}
      /\ list[p] \in List /\ Whole(list[p]) /\ Tells(tx[t], list[p])
      /\ tx[t].todo \cup tx[t].done = tx[t].done
      /\ r \in Request \cup {NoRequest}
  BY <1>1, <1>3, <1>4, RowCommit, Operations
<1>6. u \in Users
  BY <1>2, <1>5, RequestParts DEF MemberEdits
<1>7. u \in tx[t].done
  BY <1>1, <1>2, <1>5, Operations DEF Tells, MemberEdits
<1>8. list' = [list EXCEPT ![p] = row]
  BY <1>3, <1>4
<1>9. /\ row.owner = list[p].owner /\ row.members = list[p].members \ {u}
      /\ row.at = list[p].at
  BY <1>5 DEF List
<1> HIDE DEF row
<1>10. Whole(row)
  BY <1>5, <1>9 DEF Whole
<1>11. row.members \subseteq list[p].members
  BY <1>9
<1>12. RowsWhole' /\ \A o \in Txs : TellKept(o)'
  BY <1>1, <1>3, <1>4, <1>8, <1>9, <1>10, <1>11, CommitTells
<1>13. /\ Orders' = [Orders EXCEPT ![p] = OrderAt(row.at)]
       /\ Peoples' = [Peoples EXCEPT ![p] = ({row.owner} \cup row.members) \ {None}]
  BY <1>5, <1>8, RowSeen
<1>14. /\ Orders[p] = OrderAt(row.at)
       /\ Peoples[p] = ({list[p].owner} \cup list[p].members) \ {None}
  BY <1>9, OrderReads DEF Orders, Peoples, People
<1>15. UNCHANGED Orders
  BY <1>13, <1>14 DEF Orders
<1>16. View!Told({u})
  BY <1>3, <1>5, <1>6, <1>7, CommitTold
<1>17. CASE u \notin list[p].members
  <2>1. row.members = list[p].members
    BY <1>9, <1>17
  <2>2. UNCHANGED Peoples
    BY <1>9, <1>13, <1>14, <2>1 DEF Peoples
  <2>3. View!Tell
    BY <1>3, <1>15, <1>16, <2>2 DEF View!Tell, View!Told, Orders, Peoples
  <2>4. QED BY <1>12, <2>3 DEF ViewStep, View!Edit
<1>18. CASE u \in list[p].members
  <2>1. list[p].owner # None /\ list[p].owner # u
    BY <1>5, <1>18 DEF Whole
  <2>2. ({row.owner} \cup row.members) \ {None} = Peoples[p] \ {u}
    BY <1>9, <1>14, <2>1
  <2>3. u \in Peoples[p] /\ Peoples[p] # {u}
    BY <1>6, <1>14, <1>18, <2>1, NoneAssumption
  <2>4. Peoples' = [Peoples EXCEPT ![p] = @ \ {u}]
    BY <1>13, <2>2
  <2>5. View!Quit(p, u)
    BY <1>3, <1>15, <1>16, <2>3, <2>4 DEF View!Quit, Orders, Peoples
  <2>6. QED BY <1>6, <1>12, <2>5 DEF ViewStep, View!Edit
<1>19. QED BY <1>17, <1>18

\* A playlist that does not exist is empty in both views.
LEMMA NothingSeen ==
  /\ Whole(NoList) /\ Placed(NoSongs) = {} /\ OrderAt(NoSongs) = << >>
  /\ NoList.owner = None /\ NoList.members = {} /\ NoList.at = NoSongs
<1>1. Placed(NoSongs) = {}
  BY DEF Placed, NoSongs
<1>2. /\ NoList.owner = None /\ NoList.members = {} /\ NoList.at = NoSongs
  BY DEF NoList
<1>3. OrderAt(NoSongs) = << >>
  BY <1>1, FS_EmptySet DEF OrderAt
<1>4. QED BY <1>1, <1>2, <1>3 DEF Whole

\* deletePlaylist leaves nothing, and tells everybody who saw it.
LEMMA CommitDeletionView ==
  ASSUME ViewInv, NEW t \in Txs, CommitDeletion(t)
  PROVE  RowsWhole' /\ (\A o \in Txs : TellKept(o)') /\ ViewStep
<1>1. PICK r : r = tx[t].req
  OBVIOUS
<1>2. /\ Commits(t, {"delete"}) /\ UNCHANGED favorite
      /\ list' = [list EXCEPT ![r.list] = NoList]
  BY <1>1 DEF CommitDeletion
<1>3. PICK p \in Lists : p = r.list
  BY <1>1, <1>2, RowCommit, Operations
<1>4. /\ LibraryInv /\ tx[t].pc = "writing" /\ r.op = "delete"
      /\ list[p] \in List /\ Tells(tx[t], list[p])
      /\ tx[t].todo \cup tx[t].done = tx[t].done
  BY <1>1, <1>2, <1>3, RowCommit, Operations
<1>5. list[p].owner # None /\ {list[p].owner} \cup list[p].members \subseteq tx[t].done
  BY <1>1, <1>4, Operations DEF Tells
<1>6. Writing(t, ListEdits \cup {"create"})
  BY <1>1, <1>4, Operations DEF Writing
<1>7. RowsWhole' /\ \A o \in Txs : TellKept(o)'
  BY <1>1, <1>2, <1>3, <1>6, NothingSeen, CommitTells
<1>8. View!Delete(p)
  <2>1. /\ Orders' = [Orders EXCEPT ![p] = OrderAt(NoList.at)]
        /\ Peoples' = [Peoples EXCEPT ![p] =
                         ({NoList.owner} \cup NoList.members) \ {None}]
    BY <1>2, <1>3, <1>4, RowSeen
  <2>2. OrderAt(NoList.at) = << >> /\ ({NoList.owner} \cup NoList.members) \ {None} = {}
    BY NothingSeen
  <2>3. Peoples[p] = ({list[p].owner} \cup list[p].members) \ {None}
    BY DEF Peoples, People
  <2>4. View!Told(Peoples[p])
    <3>1. Peoples[p] \in SUBSET Users
      BY <1>4, <2>3 DEF List
    <3>2. Peoples[p] \subseteq tx[t].done
      BY <1>5, <2>3
    <3>3. QED BY <1>2, <1>4, <3>1, <3>2, CommitTold
  <2>5. Peoples[p] # {}
    BY <1>5, <2>3
  <2>6. QED BY <1>2, <2>1, <2>2, <2>4, <2>5 DEF View!Delete, Orders, Peoples
<1>9. QED BY <1>7, <1>8 DEF ViewStep, View!Edit

\* createPlaylist: the row was not there when the transaction decided and is not
\* there now.
LEMMA CommitCreationView ==
  ASSUME ViewInv, NEW t \in Txs, CommitCreation(t)
  PROVE  RowsWhole' /\ (\A o \in Txs : TellKept(o)') /\ ViewStep
<1>1. PICK r : r = tx[t].req
  OBVIOUS
<1> DEFINE row == [NoList EXCEPT !.owner = r.user]
<1>2. /\ Commits(t, {"create"}) /\ UNCHANGED favorite
      /\ list' = [list EXCEPT ![r.list] = row]
  BY <1>1 DEF CommitCreation
<1>3. PICK p \in Lists : p = r.list
  BY <1>1, <1>2, RowCommit, Operations
<1>4. /\ LibraryInv /\ tx[t].pc = "writing" /\ r.op = "create"
      /\ list[p] \in List /\ Whole(list[p]) /\ Tells(tx[t], list[p])
      /\ tx[t].todo \cup tx[t].done = tx[t].done
      /\ r \in Request \cup {NoRequest}
  BY <1>1, <1>2, <1>3, RowCommit, Operations
<1>5. r.user \in Users
  BY <1>4, RequestParts
<1>6. list[p].owner = None /\ list[p].members = {} /\ list[p].at = NoSongs
  <2>1. RoomKept(t)
    BY <1>4 DEF LibraryInv, ReadsKept
  <2>2. ~Exists(p)
    BY <1>1, <1>3, <1>4, <2>1 DEF RoomKept, Writing
  <2>3. QED BY <1>4, <2>2 DEF Exists, Whole
<1>7. /\ row.owner = r.user /\ row.members = {} /\ row.at = NoSongs
  BY DEF NoList
<1> HIDE DEF row
<1>8. Whole(row)
  BY <1>5, <1>7, NothingSeen, NoneAssumption DEF Whole
<1>9. Writing(t, ListEdits \cup {"create"})
  BY <1>1, <1>4 DEF Writing
<1>10. RowsWhole' /\ \A o \in Txs : TellKept(o)'
  BY <1>1, <1>2, <1>3, <1>8, <1>9, CommitTells
<1>11. View!Create(p, r.user)
  <2>1. /\ Orders' = [Orders EXCEPT ![p] = OrderAt(row.at)]
        /\ Peoples' = [Peoples EXCEPT ![p] = ({row.owner} \cup row.members) \ {None}]
    BY <1>2, <1>3, <1>4, RowSeen
  <2>2. Orders[p] = OrderAt(row.at) /\ Peoples[p] = {}
    BY <1>6, <1>7, OrderReads DEF Orders, Peoples, People
  <2>3. ({row.owner} \cup row.members) \ {None} = {r.user}
    BY <1>5, <1>7, NoneAssumption
  <2>4. UNCHANGED Orders
    BY <2>1, <2>2 DEF Orders
  <2>5. version' = version
    <3>1. tx[t].done = {}
      BY <1>1, <1>4 DEF Tells
    <3>2. QED BY <1>2, <1>4, <3>1 DEF Commits, Versions, LibraryInv, TypeOK
  <2>6. QED BY <1>2, <2>1, <2>2, <2>3, <2>4, <2>5 DEF View!Create, Orders, Peoples
<1>12. QED BY <1>5, <1>10, <1>11 DEF ViewStep, View!Edit

\* A commit that changes nobody's songs, people or favourites.
LEMMA CommitSilent ==
  ASSUME LibraryInv, NEW t \in Txs, NEW os, Commits(t, os), UNCHANGED favorite,
         \A p \in Lists : /\ list'[p].owner = list[p].owner
                          /\ list'[p].members = list[p].members
                          /\ list'[p].at = list[p].at
  PROVE  ViewStep
<1>1. UNCHANGED Orders /\ UNCHANGED Peoples
  BY OrderReads DEF Orders, Peoples, People
<1>2. View!Told({})
  BY CommitTold
<1>3. View!Tell
  BY <1>1, <1>2 DEF View!Tell, View!Told, Orders, Peoples
<1>4. QED BY <1>3 DEF ViewStep, View!Edit

\* Visibility and moderation are not seen here.
LEMMA CommitFlagsView ==
  ASSUME ViewInv, NEW t \in Txs, CommitVisibility(t) \/ CommitModeration(t)
  PROVE  RowsWhole' /\ (\A o \in Txs : TellKept(o)') /\ ViewStep
<1>1. PICK os \in {{"share", "unshare"}, Moderation} : Commits(t, os)
  BY DEF CommitVisibility, CommitModeration
<1>2. PICK p \in Lists : p = tx[t].req.list
  BY <1>1, RowCommit, Operations
<1>3. LibraryInv /\ list[p] \in List /\ Whole(list[p])
  BY <1>1, <1>2, RowCommit, Operations
<1>4. PICK row : /\ list' = [list EXCEPT ![p] = row] /\ row.owner = list[p].owner
                 /\ row.members = list[p].members /\ row.at = list[p].at
  <2>1. CASE CommitVisibility(t)
    <3>1. PICK row : row = [list[p] EXCEPT !.public = (tx[t].req.op = "share")]
      OBVIOUS
    <3>2. list' = [list EXCEPT ![p] = row]
      BY <1>2, <2>1, <3>1 DEF CommitVisibility
    <3>3. /\ row.owner = list[p].owner /\ row.members = list[p].members
          /\ row.at = list[p].at
      BY <1>3, <3>1 DEF List
    <3>4. QED BY <3>2, <3>3
  <2>2. CASE CommitModeration(t)
    <3>1. PICK row : row = [list[p] EXCEPT !.hidden = (tx[t].req.op = "hide")]
      OBVIOUS
    <3>2. list' = [list EXCEPT ![p] = row]
      BY <1>2, <2>2, <3>1 DEF CommitModeration
    <3>3. /\ row.owner = list[p].owner /\ row.members = list[p].members
          /\ row.at = list[p].at
      BY <1>3, <3>1 DEF List
    <3>4. QED BY <3>2, <3>3
  <2>3. QED BY <2>1, <2>2
<1>5. UNCHANGED favorite
  BY DEF CommitVisibility, CommitModeration
<1>6. Whole(row)
  BY <1>3, <1>4 DEF Whole
<1>7. row.members \subseteq list[p].members
  BY <1>4
<1>8. RowsWhole' /\ \A o \in Txs : TellKept(o)'
  BY <1>1, <1>2, <1>4, <1>6, <1>7, CommitTells
<1>9. list'[p] = row /\ \A q \in Lists : q # p => list'[q] = list[q]
  BY <1>3, <1>4, RowSeen
<1>10. ViewStep
  BY <1>1, <1>3, <1>4, <1>5, <1>9, CommitSilent
<1>11. QED BY <1>8, <1>10

\* The other commits write no playlist.
LEMMA CommitElsewhereView ==
  ASSUME ViewInv, NEW t \in Txs,
         \/ CommitReport(t) \/ CommitDisposal(t) \/ CommitDisconnection(t)
         \/ CommitFavorite(t)
  PROVE  RowsWhole' /\ (\A o \in Txs : TellKept(o)') /\ ViewStep
<1>1. list' = list /\ \E os : Commits(t, os)
  BY DEF CommitReport, CommitDisposal, CommitDisconnection, CommitFavorite
<1>2. RowsWhole'
  BY <1>1 DEF ViewInv, RowsWhole
<1>3. \A o \in Txs : TellKept(o)'
  BY <1>1, SameSteady, EndedTells DEF Commits
<1>4. LibraryInv
  BY DEF ViewInv
<1>5. CASE CommitReport(t) \/ CommitDisposal(t) \/ CommitDisconnection(t)
  <2>1. UNCHANGED favorite
    BY <1>5 DEF CommitReport, CommitDisposal, CommitDisconnection
  <2>2. ViewStep
    BY <1>1, <1>4, <2>1, CommitSilent
  <2>3. QED BY <1>2, <1>3, <2>2
<1>6. CASE CommitFavorite(t)
  <2>1. PICK r \in Request \cup {NoRequest} : r = tx[t].req
    BY <1>4 DEF LibraryInv, TypeOK, Tx
  <2>2. PICK ss : ss = IF r.op = "favorite" THEN favorite[r.user] \cup {r.arg}
                       ELSE favorite[r.user] \ {r.arg}
    OBVIOUS
  <2>3. /\ Commits(t, {"favorite", "unfavorite"})
        /\ favorite' = [favorite EXCEPT ![r.user] = ss]
    BY <1>6, <2>1, <2>2 DEF CommitFavorite
  <2>4. /\ r.op \in {"favorite", "unfavorite"} /\ tx[t].pc = "writing"
        /\ tx[t].todo = {}
    BY <2>1, <2>3 DEF Commits, Writing
  <2>5. r.user \in Users /\ r.arg \in Songs
    BY <2>4, RequestParts
  <2>6. ss \in SUBSET Songs
    BY <1>4, <2>2, <2>5 DEF LibraryInv, TypeOK
  <2>7. r.user \in tx[t].done
    <3>1. Tells(tx[t], list[r.list])
      BY <2>1 DEF ViewInv, TellKept
    <3>2. QED BY <2>1, <2>4, <3>1 DEF Tells
  <2>8. View!Told({r.user})
    BY <1>4, <2>3, <2>5, <2>7, CommitTold
  <2>9. UNCHANGED Orders /\ UNCHANGED Peoples
    BY <1>1, OrderReads DEF Orders, Peoples, People
  <2>10. View!Favour(r.user, ss)
    BY <2>3, <2>8, <2>9 DEF View!Favour, Orders, Peoples
  <2>11. QED BY <1>2, <1>3, <2>5, <2>6, <2>10 DEF ViewStep, View!Edit
<1>7. QED BY <1>5, <1>6

-----------------------------------------------------------------------------
(***************************************************************************)
(* Accounts, and all steps                                                 *)
(***************************************************************************)
\* deleteUserAccount takes the playlists it owns with it, and nobody who edits one
\* of them or is telling its owner is under way.
LEMMA DeleteUserAccountView ==
  ASSUME ViewInv, NEW u \in Users, DeleteUserAccount(u)
  PROVE  RowsWhole' /\ (\A o \in Txs : TellKept(o)') /\ ViewStep
<1>1. LibraryInv /\ list \in [Lists -> List] /\ tx \in [Txs -> Tx] /\ tx' = tx
  BY DEF ViewInv, LibraryInv, TypeOK, DeleteUserAccount
<1>2. list' = [p \in Lists |-> IF p \in Owned(u) THEN NoList
                               ELSE [list[p] EXCEPT !.members = @ \ {u}]]
  BY DEF DeleteUserAccount
<1>3. ASSUME NEW p \in Lists
      PROVE  /\ p \in Owned(u) => list'[p] = NoList
             /\ p \notin Owned(u) =>
                  /\ list'[p].owner = list[p].owner /\ list'[p].owner # u
                  /\ list'[p].members = list[p].members \ {u}
                  /\ list'[p].at = list[p].at
  <2>1. CASE p \in Owned(u)
    BY <1>2, <2>1
  <2>2. CASE p \notin Owned(u)
    <3>1. list'[p] = [list[p] EXCEPT !.members = @ \ {u}] /\ list[p] \in List
      BY <1>1, <1>2, <2>2
    <3>2. QED BY <2>2, <3>1 DEF List, Owned
  <2>3. QED BY <2>1, <2>2
<1>4. ASSUME NEW p \in Lists
      PROVE  Whole(list'[p])
  <2>1. CASE p \in Owned(u)
    BY <1>3, <2>1, NothingSeen
  <2>2. CASE p \notin Owned(u)
    <3>1. Whole(list[p])
      BY DEF ViewInv, RowsWhole
    <3>2. QED BY <1>3, <2>2, <3>1 DEF Whole
  <2>3. QED BY <2>1, <2>2
<1>5. ASSUME NEW o \in Txs
      PROVE  TellKept(o)'
  <2>1. PICK r \in Request \cup {NoRequest} : r = tx[o].req
    BY <1>1 DEF Tx
  <2>2. ~Uses(o, u)
    BY DEF DeleteUserAccount
  <2>3. Steady(tx[o], list[r.list], list'[r.list])
    <3>1. SUFFICES ASSUME tx[o].pc = "writing", r.op \in ListEdits
                   PROVE  Steady(tx[o], list[r.list], list'[r.list])
      BY <2>1 DEF Steady
    <3>2. r.list \in Lists
      BY <3>1, RequestParts DEF ListEdits
    <3>3. r.list \notin Owned(u)
      BY <2>1, <2>2, <3>1, <3>2, NoneAssumption DEF Uses, Owned
    <3>4. QED BY <1>3, <3>2, <3>3 DEF Steady
  <2>4. Tells(tx[o], list[r.list])
    BY <2>1 DEF ViewInv, TellKept
  <2>5. Tells(tx[o], list'[r.list])
    BY <2>3, <2>4, SteadyTells
  <2>6. QED BY <1>1, <2>1, <2>5 DEF TellKept
<1>6. View!Close(u)
  <2> DEFINE gone == Owned(u)
  <2>1. ASSUME NEW p \in Lists
        PROVE  /\ Orders'[p] = IF p \in gone THEN << >> ELSE Orders[p]
               /\ Peoples'[p] = IF p \in gone THEN {} ELSE Peoples[p] \ {u}
    <3>1. /\ Orders'[p] = OrderAt(list'[p].at) /\ Orders[p] = OrderAt(list[p].at)
          /\ Peoples'[p] = ({list'[p].owner} \cup list'[p].members) \ {None}
          /\ Peoples[p] = ({list[p].owner} \cup list[p].members) \ {None}
      BY OrderReads DEF Orders, Peoples, People
    <3>2. CASE p \in gone
      BY <1>3, <3>1, <3>2, NothingSeen
    <3>3. CASE p \notin gone
      BY <1>3, <3>1, <3>3
    <3>4. QED BY <3>2, <3>3
  <2>2. gone \in SUBSET {p \in Lists : u \in Peoples[p]}
    BY NoneAssumption DEF Owned, Peoples, People
  <2> HIDE DEF gone
  <2>3. /\ Orders' = [p \in Lists |-> IF p \in gone THEN << >> ELSE Orders[p]]
        /\ Peoples' = [p \in Lists |-> IF p \in gone THEN {} ELSE Peoples[p] \ {u}]
    <3>1. /\ Orders' = [p \in Lists |-> Orders'[p]]
          /\ Peoples' = [p \in Lists |-> Peoples'[p]]
      BY DEF Orders, Peoples
    <3>2. QED BY <2>1, <3>1
  <2>4. favorite' = [favorite EXCEPT ![u] = {}] /\ version' = [version EXCEPT ![u] = 0]
    BY DEF DeleteUserAccount
  <2>5. QED BY <2>2, <2>3, <2>4 DEF View!Close, Orders, Peoples
<1>7. QED BY <1>4, <1>5, <1>6 DEF RowsWhole, ViewStep, View!Edit

\* The playlists there may be at the start are whole, and nobody is writing.
LEMMA InitView == Init => ViewInv /\ View!Init
<1> SUFFICES ASSUME Init
             PROVE  ViewInv /\ View!Init
  OBVIOUS
<1>1. LibraryInv
  BY InitKeeps
<1>2. RowsWhole
  BY PopulationAssumption DEF Init, RowsWhole
<1>3. \A t \in Txs : TellKept(t)
  BY NoTxTells DEF Init, TellKept
<1>4. ASSUME NEW p \in Lists
      PROVE  Orders[p] \in Seq(Songs) /\ Peoples[p] \in SUBSET Users
  <2>1. list[p] \in List /\ Whole(list[p])
    BY <1>1, <1>2 DEF LibraryInv, TypeOK, RowsWhole
  <2> DEFINE at == list[p].at
  <2>2. at \in Positions /\ Unique(at)
    BY <2>1 DEF List, Whole, Unique
  <2>3. /\ OrderAt(at) \in [1..Cardinality(Placed(at)) -> Placed(at)]
        /\ Cardinality(Placed(at)) \in Nat /\ Placed(at) \in SUBSET Songs
    BY <2>2, OrderClimbs, PlacedParts DEF Climbs
  <2>4. OrderAt(at) \in Seq(Songs)
    BY <2>3
  <2>5. QED BY <2>1, <2>4, OrderReads DEF Orders, Peoples, People, List
<1>5. View!Init
  BY <1>4 DEF View!Init, Init, Orders, Peoples
<1>6. QED BY <1>1, <1>2, <1>3, <1>5 DEF ViewInv

\* Every step keeps the invariant and is a step of the abstract playlists, or
\* leaves them alone.
LEMMA NextView ==
  ASSUME ViewInv, [Next]_vars
  PROVE  ViewInv' /\ ViewStep
<1>1. LibraryInv'
  BY NextKeeps DEF ViewInv
<1> DEFINE Goal == RowsWhole' /\ (\A o \in Txs : TellKept(o)') /\ ViewStep
<1>2. ASSUME NEW t \in Txs, Commit(t)
      PROVE  Goal
  BY <1>2, CommitPositionsView, CommitRemovalView, CommitJoinView, CommitQuitView,
     CommitDeletionView, CommitCreationView, CommitFlagsView, CommitElsewhereView
  DEF Commit
<1>3. ASSUME UNCHANGED list
      PROVE  RowsWhole'
  BY <1>3 DEF ViewInv, RowsWhole
<1>4. ASSUME NEW t \in Txs, Begin(t)
      PROVE  Goal
  <2>1. UNCHANGED <<list, favorite, version>>
    BY <1>4 DEF Begin
  <2>2. QED BY <1>3, <1>4, <2>1, BeginTells, ViewSame
<1>5. ASSUME NEW t \in Txs, Decide(t)
      PROVE  Goal
  <2>1. UNCHANGED <<list, favorite, version>>
    BY <1>5, DecideGrants DEF Decides, ViewInv, LibraryInv
  <2>2. QED BY <1>3, <1>5, <2>1, DecideTells, ViewSame
<1>6. ASSUME NEW t \in Txs, Mark(t)
      PROVE  Goal
  <2>1. UNCHANGED <<list, favorite, version>>
    BY <1>6 DEF Mark
  <2>2. QED BY <1>3, <1>6, <2>1, MarkTells, ViewSame
<1>7. ASSUME NEW t \in Txs, End(t)
      PROVE  Goal
  <2>1. UNCHANGED <<list, favorite, version>> /\ tx' = [tx EXCEPT ![t] = NoTx]
    BY <1>7 DEF End
  <2>2. \A o \in Txs : TellKept(o)'
    BY <2>1, SameSteady, EndedTells
  <2>3. QED BY <1>3, <2>1, <2>2, ViewSame
<1>8. ASSUME UNCHANGED <<list, tx, favorite, version>>
      PROVE  Goal
  <2>1. \A o \in Txs : TellKept(o)'
    BY <1>8 DEF ViewInv, TellKept
  <2>2. QED BY <1>3, <1>8, <2>1, ViewSame
<1>9. Goal
  <2>1. ASSUME NEW s \in Songs, SyncSong(s)
        PROVE  UNCHANGED <<list, tx, favorite, version>>
    BY <2>1 DEF SyncSong
  <2>2. ASSUME NEW x \in Reports, CleanReport(x)
        PROVE  UNCHANGED <<list, tx, favorite, version>>
    BY <2>2 DEF CleanReport
  <2>3. ASSUME UNCHANGED vars
        PROVE  UNCHANGED <<list, tx, favorite, version>>
    BY <2>3 DEF vars
  <2> HIDE DEF Goal
  <2>4. QED BY <1>2, <1>4, <1>5, <1>6, <1>7, <1>8, <2>1, <2>2, <2>3,
               DeleteUserAccountView DEF Next, Goal
<1>10. QED BY <1>1, <1>9 DEF ViewInv

\* Every commit of a transaction is one edit of the abstract playlists, with whoever
\* it concerns told in the same step; all other steps are not seen.
THEOREM Implements == Spec => ImplementsView
<1>1. Init => ViewInv /\ View!Init
  BY InitView
<1>2. ViewInv /\ [Next]_vars => ViewInv'
  BY NextView
<1>3. ViewInv /\ [Next]_vars => [View!Next]_View!vars
  <2>1. ASSUME ViewInv, [Next]_vars
        PROVE  [View!Next]_View!vars
    <3>1. ViewStep
      BY <2>1, NextView
    <3>2. CASE View!Edit
      BY <3>2 DEF View!Next
    <3>3. CASE UNCHANGED View!vars
      BY <3>3
    <3>4. QED BY <3>1, <3>2, <3>3 DEF ViewStep
  <2>2. QED BY <2>1
<1>4. QED BY <1>1, <1>2, <1>3, PTL DEF Spec, ImplementsView, View!Spec
=============================================================================
