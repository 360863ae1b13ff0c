------------------------------- MODULE Library -------------------------------
(***************************************************************************)
(* Playlists, favourites and accounts as the concurrent transactions of    *)
(* their repositories, at Read Committed.                                  *)
(*                                                                         *)
(* A transaction is three kinds of steps.  Begin sends its request and the *)
(* first statement, whose snapshot is taken then.  Its own action gets the *)
(* row locks it waits for and reads; from then on it holds them.  Mark     *)
(* invalidates one profile after the other, each under a row lock.  Commit *)
(* writes.  It can end without effect at any point.                        *)
(***************************************************************************)
EXTENDS Naturals, FiniteSets

CONSTANTS
  Users, Lists, Songs, Providers,
  Reports,      \* rows of PlaylistReport
  Txs,          \* server processes that run transactions
  None,         \* SQL NULL
  SongLimit,    \* PLAYLIST_SONG_LIMIT
  MemberLimit,  \* PLAYLIST_COLLABORATOR_LIMIT
  ListLimit,    \* PLAYLIST_LIMIT
  Population,   \* the playlists and reports there may be at the start
  MaxOps,       \* bound: requests
  MaxSyncs      \* bound: songs hidden or restored by the sync

VARIABLES
  list,       \* list[p]: the row of Playlist, with its songs and collaborators
  users,      \* the accounts that exist
  provider,   \* provider[u]: the sign-in providers connected to u
  favorite,   \* favorite[u]: the favourite songs of u
  version,    \* version[u]: libraryVersion of u's discovery profile; 0 without
  visible,    \* the songs in the public catalog
  report,     \* report[r]: a row of PlaylistReport
  tx,         \* tx[t]: what t's transaction has read and locked
  ops,        \* how many requests there have been
  syncs       \* how often the sync has hidden or restored a song

vars == <<list, users, provider, favorite, version, visible, report, tx, ops,
          syncs>>

-----------------------------------------------------------------------------
\* State

\* at[s] is the position of the song s, None if it is not in the playlist.
Positions == [Songs -> {None} \cup Nat]
NoSongs == [s \in Songs |-> None]
Placed(at) == {s \in Songs : at[s] # None}

List == [owner : Users \cup {None}, members : SUBSET Users, at : Positions,
         public : BOOLEAN, hidden : BOOLEAN]
NoList == [owner |-> None, members |-> {}, at |-> NoSongs,
           public |-> FALSE, hidden |-> FALSE]

\* No two songs have one position, nobody collaborates in a playlist of his own,
\* and one that does not exist has neither songs nor collaborators.
Whole(row) ==
  /\ \A s, o \in Placed(row.at) : row.at[s] = row.at[o] => s = o
  /\ row.owner \notin row.members
  /\ row.owner = None => row.members = {} /\ row.at = NoSongs

Report == [status : {"none", "OPEN", "RESOLVED", "DISMISSED"},
           reporter : Users \cup {None}, list : Lists \cup {None}]
NoReport == [status |-> "none", reporter |-> None, list |-> None]

\* What the server actions and the moderation tool ask for.
SongEdits == {"addSong", "removeSong", "moveUp", "moveDown"}
MemberEdits == {"addMember", "removeMember"}
RowEdits == {"delete", "share", "unshare"}
Moderation == {"hide", "restore"}

Request ==
  [op : SongEdits, user : Users, list : Lists, arg : Songs]
  \cup [op : MemberEdits, user : Users, list : Lists, arg : Users]
  \cup [op : RowEdits \cup {"leave", "create", "report"}, user : Users,
        list : Lists, arg : {None}]
  \cup [op : Moderation, user : {None}, list : Lists, arg : {None}]
  \cup [op : {"favorite", "unfavorite"}, user : Users, list : {None}, arg : Songs]
  \cup [op : {"disconnect"}, user : Users, list : {None}, arg : Providers]
  \cup [op : {"resolve", "dismiss"}, user : {None}, list : {None}, arg : Reports]

NoRequest == [op |-> "none", user |-> None, list |-> None, arg |-> None]

\* put is the positions it will write, rows the reports it has locked, todo and
\* done the users whose profile it has yet to invalidate and has invalidated.
Tx == [pc : {"idle", "begun", "writing"}, req : Request \cup {NoRequest},
       put : Positions, rows : SUBSET Reports, todo : SUBSET Users,
       done : SUBSET Users]
NoTx == [pc |-> "idle", req |-> NoRequest, put |-> NoSongs, rows |-> {},
         todo |-> {}, done |-> {}]

ASSUME LimitsAssumption == {SongLimit, MemberLimit, ListLimit, MaxOps, MaxSyncs} \subseteq Nat
ASSUME FiniteAssumption == IsFiniteSet(Users) /\ IsFiniteSet(Lists) /\ IsFiniteSet(Songs)
ASSUME NoneAssumption == None \notin Users \cup Lists \cup Nat
ASSUME PopulationAssumption == \A q \in Population :
  /\ q.list \in [Lists -> List] /\ q.report \in [Reports -> Report]
  /\ \A p \in Lists : Whole(q.list[p])
  /\ \A p \in Lists : /\ Cardinality(Placed(q.list[p].at)) <= SongLimit
                      /\ Cardinality(q.list[p].members) <= MemberLimit
  /\ \A u \in Users : Cardinality({p \in Lists : q.list[p].owner = u}) <= ListLimit
ASSUME ProvidersAssumption == Providers # {}

Init == /\ \E q \in Population : list = q.list /\ report = q.report
        /\ users = Users
        /\ provider = [u \in Users |-> Providers]
        /\ favorite = [u \in Users |-> {}]
        /\ version = [u \in Users |-> 0]
        /\ visible = Songs
        /\ tx = [t \in Txs |-> NoTx]
        /\ ops = 0
        /\ syncs = 0

-----------------------------------------------------------------------------
\* Reading

SongsOf(p) == Placed(list[p].at)
Exists(p) == list[p].owner # None

\* getDiscoveryUsersForPlaylist
People(p) == {list[p].owner} \cup list[p].members

\* Owner, or collaborator in the snapshot of lockPlaylist's statement.
Admits(r) == Exists(r.list) /\ r.user \in People(r.list)

Before(p, s) == {o \in SongsOf(p) : list[p].at[o] < list[p].at[s]}
After(p, s) == {o \in SongsOf(p) : list[p].at[o] > list[p].at[s]}

HasNeighbour(p, s, op) == IF op = "moveUp" THEN Before(p, s) # {} ELSE After(p, s) # {}

\* The highest position is above all others.
Topmost(p) == CHOOSE s \in SongsOf(p) : After(p, s) = {}

\* Mutant: maximum._max.position ?? -1, with nothing added to the -1.
NextPositionOfNone(p) == IF SongsOf(p) = {} THEN 0 - 1 ELSE list[p].at[Topmost(p)] + 1

\* (maximum._max.position ?? -1) + 1
NextPosition(p) == IF SongsOf(p) = {} THEN 0 ELSE list[p].at[Topmost(p)] + 1

\* The nearest song above or below.
Neighbour(p, s, op) ==
  IF op = "moveUp"
  THEN CHOOSE n \in Before(p, s) : \A o \in Before(p, s) : list[p].at[o] <= list[p].at[n]
  ELSE CHOOSE n \in After(p, s) : \A o \in After(p, s) : list[p].at[o] >= list[p].at[n]

\* The positions a request writes, computed from what is committed now.
Put(r) ==
  LET p == r.list
      s == r.arg
      n == Neighbour(p, s, r.op)
  IN  IF r.op = "addSong" THEN [NoSongs EXCEPT ![s] = NextPosition(p)]
      ELSE [NoSongs EXCEPT ![s] = list[p].at[n], ![n] = list[p].at[s]]

-----------------------------------------------------------------------------
\* Row locks, held until the transaction ends

Writing(t, os) == tx[t].pc = "writing" /\ tx[t].req.op \in os

Others(t) == Txs \ {t}

\* Somebody else is writing p with one of these operations.
Taken(t, p, os) == \E o \in Others(t) : Writing(o, os) /\ tx[o].req.list = p

\* The operations of an owner or collaborator that lock the playlist's row.
ListEdits == SongEdits \cup MemberEdits \cup RowEdits

\* Mutant: lockPlaylist reads without FOR UPDATE.
ListNeverTaken(t, p) == FALSE

\* SELECT ... FOR UPDATE waits for all of them, for the moderator's UPDATE and
\* for the foreign key check of a report.
ListTaken(t, p) == Taken(t, p, ListEdits \cup Moderation \cup {"report"})

\* Mutant: the user's row is read without FOR UPDATE.
UserNeverTaken(t, u) == FALSE

\* The user's row, SELECT ... FOR UPDATE in createPlaylist and
\* disconnectAccountProvider.
UserTaken(t, u) ==
  \E o \in Others(t) : Writing(o, {"create", "disconnect"}) /\ tx[o].req.user = u

\* Mutant: the song is read without FOR SHARE.
SongNeverTaken(s) == FALSE

\* Somebody has read the song FOR SHARE.
SongTaken(s) == \E o \in Txs : Writing(o, {"addSong", "favorite"}) /\ tx[o].req.arg = s

\* The row Favorite(user, song).
FavoriteTaken(t, r) ==
  \E o \in Others(t) : /\ Writing(o, {"favorite", "unfavorite"})
                       /\ tx[o].req.user = r.user /\ tx[o].req.arg = r.arg

\* One of the rows PlaylistCollaborator(p, us) is being deleted by its user, who
\* does not lock the playlist.
Leaving(t, p, us) ==
  \E o \in Others(t) : /\ Writing(o, {"leave"})
                       /\ tx[o].req.list = p /\ tx[o].req.user \in us

ReportTaken(t, rs) == \E o \in Others(t) : tx[o].rows \cap rs # {}

ProfileTaken(t, u) == \E o \in Others(t) : u \in tx[o].done

\* t has locked rows of u, or rows whose foreign key is u.
Uses(t, u) ==
  LET r == tx[t].req
  IN  /\ tx[t].pc = "writing"
      /\ \/ u \in tx[t].done
         \/ /\ r.user = u
            /\ r.op \in {"create", "disconnect", "favorite", "unfavorite", "leave", "report"}
         \/ r.op \in MemberEdits /\ r.arg = u
         \/ r.list # None /\ list[r.list].owner = u

-----------------------------------------------------------------------------
\* Transactions

\* The snapshot of the first statement admits the request.
Starts(r) ==
  /\ r.user \in users \cup {None}
  /\ r.op \in ListEdits => Admits(r)
  /\ r.op \in Moderation => Exists(r.list)
  /\ r.op = "report" => /\ list[r.list].public /\ ~list[r.list].hidden
                        /\ \A x \in Reports : report[x] # [status |-> "OPEN",
                             reporter |-> r.user, list |-> r.list]
  /\ r.op \in {"resolve", "dismiss"} => report[r.arg].status = "OPEN"

Begin(t) ==
  /\ tx[t].pc = "idle"
  /\ ops < MaxOps
  /\ ops' = ops + 1
  /\ \E r \in Request :
       /\ Starts(r)
       /\ tx' = [tx EXCEPT ![t] = [NoTx EXCEPT !.pc = "begun", !.req = r]]
  /\ UNCHANGED <<list, users, provider, favorite, version, visible, report, syncs>>

Begun(t, os) == tx[t].pc = "begun" /\ tx[t].req.op \in os

\* lockPlaylist returns the row.
Locks(t, os) == /\ Begun(t, os)
                /\ ~ListTaken(t, tx[t].req.list)
                /\ Exists(tx[t].req.list)

Owns(t) == list[tx[t].req.list].owner = tx[t].req.user

\* It has the locks it needs and has decided what it writes.
Decides(t, put, rows, us) ==
  /\ tx' = [tx EXCEPT ![t] = [@ EXCEPT !.pc = "writing", !.put = put,
                                       !.rows = rows, !.todo = us]]
  /\ UNCHANGED <<list, users, provider, favorite, version, visible, report, ops, syncs>>

AddPlaylistSong(t) ==
  LET r == tx[t].req
  IN  /\ Locks(t, {"addSong"})
      /\ r.arg \in visible \ SongsOf(r.list)
      /\ Cardinality(SongsOf(r.list)) < SongLimit
      /\ Decides(t, Put(r), {}, People(r.list))

RemovePlaylistSong(t) ==
  LET r == tx[t].req
  IN  /\ Locks(t, {"removeSong"})
      /\ r.arg \in SongsOf(r.list)
      /\ Decides(t, NoSongs, {}, People(r.list))

MovePlaylistSong(t) ==
  LET r == tx[t].req
  IN  /\ Locks(t, {"moveUp", "moveDown"})
      /\ r.arg \in SongsOf(r.list)
      /\ HasNeighbour(r.list, r.arg, r.op)
      /\ Decides(t, Put(r), {}, {})

AddPlaylistCollaborator(t) ==
  LET r == tx[t].req
  IN  /\ Locks(t, {"addMember"})
      /\ Owns(t)
      /\ r.arg \in users \ People(r.list)
      /\ Cardinality(list[r.list].members) < MemberLimit
      /\ Decides(t, NoSongs, {}, {r.user, r.arg})

RemovePlaylistCollaborator(t) ==
  LET r == tx[t].req
  IN  /\ Locks(t, {"removeMember"})
      /\ Owns(t)
      /\ r.arg \in list[r.list].members
      /\ ~Leaving(t, r.list, {r.arg})
      /\ Decides(t, NoSongs, {}, {r.user, r.arg})

\* leavePlaylist deletes its row without locking the playlist.
LeavePlaylist(t) ==
  LET r == tx[t].req
  IN  /\ Begun(t, {"leave"})
      /\ r.user \in list[r.list].members
      /\ ~Taken(t, r.list, {"delete"})
      /\ \A o \in Others(t) : ~(/\ Writing(o, {"removeMember", "leave"})
                                /\ tx[o].req.list = r.list
                                /\ r.user \in {tx[o].req.user, tx[o].req.arg})
      /\ Decides(t, NoSongs, {}, {r.user})

ReportsOf(p) == {x \in Reports : report[x].list = p}

\* The rows that refer to the playlist are deleted or set to NULL with it.
DeletePlaylist(t) ==
  LET r == tx[t].req
  IN  /\ Locks(t, {"delete"})
      /\ Owns(t)
      /\ ~Leaving(t, r.list, list[r.list].members)
      /\ ~ReportTaken(t, ReportsOf(r.list))
      /\ Decides(t, NoSongs, ReportsOf(r.list), People(r.list))

SetPlaylistVisibility(t) ==
  /\ Locks(t, {"share", "unshare"})
  /\ Owns(t)
  /\ Decides(t, NoSongs, {}, {})

OpenReportsOf(p) == {x \in ReportsOf(p) : report[x].status = "OPEN"}

\* The moderator's UPDATE waits for the playlist's row, not for a report.
SetPlaylistModerationStatus(t) ==
  LET p == tx[t].req.list
  IN  /\ Begun(t, Moderation)
      /\ Exists(p)
      /\ ~Taken(t, p, ListEdits \cup Moderation)
      /\ ~ReportTaken(t, OpenReportsOf(p))
      /\ Decides(t, NoSongs, OpenReportsOf(p), {})

\* The report is inserted: the foreign key check waits for FOR UPDATE, the
\* unique index of open reports for another insert.
CreatePlaylistReport(t) ==
  LET r == tx[t].req
  IN  /\ Begun(t, {"report"})
      /\ Exists(r.list) /\ r.user \in users
      /\ ~Taken(t, r.list, ListEdits)
      /\ \A o \in Others(t) : ~(Writing(o, {"report"}) /\ tx[o].req = r)
      /\ \A x \in OpenReportsOf(r.list) : report[x].reporter # r.user
      /\ \E x \in Reports : /\ report[x] = NoReport
                            /\ ~ReportTaken(t, {x})
                            /\ Decides(t, NoSongs, {x}, {})

\* Mutant: a report that was OPEN when it was read is updated whatever it is.
DisposeUnconditionally(t) ==
  LET x == tx[t].req.arg
  IN  /\ Begun(t, {"resolve", "dismiss"})
      /\ report[x].status # "none"
      /\ ~ReportTaken(t, {x})
      /\ Decides(t, NoSongs, {x}, {})

\* The conditional update of a report that was OPEN when it was read.
DisposePlaylistReport(t) ==
  LET x == tx[t].req.arg
  IN  /\ Begun(t, {"resolve", "dismiss"})
      /\ report[x].status = "OPEN"
      /\ ~ReportTaken(t, {x})
      /\ Decides(t, NoSongs, {x}, {})

SetFavorite(t) ==
  LET r == tx[t].req
  IN  /\ Begun(t, {"favorite", "unfavorite"})
      /\ IF r.op = "favorite" THEN r.arg \in visible /\ r.user \in users
                              ELSE r.arg \in favorite[r.user]
      /\ ~FavoriteTaken(t, r)
      /\ Decides(t, NoSongs, {}, {r.user})

Owned(u) == {p \in Lists : list[p].owner = u}

\* The new row's id is one that nobody has used.
CreatePlaylist(t) ==
  LET r == tx[t].req
  IN  /\ Begun(t, {"create"})
      /\ ~UserTaken(t, r.user)
      /\ r.user \in users
      /\ Cardinality(Owned(r.user)) < ListLimit
      /\ ~Exists(r.list)
      /\ \A o \in Others(t) :
           tx[o].pc = "idle" \/ tx[o].req.list # r.list \/ Begun(o, {"create"})
      /\ Decides(t, NoSongs, {}, {})

DisconnectAccountProvider(t) ==
  LET r == tx[t].req
  IN  /\ Begun(t, {"disconnect"})
      /\ ~UserTaken(t, r.user)
      /\ r.arg \in provider[r.user]
      /\ Cardinality(provider[r.user]) > 1
      /\ Decides(t, NoSongs, {}, {})

\* The owner first, then the collaborators in the order the query returns them.
Upcoming(t) ==
  LET p == tx[t].req.list
      owner == IF p = None THEN {} ELSE {list[p].owner}
  IN  IF tx[t].todo \cap owner # {} THEN owner ELSE tx[t].todo

\* invalidateDiscoveryProfile: the upsert locks the row.  The foreign key of a
\* new row refuses a user that is gone.
Mark(t) ==
  /\ tx[t].pc = "writing"
  /\ \E u \in Upcoming(t) :
       /\ ~ProfileTaken(t, u)
       /\ u \in users
       /\ tx' = [tx EXCEPT ![t] =
                   [tx[t] EXCEPT !.todo = @ \ {u}, !.done = @ \cup {u}]]
  /\ UNCHANGED <<list, users, provider, favorite, version, visible, report, ops, syncs>>

\* The request is refused or has nothing to do; or it times out, is the victim
\* of a deadlock or loses its connection, and is rolled back.
End(t) ==
  /\ tx[t].pc # "idle"
  /\ tx' = [tx EXCEPT ![t] = NoTx]
  /\ UNCHANGED <<list, users, provider, favorite, version, visible, report, ops, syncs>>

-----------------------------------------------------------------------------
\* Commits

\* Mutant: the versions of the invalidated profiles are set, not incremented.
VersionsSet(t) == [u \in Users |-> IF u \in tx[t].done THEN 1 ELSE version[u]]

Versions(t) == [u \in Users |-> IF u \in tx[t].done THEN version[u] + 1 ELSE version[u]]

Commits(t, os) ==
  /\ Writing(t, os)
  /\ tx[t].todo = {}
  /\ version' = Versions(t)
  /\ tx' = [tx EXCEPT ![t] = NoTx]
  /\ UNCHANGED <<users, visible, ops, syncs>>

\* The positions of p after those in put are written.
Overlay(p, put) ==
  [s \in Songs |-> IF put[s] = None THEN list[p].at[s] ELSE put[s]]

\* addPlaylistSong and movePlaylistSong, under @@unique([playlistId, position]).
CommitPositions(t) ==
  LET p == tx[t].req.list
      at == Overlay(p, tx[t].put)
  IN  /\ Commits(t, {"addSong", "moveUp", "moveDown"})
      /\ \A s, o \in Placed(at) : at[s] = at[o] => s = o
      /\ list' = [list EXCEPT ![p].at = at]
      /\ UNCHANGED <<provider, favorite, report>>

CommitRemoval(t) ==
  LET p == tx[t].req.list
  IN  /\ Commits(t, {"removeSong"})
      /\ list' = [list EXCEPT ![p].at[tx[t].req.arg] = None]
      /\ UNCHANGED <<provider, favorite, report>>

CommitJoin(t) ==
  /\ Commits(t, {"addMember"})
  /\ list' = [list EXCEPT ![tx[t].req.list].members = @ \cup {tx[t].req.arg}]
  /\ UNCHANGED <<provider, favorite, report>>

\* removePlaylistCollaborator and leavePlaylist.
CommitQuit(t) ==
  LET r == tx[t].req
  IN  /\ Commits(t, {"removeMember", "leave"})
      /\ list' = [list EXCEPT ![r.list].members =
                    @ \ {IF r.op = "leave" THEN r.user ELSE r.arg}]
      /\ UNCHANGED <<provider, favorite, report>>

CommitDeletion(t) ==
  LET p == tx[t].req.list
  IN  /\ Commits(t, {"delete"})
      /\ list' = [list EXCEPT ![p] = NoList]
      /\ report' = [x \in Reports |-> IF report[x].list = p
                                      THEN [report[x] EXCEPT !.list = None]
                                      ELSE report[x]]
      /\ UNCHANGED <<provider, favorite>>

CommitVisibility(t) ==
  /\ Commits(t, {"share", "unshare"})
  /\ list' = [list EXCEPT ![tx[t].req.list].public = (tx[t].req.op = "share")]
  /\ UNCHANGED <<provider, favorite, report>>

CommitModeration(t) ==
  LET hides == tx[t].req.op = "hide"
  IN  /\ Commits(t, Moderation)
      /\ list' = [list EXCEPT ![tx[t].req.list].hidden = hides]
      /\ report' = [x \in Reports |->
           IF x \in tx[t].rows
           THEN [report[x] EXCEPT !.status = IF hides THEN "RESOLVED" ELSE "DISMISSED"]
           ELSE report[x]]
      /\ UNCHANGED <<provider, favorite>>

CommitReport(t) ==
  /\ Commits(t, {"report"})
  /\ report' = [x \in Reports |->
       IF x \in tx[t].rows
       THEN [status |-> "OPEN", reporter |-> tx[t].req.user, list |-> tx[t].req.list]
       ELSE report[x]]
  /\ UNCHANGED <<list, provider, favorite>>

CommitDisposal(t) ==
  /\ Commits(t, {"resolve", "dismiss"})
  /\ report' = [report EXCEPT ![tx[t].req.arg].status =
       IF tx[t].req.op = "resolve" THEN "RESOLVED" ELSE "DISMISSED"]
  /\ UNCHANGED <<list, provider, favorite>>

CommitFavorite(t) ==
  LET r == tx[t].req
  IN  /\ Commits(t, {"favorite", "unfavorite"})
      /\ favorite' = [favorite EXCEPT ![r.user] =
           IF r.op = "favorite" THEN @ \cup {r.arg} ELSE @ \ {r.arg}]
      /\ UNCHANGED <<list, provider, report>>

CommitCreation(t) ==
  LET r == tx[t].req
  IN  /\ Commits(t, {"create"})
      /\ list' = [list EXCEPT ![r.list] = [NoList EXCEPT !.owner = r.user]]
      /\ UNCHANGED <<provider, favorite, report>>

CommitDisconnection(t) ==
  LET r == tx[t].req
  IN  /\ Commits(t, {"disconnect"})
      /\ provider' = [provider EXCEPT ![r.user] = @ \ {r.arg}]
      /\ UNCHANGED <<list, favorite, report>>

-----------------------------------------------------------------------------
\* Single statements

\* deleteUserAccount: the foreign keys delete or detach what refers to u, once
\* nobody holds a row of it.
DeleteUserAccount(u) ==
  LET detached == {x \in Reports : \/ report[x].reporter = u
                                   \/ report[x].list \in Owned(u)}
  IN  /\ u \in users
      /\ ops < MaxOps
      /\ ops' = ops + 1
      /\ \A t \in Txs : ~Uses(t, u) /\ tx[t].rows \cap detached = {}
      /\ users' = users \ {u}
      /\ list' = [p \in Lists |-> IF p \in Owned(u) THEN NoList
                                  ELSE [list[p] EXCEPT !.members = @ \ {u}]]
      /\ provider' = [provider EXCEPT ![u] = {}]
      /\ favorite' = [favorite EXCEPT ![u] = {}]
      /\ version' = [version EXCEPT ![u] = 0]
      /\ report' = [x \in Reports |->
           [report[x] EXCEPT !.reporter = IF @ = u THEN None ELSE @,
                             !.list = IF @ \in Owned(u) THEN None ELSE @]]
      /\ UNCHANGED <<visible, tx, syncs>>

\* The song sync hides or restores a song; its UPDATE waits for FOR SHARE.
SyncSong(s) ==
  /\ ~SongTaken(s)
  /\ syncs < MaxSyncs
  /\ syncs' = syncs + 1
  /\ visible' = IF s \in visible THEN visible \ {s} ELSE visible \cup {s}
  /\ UNCHANGED <<list, users, provider, favorite, version, report, tx, ops>>

\* The cleanup of settled reports.
CleanReport(x) ==
  /\ report[x].status \in {"RESOLVED", "DISMISSED"}
  /\ \A t \in Txs : x \notin tx[t].rows
  /\ report' = [report EXCEPT ![x] = NoReport]
  /\ UNCHANGED <<list, users, provider, favorite, version, visible, tx, ops, syncs>>

-----------------------------------------------------------------------------
\* Specification

Decide(t) ==
  \/ AddPlaylistSong(t) \/ RemovePlaylistSong(t) \/ MovePlaylistSong(t)
  \/ AddPlaylistCollaborator(t) \/ RemovePlaylistCollaborator(t) \/ LeavePlaylist(t)
  \/ DeletePlaylist(t) \/ SetPlaylistVisibility(t) \/ CreatePlaylist(t)
  \/ SetPlaylistModerationStatus(t) \/ CreatePlaylistReport(t)
  \/ DisposePlaylistReport(t) \/ SetFavorite(t) \/ DisconnectAccountProvider(t)

Commit(t) ==
  \/ CommitPositions(t) \/ CommitRemoval(t) \/ CommitJoin(t) \/ CommitQuit(t)
  \/ CommitDeletion(t) \/ CommitVisibility(t) \/ CommitModeration(t)
  \/ CommitReport(t) \/ CommitDisposal(t) \/ CommitFavorite(t)
  \/ CommitCreation(t) \/ CommitDisconnection(t)

Next ==
  \/ \E t \in Txs : Begin(t) \/ Decide(t) \/ Mark(t) \/ Commit(t) \/ End(t)
  \/ \E u \in Users : DeleteUserAccount(u)
  \/ \E s \in Songs : SyncSong(s)
  \/ \E x \in Reports : CleanReport(x)

Spec == Init /\ [][Next]_vars

-----------------------------------------------------------------------------
\* Properties

\* The variables keep their types.
TypeOK ==
  /\ list \in [Lists -> List]
  /\ users \subseteq Users
  /\ provider \in [Users -> SUBSET Providers]
  /\ favorite \in [Users -> SUBSET Songs]
  /\ version \in [Users -> Nat]
  /\ visible \subseteq Songs
  /\ report \in [Reports -> Report]
  /\ tx \in [Txs -> Tx]
  /\ ops \in Nat /\ syncs \in Nat

\* What an edit of the songs has read of its playlist is still true when it
\* writes: the positions it computed from the committed rows are those it would
\* compute now (lockPlaylist, before maximum, neighbour and position are read).
EditsSerialize ==
  \A t \in Txs : LET r == tx[t].req IN
    /\ Writing(t, {"addSong"}) => tx[t].put = Put(r)
    /\ Writing(t, {"moveUp", "moveDown"}) =>
         r.arg \in SongsOf(r.list) /\ HasNeighbour(r.list, r.arg, r.op) /\ tx[t].put = Put(r)
    /\ Writing(t, {"removeSong"}) => r.arg \in SongsOf(r.list)

\* No playlist, membership or account outgrows its limit although the count and
\* the insert are two statements (lockPlaylist and the lock on the user's row).
LimitsKept ==
  /\ \A p \in Lists : /\ Cardinality(SongsOf(p)) <= SongLimit
                      /\ Cardinality(list[p].members) <= MemberLimit
  /\ \A u \in Users : Cardinality(Owned(u)) <= ListLimit

\* Whoever has an account can sign in: two providers disconnected at the same
\* time do not both find the other one still there.
ProviderKept == \A u \in users : provider[u] # {}

\* Only songs that are public at that moment become entries or favourites: the
\* sync cannot hide one between the check and the insert.
OnlyPublicAdded ==
  [][/\ \A p \in Lists : Placed(list'[p].at) \ SongsOf(p) \subseteq visible
     /\ \A u \in Users : favorite'[u] \ favorite[u] \subseteq visible]_vars

\* A settled report keeps its outcome, whatever operators and moderators do at
\* the same time; it can only be cleaned up.
SettledReportsFrozen ==
  [][\A x \in Reports : report[x].status \in {"RESOLVED", "DISMISSED"} =>
       report'[x].status \in {report[x].status, "none"}]_vars

\* The songs of p in the order of their positions, as getPlaylist returns them.
Order(p) == [i \in 1..Cardinality(SongsOf(p)) |->
               CHOOSE s \in SongsOf(p) : Cardinality(Before(p, s)) = i - 1]

View == INSTANCE LibraryView
          WITH order <- [p \in Lists |-> Order(p)],
               people <- [p \in Lists |-> People(p) \ {None}]

\* Every commit is one edit of the abstract playlists: songs keep their order,
\* an edit is never lost or half done, and whoever's songs it changes is told in
\* the same step (the transactions of playlists and favourites with their
\* invalidations, which Discovery takes as one step).
ImplementsView == View!Spec

=============================================================================
