------------------------------ MODULE MCLibrary ------------------------------
EXTENDS Library, TLC

CONSTANTS u1, u2, u3, p1, p2, s1, s2, s3, s4, r1

Shared(o, ms, at) ==
  [owner |-> o, members |-> ms, at |-> at @@ NoSongs, public |-> TRUE, hidden |-> FALSE]

NoReports == [x \in Reports |-> NoReport]

\* Two users who collaborate in each other's playlist, one of them full of songs
\* and both of collaborators, where removals have left gaps between the positions,
\* with an open report; one playlist with room for both; none.
Start ==
  {[list |-> p1 :> Shared(u1, {u2}, s1 :> 1)
              @@ p2 :> Shared(u2, {u1}, s1 :> 0 @@ s2 :> 2 @@ s3 :> 3),
    report |-> r1 :> [status |-> "OPEN", reporter |-> u2, list |-> p1] @@ NoReports],
   [list |-> p1 :> Shared(u1, {}, s1 :> 0 @@ s2 :> 1) @@ p2 :> NoList,
    report |-> NoReports],
   [list |-> p1 :> NoList @@ p2 :> NoList, report |-> NoReports]}

Symmetry == Permutations(Txs)
=============================================================================
