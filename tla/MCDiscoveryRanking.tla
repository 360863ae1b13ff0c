-------------------------- MODULE MCDiscoveryRanking --------------------------
\* Instances of DiscoveryRanking for TLC: the rows that songs have.
EXTENDS DiscoveryRanking

Some(favoritedTimes, tags, artists) ==
  [stored |-> TRUE, visible |-> TRUE, favoritedTimes |-> favoritedTimes,
   ratingScore |-> 5, tags |-> tags, artists |-> artists]

Hidden(row) == [row EXCEPT !.visible = FALSE]

Unstored == [stored |-> FALSE, visible |-> FALSE, favoritedTimes |-> 0,
             ratingScore |-> 0, tags |-> {}, artists |-> {}]

\* Rows that share tags, artists, both or nothing; 80 outweighs an artist and
\* not a tag, and one row exceeds both caps.
Varied == {Some(0, {1}, {}), Some(0, {2}, {9}), Some(80, {}, {9}), Hidden(Some(0, {1}, {9})),
           [Some(2000, {1, 2}, {}) EXCEPT !.ratingScore = 200]}

\* Songs at first, and what is written: rows that differ in few fields each, also
\* beyond the caps.
Few == {Unstored, Some(0, {1}, {9}), Some(1500, {1}, {})}
Written == {Some(0, {1}, {}), Some(0, {1}, {9}), Some(80, {1}, {9}), Some(1500, {1}, {}),
            Some(2000, {1}, {}), Some(0, {}, {}), Hidden(Some(0, {1}, {9}))}
=============================================================================
