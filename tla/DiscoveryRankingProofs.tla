------------------------ MODULE DiscoveryRankingProofs ------------------------
(***************************************************************************)
(* Theorems about DiscoveryRanking, for all songs, libraries, pages and    *)
(* bounds: the query in use and its two candidate shapes have the same     *)
(* answers, its pages partition its ranking, V2 ranks a part of it, and a  *)
(* FRESH list answers what the live query would.                           *)
(***************************************************************************)
EXTENDS DiscoveryRanking, Ranks, FiniteSetTheorems, SequenceTheorems, TLAPS

\* The ranked songs and the songs of the count query are the same.
LEMMA SameSongs == Candidates = Counted
<1>1. ASSUME NEW s
      PROVE  /\ SharedTags(s) # {} <=> \E seed \in Seeds : song[s].tags \cap song[seed].tags # {}
             /\ SharedArtists(s) # {} <=>
                  \E seed \in Seeds : song[s].artists \cap song[seed].artists # {}
  BY DEF SharedTags, SharedArtists, SeedTags, SeedArtists
<1>2. QED
  BY <1>1 DEF Candidates, Counted

\* There are finitely many candidates.
LEMMA CandidatesFinite == Cardinality(Candidates) \in Nat
<1>1. IsFiniteSet(Candidates)
  BY RankingAssumption, FS_Subset DEF Candidates, VisibleSongs
<1>2. QED
  BY <1>1, FS_CardinalityType

\* A first page is empty only if nothing is ranked.
LEMMA FirstPageEmpty ==
  ASSUME NEW size \in PageSizes, Slice(Ranking, 1, size) = << >>
  PROVE  Cardinality(Candidates) = 0
<1> DEFINE n == Cardinality(Candidates)
           ranked == {Ranking[i] : i \in 1..n}
<1>1. n \in Nat /\ size \in Nat \ {0}
  BY CandidatesFinite, RankingAssumption
<1>2. Ranking \in [1..n -> ranked]
  BY DEF Ranking, Ranked, Ordered
<1>3. Ranking \in Seq(ranked) /\ Len(Ranking) = n
  BY <1>1, <1>2
<1>4. ASSUME n # 0 PROVE FALSE
  <2>1. Lesser(size, n) \in 1..n
    BY <1>1, <1>4 DEF Lesser
  <2>2. Slice(Ranking, 1, size) = SubSeq(Ranking, 1, Lesser(size, n))
    <3>1. (1 - 1) * size + 1 = 1 /\ 1 * size = size
      BY <1>1
    <3>2. QED
      BY <1>3, <3>1 DEF Slice
  <2>3. Len(SubSeq(Ranking, 1, Lesser(size, n))) = Lesser(size, n)
    <3> HIDE DEF n, ranked
    <3>1. QED
      BY <1>1, <1>3, <2>1
  <2>4. QED
    BY <2>1, <2>2, <2>3
<1>5. QED
  BY <1>4

\* The three queries agree on every page of one moment.
LEMMA SameResults ==
  ASSUME NEW size \in PageSizes, NEW page \in Pages(size)
  PROVE  /\ Personalized(page, size) = PersonalizedCombined(page, size)
         /\ Personalized(page, size) = PersonalizedSplitCount(page, size)
<1>1. Cardinality(Candidates) = Cardinality(Counted)
  BY SameSongs
<1>2. ASSUME Slice(Ranking, page, size) = << >>, page = 1
      PROVE  Cardinality(Candidates) = 0
  BY <1>2, FirstPageEmpty
<1>3. QED
  BY <1>1, <1>2 DEF Personalized, PersonalizedCombined, PersonalizedSplitCount

\* Whatever songs, library and page: the two candidate shapes answer what the
\* query in use answers (the comment of shape-query.ts).
THEOREM ShapesAlwaysAgree == Spec => []ShapesAgree
<1>1. ShapesAgree
  BY SameResults DEF ShapesAgree, Live
<1>2. QED
  BY <1>1, PTL

-----------------------------------------------------------------------------
\* What a list should hold

\* A list or build of these versions has to hold what is wanted.
Current(versions) == UpToDate(versions) /\ ~catalogChanged

\* No version is ahead of what it counts.
Dated(versions) == /\ versions.libraryVersion \in 0..profile.libraryVersion
                   /\ versions.catalogVersion \in 0..catalogVersion

\* The versions count up, and no list or build is ahead of them.
Counters == /\ catalogVersion \in Nat
            /\ profile \in [libraryVersion : Nat, required : Nat]
            /\ profile.required <= catalogVersion
            /\ Dated(list) /\ Dated(build)
            /\ build = [pc |-> build.pc, items |-> build.items,
                        libraryVersion |-> build.libraryVersion,
                        catalogVersion |-> build.catalogVersion]

FreshBuild == build.pc = "publishing" /\ Current(build) => build.items = Wanted

\* Rows and library are what they should be.
Catalog == song \in [Songs -> Row] /\ library \subseteq Songs

Inv == Counters /\ Catalog /\ FreshList /\ FreshBuild

\* The ranking reads nothing of a song but its projection.
LEMMA RankingReadsProjection ==
  ASSUME Catalog, UNCHANGED library,
         \A s \in Songs : Projection(song'[s]) = Projection(song[s])
  PROVE  Wanted' = Wanted
<1>1. \A s \in Songs : /\ song'[s].visible = song[s].visible
                       /\ song'[s].tags = song[s].tags
                       /\ song'[s].artists = song[s].artists
                       /\ Lesser(song'[s].favoritedTimes, FavoritedCap)
                            = Lesser(song[s].favoritedTimes, FavoritedCap)
                       /\ Lesser(song'[s].ratingScore, RatingCap)
                            = Lesser(song[s].ratingScore, RatingCap)
  BY DEF Projection
<1>2. {s \in library' : Visible(s)'} = {s \in library : Visible(s)}
  BY <1>1 DEF Visible, Catalog
<1>3. Seeds' = Seeds
  BY <1>2 DEF Seeds, First, ById
<1>4. Seeds \subseteq Songs
  BY DEF Seeds, First, Catalog
<1>5. SeedTags' = SeedTags /\ SeedArtists' = SeedArtists
  BY <1>1, <1>3, <1>4 DEF SeedTags, SeedArtists
<1>6. \A s \in Songs : SharedTags(s)' = SharedTags(s) /\ SharedArtists(s)' = SharedArtists(s)
  BY <1>1, <1>5 DEF SharedTags, SharedArtists
<1>7. \A s \in Songs : Score(s)' = Score(s)
  BY <1>1, <1>6 DEF Score
<1>8. Candidates' = Candidates
  BY <1>1, <1>3, <1>6 DEF Candidates, VisibleSongs, Visible
<1>9. Candidates \subseteq Songs
  BY DEF Candidates, VisibleSongs
<1>10. Ranking' = Ranking
  <2> DEFINE score == [s \in Candidates |-> Score(s)]
             before(f, x, y) == f[x] > f[y] \/ (f[x] = f[y] /\ x < y)
             rank(c, f) == [x \in c |-> Cardinality({y \in c : before(f, y, x)}) + 1]
             order(c, f) == [i \in 1..Cardinality(c) |-> CHOOSE x \in c : rank(c, f)[x] = i]
  <2>1. score' = score
    BY <1>7, <1>8, <1>9
  <2>2. Ranking = order(Candidates, score)
    BY DEF Ranking, Ranked, Ordered
  <2>3. Ranking' = order(Candidates', score')
    BY DEF Ranking, Ranked, Ordered
  <2> HIDE DEF score, order
  <2>4. QED
    BY <1>8, <2>1, <2>2, <2>3
<1>11. QED
  BY <1>3, <1>10 DEF Wanted

\* What a step leaves alone when it does not touch songs and library.
LEMMA WantedKept == UNCHANGED <<song, library>> => Wanted' = Wanted
BY DEF Wanted, Seeds, First, Visible, ById, Ranking, Ranked, Ordered, Candidates,
       VisibleSongs, SharedTags, SharedArtists, SeedTags, SeedArtists, Score, Lesser

\* Nothing has been built at the start.
LEMMA InvInit == Init => Inv
BY RankingAssumption DEF Init, Inv, Counters, Catalog, FreshList, FreshBuild, Dated,
                         NoList, NoBuild, Row

\* A song that is written leaves a list current only if its projection is the same.
LEMMA WriteSongSafe ==
  ASSUME Inv, NEW s \in Songs, NEW row \in Rows, WriteSong(s, row)
  PROVE  Inv'
<1>1. Counters' /\ Catalog'
  BY RankingAssumption DEF Inv, Counters, Catalog, Dated, WriteSong
<1>2. CASE Projection(song[s]) # Projection(row)
  BY <1>1, <1>2 DEF Inv, WriteSong, FreshList, FreshBuild, Current, UpToDate
<1>3. CASE Projection(song[s]) = Projection(row)
  <2>1. \A t \in Songs : Projection(song'[t]) = Projection(song[t])
    BY <1>3 DEF WriteSong, Inv, Catalog
  <2>2. Wanted' = Wanted
    BY <2>1, RankingReadsProjection DEF WriteSong, Inv
  <2>3. FreshList' /\ FreshBuild'
    BY <1>3, <2>2 DEF Inv, WriteSong, FreshList, FreshBuild, Current, UpToDate, Greater
  <2>4. QED
    BY <1>1, <2>3 DEF Inv
<1>4. QED
  BY <1>2, <1>3

\* A new version of the catalog, or of the library, outdates every list.
LEMMA AnnounceSafe ==
  ASSUME Inv, AnnounceChanges
  PROVE  Inv'
<1>1. Counters' /\ Catalog'
  BY DEF Inv, Counters, Catalog, Dated, AnnounceChanges
<1>2. ~Current(list)' /\ ~Current(build)'
  BY DEF Inv, Counters, Dated, AnnounceChanges, Current, UpToDate, Greater
<1>3. QED
  BY <1>1, <1>2 DEF Inv, FreshList, FreshBuild, Current

\* A favourite invalidates the profile in its own transaction.
LEMMA EditSafe ==
  ASSUME Inv, NEW s \in Songs, NEW seen \in 0..catalogVersion, EditLibrary(s, seen)
  PROVE  Inv'
<1>1. Counters' /\ Catalog'
  BY DEF Inv, Counters, Catalog, Dated, EditLibrary, Greater
<1>2. ~Current(list)' /\ ~Current(build)'
  BY DEF Inv, Counters, Dated, EditLibrary, Current, UpToDate
<1>3. QED
  BY <1>1, <1>2 DEF Inv, FreshList, FreshBuild, Current

\* A claim can only raise what the profile requires.
LEMMA StartSafe ==
  ASSUME Inv, StartBuild
  PROVE  Inv'
<1> DEFINE required == Greater(profile.required, catalogVersion)
<1>1. required = catalogVersion
  BY DEF Inv, Counters, Greater
<1>2. /\ profile' = [profile EXCEPT !.required = catalogVersion]
      /\ build' = [pc |-> "building", items |-> << >>,
                   libraryVersion |-> profile.libraryVersion,
                   catalogVersion |-> catalogVersion]
      /\ UNCHANGED <<song, library, catalogVersion, catalogChanged, list>>
  BY <1>1 DEF StartBuild, NoBuild
<1>3. Counters' /\ Catalog'
  BY <1>2 DEF Inv, Counters, Catalog, Dated
<1>4. Wanted' = Wanted
  BY WantedKept DEF StartBuild
<1>5. FreshList'
  BY <1>4 DEF Inv, Counters, Dated, FreshList, Current, UpToDate, StartBuild, Greater
<1>6. build'.pc # "publishing"
  BY DEF StartBuild, NoBuild
<1>7. QED
  BY <1>3, <1>5, <1>6 DEF Inv, FreshBuild

\* The build reads the songs and the library at one moment.
LEMMA RankSafe ==
  ASSUME Inv, RankItems
  PROVE  Inv'
<1>1. Counters' /\ Catalog'
  BY DEF Inv, Counters, Catalog, Dated, RankItems
<1>2. Wanted' = Wanted
  BY WantedKept DEF RankItems
<1>3. FreshList'
  BY <1>2 DEF Inv, FreshList, Current, UpToDate, RankItems
<1>4. build'.items = Wanted
  BY DEF Inv, Counters, RankItems
<1>5. QED
  BY <1>1, <1>2, <1>3, <1>4 DEF Inv, FreshBuild

\* A published list is the build that was current.
LEMMA PublishSafe ==
  ASSUME Inv, Publish
  PROVE  Inv'
<1>1. Counters' /\ Catalog'
  BY DEF Inv, Counters, Catalog, Dated, Publish, NoBuild
<1>2. Wanted' = Wanted
  BY WantedKept DEF Publish
<1>3. FreshList'
  BY <1>2 DEF Inv, FreshList, FreshBuild, Current, UpToDate, Publish
<1>4. build'.pc # "publishing"
  BY DEF Publish, NoBuild
<1>5. QED
  BY <1>1, <1>3, <1>4 DEF Inv, FreshBuild

\* Every step keeps the invariant.
LEMMA InvNext == Inv /\ [Next]_vars => Inv'
<1> SUFFICES ASSUME Inv, [Next]_vars PROVE Inv'
  OBVIOUS
<1>1. CASE FailBuild
  <2>1. Wanted' = Wanted
    BY <1>1, WantedKept DEF FailBuild
  <2>2. QED
    BY <1>1, <2>1 DEF FailBuild, NoBuild, Inv, Counters, Catalog, Dated, FreshList,
                      FreshBuild, Current, UpToDate
<1>2. CASE UNCHANGED vars
  <2>1. Wanted' = Wanted
    BY <1>2, WantedKept DEF vars
  <2>2. QED
    BY <1>2, <2>1 DEF vars, Inv, Counters, Catalog, Dated, FreshList,
                      FreshBuild, Current, UpToDate
<1>3. QED
  BY <1>1, <1>2, WriteSongSafe, AnnounceSafe, EditSafe, StartSafe, RankSafe, PublishSafe
     DEF Next

\* A list served as FRESH holds exactly the ranking of the songs and seeds of
\* this moment, once no change is unannounced: the versions and the projection
\* miss nothing the ranking depends on (getSnapshotDiscovery, sync-song).
THEOREM FreshListsRank == Spec => []FreshList
<1>1. Inv => FreshList
  BY DEF Inv
<1>2. QED
  BY <1>1, InvInit, InvNext, PTL DEF Spec

-----------------------------------------------------------------------------
(***************************************************************************)
(* Sequences that are cut down to a set                                    *)
(***************************************************************************)
\* Numbers in their order.
Ascending(P) == {p \in P \X P : p[1] < p[2]}

\* Places of a sequence are strictly ordered by their numbers.
LEMMA AscendingIsStrict ==
  ASSUME NEW P \in SUBSET Nat
  PROVE  /\ StrictOrder(P, Ascending(P))
         /\ \A x, y \in P : <<x, y>> \in Ascending(P) <=> x < y
<1>1. \A x, y \in P : <<x, y>> \in Ascending(P) <=> x < y
  BY DEF Ascending
<1>2. \A x \in P : x \in Nat
  OBVIOUS
<1> HIDE DEF Ascending
<1>3. QED BY <1>1, <1>2 DEF StrictOrder

\* The places that Among takes its elements from.
Places(seq, S) == {i \in DOMAIN seq : seq[i] \in S}

\* Among takes the places of the wanted elements, in ascending order.
LEMMA AmongPlaces ==
  ASSUME NEW seq, NEW S, Places(seq, S) \in SUBSET Nat, IsFiniteSet(Places(seq, S))
  PROVE  Among(seq, S) =
           [k \in 1..Cardinality(Places(seq, S)) |->
              seq[Sorted(Places(seq, S), Ascending(Places(seq, S)))[k]]]
<1> DEFINE P == Places(seq, S)
           rank == [x \in P |-> Cardinality({y \in P : y < x}) + 1]
           at == [i \in 1..Cardinality(P) |-> CHOOSE x \in P : rank[x] = i]
<1>1. ASSUME NEW x \in P
      PROVE  rank[x] = Rank(P, Ascending(P), x)
  <2>1. {y \in P : y < x} = Below(P, Ascending(P), x)
    BY AscendingIsStrict DEF Below
  <2>2. QED BY <2>1 DEF Rank
<1>2. at = Sorted(P, Ascending(P))
  BY <1>1 DEF Sorted
<1>3. Among(seq, S) = [k \in DOMAIN at |-> seq[at[k]]]
  BY DEF Among, Ordered, ById, Places
<1>4. DOMAIN at = 1..Cardinality(P)
  OBVIOUS
<1> HIDE DEF at, P
<1>5. Among(seq, S) = [k \in 1..Cardinality(P) |-> seq[Sorted(P, Ascending(P))[k]]]
  BY <1>2, <1>3, <1>4
<1>6. QED BY <1>5 DEF P

\* An interval is in its order.
LEMMA IntervalSorted ==
  ASSUME NEW n \in Nat, NEW k \in 1..n
  PROVE  Sorted(1..n, Ascending(1..n))[k] = k
<1>1. 1..n \in SUBSET Nat /\ IsFiniteSet(1..n) /\ Cardinality(1..n) = n
  BY FS_Interval
<1>2. Below(1..n, Ascending(1..n), k) = 1..(k - 1)
  BY <1>1, AscendingIsStrict DEF Below
<1>3. Cardinality(1..(k - 1)) = k - 1
  BY FS_Interval
<1>4. Rank(1..n, Ascending(1..n), k) = k
  BY <1>2, <1>3 DEF Rank
<1>5. QED BY <1>1, <1>4, AscendingIsStrict, SortedByRank

\* A sequence of elements of S is what there is of S in it.
LEMMA AmongAll ==
  ASSUME NEW n \in Nat, NEW S, NEW seq \in [1..n -> S]
  PROVE  Among(seq, S) = seq
<1>1. Places(seq, S) = 1..n
  BY DEF Places
<1>2. 1..n \in SUBSET Nat /\ IsFiniteSet(1..n) /\ Cardinality(1..n) = n
  BY FS_Interval
<1>3. Among(seq, S) = [k \in 1..n |-> seq[Sorted(1..n, Ascending(1..n))[k]]]
  BY <1>1, <1>2, AmongPlaces
<1>4. QED BY <1>3, IntervalSorted

\* What is sorted and then picked is what is picked and then sorted.
LEMMA AmongSorted ==
  ASSUME NEW C, NEW R, IsFiniteSet(C), StrictOrder(C, R), NEW B \in SUBSET C
  PROVE  Among(Sorted(C, R), B) = Sorted(B, R)
<1> DEFINE n == Cardinality(C)
           seq == Sorted(C, R)
           P == Places(seq, B)
           at == Sorted(P, Ascending(P))
<1>1. n \in Nat /\ seq \in [1..n -> C]
  BY RankedOnce, SortedByRank
<1>2. P \in SUBSET (1..n) /\ \A i \in 1..n : i \in P <=> seq[i] \in B
  BY <1>1 DEF Places
<1>3. P \in SUBSET Nat /\ IsFiniteSet(P)
  <2>1. 1..n \in SUBSET Nat /\ IsFiniteSet(1..n)
    BY <1>1, FS_Interval
  <2> HIDE DEF n, P
  <2>2. QED BY <1>2, <2>1, FS_Subset
<1>4. IsFiniteSet(B) /\ StrictOrder(B, R)
  BY FS_Subset DEF StrictOrder
<1>5. /\ \A i, j \in 1..n : <<seq[i], seq[j]>> \in R <=> i < j
      /\ \A i, j \in 1..n : seq[i] = seq[j] => i = j
      /\ \A x \in C : \E i \in 1..n : seq[i] = x
  BY <1>1, RankedOnce, SortedByRank
<1> HIDE DEF n, seq, P
<1>6. Among(seq, B) = [k \in 1..Cardinality(P) |-> seq[at[k]]]
  BY <1>3, AmongPlaces DEF P
\* The elements of B before one of them are as many as their places.
<1>7. ASSUME NEW Q \in SUBSET P, NEW A \in SUBSET B,
             \A i \in P : i \in Q <=> seq[i] \in A
      PROVE  Cardinality(Q) = Cardinality(A)
  <2> DEFINE f == [i \in Q |-> seq[i]]
  <2>1. \A i \in Q : i \in P /\ i \in 1..n /\ seq[i] \in A
    BY <1>2, <1>7
  <2>2. f \in [Q -> A]
    BY <2>1
  <2>3. \A i, j \in Q : f[i] = f[j] => i = j
    BY <1>5, <2>1
  <2>4. \A x \in A : \E i \in Q : f[i] = x
    <3>1. ASSUME NEW x \in A
          PROVE  \E i \in Q : seq[i] = x
      <4>1. PICK i \in 1..n : seq[i] = x
        BY <1>5
      <4>2. i \in Q
        BY <1>2, <1>7, <4>1
      <4>3. QED BY <4>1, <4>2
    <3>2. QED BY <3>1
  <2>5. f \in Injection(Q, A) /\ f \in Surjection(Q, A)
    BY <2>2, <2>3, <2>4 DEF Injection, Surjection, IsInjective
  <2>6. IsFiniteSet(Q)
    BY <1>3, FS_Subset
  <2>7. Cardinality(A) = Cardinality(Q)
    BY <2>5, <2>6, FS_Surjection
  <2>8. QED BY <2>7
<1>8. Cardinality(P) = Cardinality(B)
  BY <1>2, <1>7
<1>9. ASSUME NEW i \in P
      PROVE  Rank(P, Ascending(P), i) = Rank(B, R, seq[i])
  <2>1. /\ Below(P, Ascending(P), i) \in SUBSET P
        /\ Below(B, R, seq[i]) \in SUBSET B
    BY DEF Below
  <2>2. \A j \in P : j \in Below(P, Ascending(P), i) <=> seq[j] \in Below(B, R, seq[i])
    BY <1>2, <1>3, <1>5, AscendingIsStrict DEF Below
  <2>3. QED BY <1>7, <2>1, <2>2 DEF Rank
<1>10. ASSUME NEW k \in 1..Cardinality(B)
       PROVE  seq[at[k]] = Sorted(B, R)[k]
  <2>1. at[k] \in P /\ Rank(P, Ascending(P), at[k]) = k
    <3>1. StrictOrder(P, Ascending(P)) /\ k \in 1..Cardinality(P)
      BY <1>3, <1>8, AscendingIsStrict
    <3>2. /\ at \in [1..Cardinality(P) -> P]
          /\ \A i \in 1..Cardinality(P) : Rank(P, Ascending(P), at[i]) = i
      BY <1>3, <3>1, SortedByRank
    <3>3. QED BY <3>1, <3>2
  <2>2. seq[at[k]] \in B /\ Rank(B, R, seq[at[k]]) = k
    BY <1>2, <1>9, <2>1
  <2>3. QED BY <1>4, <2>2, SortedByRank
<1>11. Sorted(B, R) = [k \in 1..Cardinality(B) |-> Sorted(B, R)[k]]
  BY DEF Sorted
<1>12. Among(seq, B) = Sorted(B, R)
  BY <1>6, <1>8, <1>10, <1>11
<1>13. QED BY <1>12 DEF seq

-----------------------------------------------------------------------------
(***************************************************************************)
(* The orders of the queries                                               *)
(***************************************************************************)
\* The order of the ranking: score, then popularity.
ScoreOrder ==
  {p \in Songs \X Songs : \/ Score(p[1]) > Score(p[2])
                          \/ Score(p[1]) = Score(p[2]) /\ p[1] < p[2]}

\* The order of the fallback: getPopularIds.
PopularityOrder == {p \in Songs \X Songs : ByPopularity(p[1], p[2])}

\* Scores are numbers.
LEMMA ScoreIsNumber ==
  ASSUME Catalog, NEW s \in Songs
  PROVE  Score(s) \in Nat
<1>1. song[s] \in Row
  BY DEF Catalog
<1>2. /\ song[s].tags \in SUBSET Tags /\ song[s].artists \in SUBSET Artists
      /\ song[s].favoritedTimes \in Nat /\ song[s].ratingScore \in Nat
  BY <1>1 DEF Row
<1>3. IsFiniteSet(SharedTags(s)) /\ IsFiniteSet(SharedArtists(s))
  <2>1. SharedTags(s) \in SUBSET Tags /\ SharedArtists(s) \in SUBSET Artists
    BY <1>2 DEF SharedTags, SharedArtists
  <2>2. QED BY <2>1, RankingAssumption, FS_Subset
<1>4. Cardinality(SharedTags(s)) \in Nat /\ Cardinality(SharedArtists(s)) \in Nat
  BY <1>3, FS_CardinalityType
<1>5. /\ Lesser(song[s].favoritedTimes, FavoritedCap) \in Nat
      /\ Lesser(song[s].ratingScore, RatingCap) \in Nat
  BY <1>2 DEF Lesser, FavoritedCap, RatingCap
<1>6. QED BY <1>4, <1>5 DEF Score

\* Song ids are numbers, and there are finitely many.
LEMMA SongsAreNumbers == IsFiniteSet(Songs) /\ \A s \in Songs : s \in Nat
BY RankingAssumption

\* No two candidates tie: the id decides last.
LEMMA ScoreOrderIsStrict ==
  ASSUME Catalog, NEW S \in SUBSET Songs
  PROVE  StrictOrder(S, ScoreOrder)
<1>1. \A x, y \in S : <<x, y>> \in ScoreOrder <=>
                         \/ Score(x) > Score(y)
                         \/ Score(x) = Score(y) /\ x < y
  BY DEF ScoreOrder
<1>2. \A x \in S : x \in Nat /\ Score(x) \in Nat
  BY ScoreIsNumber, SongsAreNumbers
<1>3. QED BY <1>1, <1>2 DEF StrictOrder

\* No two songs tie in popularity either.
LEMMA PopularityOrderIsStrict ==
  ASSUME Catalog, NEW S \in SUBSET Songs
  PROVE  StrictOrder(S, PopularityOrder)
<1>1. \A x \in S : /\ x \in Nat /\ song[x].favoritedTimes \in Nat
                   /\ song[x].ratingScore \in Nat
  BY SongsAreNumbers DEF Catalog, Row
<1>2. \A x, y \in S : <<x, y>> \in PopularityOrder <=> ByPopularity(x, y)
  BY DEF PopularityOrder
<1>3. QED BY <1>1, <1>2 DEF StrictOrder, ByPopularity

\* The queries sort by these orders.
LEMMA RankedIsSorted ==
  ASSUME NEW S \in SUBSET Songs
  PROVE  Ranked(S) = Sorted(S, ScoreOrder)
<1> DEFINE score == [s \in S |-> Score(s)]
           before(x, y) == score[x] > score[y] \/ (score[x] = score[y] /\ x < y)
           rank == [x \in S |-> Cardinality({y \in S : before(y, x)}) + 1]
<1>1. ASSUME NEW x \in S
      PROVE  rank[x] = Rank(S, ScoreOrder, x)
  <2>1. {y \in S : before(y, x)} = Below(S, ScoreOrder, x)
    BY DEF Below, ScoreOrder
  <2>2. QED BY <2>1 DEF Rank
<1>2. Ranked(S) = [i \in 1..Cardinality(S) |-> CHOOSE x \in S : rank[x] = i]
  BY DEF Ranked, Ordered
<1> HIDE DEF rank
<1>3. QED BY <1>1, <1>2 DEF Sorted

\* The fallback lists the visible songs in the order of their popularity.
LEMMA PopularIsSorted ==
  ASSUME NEW S \in SUBSET Songs
  PROVE  Ordered(S, ByPopularity) = Sorted(S, PopularityOrder)
<1> DEFINE rank == [x \in S |-> Cardinality({y \in S : ByPopularity(y, x)}) + 1]
<1>1. ASSUME NEW x \in S
      PROVE  rank[x] = Rank(S, PopularityOrder, x)
  <2>1. {y \in S : ByPopularity(y, x)} = Below(S, PopularityOrder, x)
    BY DEF Below, PopularityOrder
  <2>2. QED BY <2>1 DEF Rank
<1>2. Ordered(S, ByPopularity) =
        [i \in 1..Cardinality(S) |-> CHOOSE x \in S : rank[x] = i]
  BY DEF Ordered
<1> HIDE DEF rank
<1>3. QED BY <1>1, <1>2 DEF Sorted

\* A list without repetitions.
Distinct(n, seq, S) == /\ n \in Nat
                       /\ seq \in [1..n -> S]
                       /\ \A i, j \in 1..n : seq[i] = seq[j] => i = j

\* The ranking has each candidate once, the fallback each visible song.
LEMMA RankingDistinct ==
  ASSUME Catalog
  PROVE  /\ Candidates \in SUBSET VisibleSongs /\ IsFiniteSet(Candidates)
         /\ Distinct(Cardinality(Candidates), Ranking, Candidates)
         /\ Cardinality(Candidates) <= Cardinality(Songs)
<1>1. Candidates \in SUBSET VisibleSongs /\ Candidates \in SUBSET Songs
  BY DEF Candidates, VisibleSongs
<1>2. IsFiniteSet(Candidates) /\ Cardinality(Candidates) <= Cardinality(Songs)
  BY <1>1, SongsAreNumbers, FS_Subset
<1>3. StrictOrder(Candidates, ScoreOrder) /\ Ranking = Sorted(Candidates, ScoreOrder)
  BY <1>1, ScoreOrderIsStrict, RankedIsSorted DEF Ranking
<1>4. Cardinality(Candidates) \in Nat
  BY <1>2, FS_CardinalityType
<1>5. QED BY <1>1, <1>2, <1>3, <1>4, SortedByRank DEF Distinct

\* The fallback shows no song twice.
LEMMA PopularDistinct ==
  ASSUME Catalog
  PROVE  /\ Distinct(Cardinality(VisibleSongs), Ordered(VisibleSongs, ByPopularity),
                     VisibleSongs)
         /\ Cardinality(VisibleSongs) <= Cardinality(Songs)
<1>1. VisibleSongs \in SUBSET Songs
  BY DEF VisibleSongs
<1>2. IsFiniteSet(VisibleSongs) /\ Cardinality(VisibleSongs) <= Cardinality(Songs)
  BY <1>1, SongsAreNumbers, FS_Subset
<1>3. /\ StrictOrder(VisibleSongs, PopularityOrder)
      /\ Ordered(VisibleSongs, ByPopularity) = Sorted(VisibleSongs, PopularityOrder)
  BY <1>1, PopularityOrderIsStrict, PopularIsSorted
<1>4. Cardinality(VisibleSongs) \in Nat
  BY <1>2, FS_CardinalityType
<1>5. QED BY <1>2, <1>3, <1>4, SortedByRank DEF Distinct

-----------------------------------------------------------------------------
(***************************************************************************)
(* Pages                                                                   *)
(***************************************************************************)
\* What precedes a page, and the page a place is on.
Offset(page, size) == (page - 1) * size

\* An offset is a number, and the next page starts a page further on.
LEMMA Offsets ==
  ASSUME NEW size \in Nat \ {0}, NEW page \in Nat \ {0}
  PROVE  /\ Offset(page, size) \in Nat
         /\ page * size = Offset(page, size) + size
<1>1. PICK q \in Nat : page = q + 1
  BY page - 1 \in Nat
<1>2. q * size \in Nat /\ (q + 1) * size = q * size + size
  BY SMT
<1>3. QED BY <1>1, <1>2 DEF Offset

\* Every place of the ranking is on one page.
LEMMA PageOf ==
  ASSUME NEW size \in Nat \ {0}, NEW i \in Nat \ {0}
  PROVE  /\ (i - 1) \div size \in Nat /\ (i - 1) % size \in 0..(size - 1)
         /\ i = Offset((i - 1) \div size + 1, size) + ((i - 1) % size) + 1
<1>1. PICK j \in Nat : i = j + 1
  BY i - 1 \in Nat
<1>2. /\ j \div size \in Nat /\ j % size \in 0..(size - 1)
      /\ j = size * (j \div size) + (j % size)
  BY SMT
<1>3. QED BY <1>1, <1>2 DEF Offset

\* Later pages start later.
LEMMA OffsetsGrow ==
  ASSUME NEW size \in Nat \ {0}, NEW p \in Nat \ {0}, NEW q \in Nat \ {0}, p < q
  PROVE  Offset(p, size) + size <= Offset(q, size)
<1>1. PICK d \in Nat : q - 1 = p + d
  BY q - 1 - p \in Nat
<1>2. (p + d) * size = p * size + d * size /\ d * size \in Nat
  BY SMT
<1>3. QED BY <1>1, <1>2, Offsets DEF Offset

\* More rows need no fewer pages.
LEMMA DivisionGrows ==
  ASSUME NEW size \in Nat \ {0}, NEW m \in Nat, NEW n \in Nat, m <= n
  PROVE  m \div size <= n \div size
<1>1. /\ m \div size \in Nat /\ m % size \in 0..(size - 1)
      /\ m = size * (m \div size) + (m % size)
      /\ n \div size \in Nat /\ n % size \in 0..(size - 1)
      /\ n = size * (n \div size) + (n % size)
  BY SMT
<1>2. ASSUME NEW a \in Nat, NEW b \in Nat, b < a
      PROVE  size * b + size <= size * a
  <2>1. PICK d \in Nat : a = b + 1 + d
    BY <1>2, a - b - 1 \in Nat
  <2>2. size * (b + 1 + d) = size * b + size + size * d /\ size * d \in Nat
    BY SMT
  <2>3. QED BY <2>1, <2>2
<1>3. QED BY <1>1, <1>2

\* How much of n places is on a page.
PageLen(n, page, size) == IF Offset(page, size) >= n THEN 0
                          ELSE IF Offset(page, size) + size <= n THEN size
                          ELSE n - Offset(page, size)

\* A page holds the places after its offset, as far as there are any.
LEMMA PageRows ==
  ASSUME NEW n \in Nat, NEW S, NEW seq \in [1..n -> S],
         NEW size \in Nat \ {0}, NEW page \in Nat \ {0}
  PROVE  /\ PageLen(n, page, size) \in 0..size
         /\ Slice(seq, page, size) \in [1..PageLen(n, page, size) -> S]
         /\ Len(Slice(seq, page, size)) = PageLen(n, page, size)
         /\ \A k \in 1..PageLen(n, page, size) :
              Slice(seq, page, size)[k] = seq[Offset(page, size) + k]
         /\ \A k \in 1..size :
              k <= PageLen(n, page, size) <=> Offset(page, size) + k <= n
<1>1. PICK o \in Nat : o = Offset(page, size) /\ page * size = o + size
  BY Offsets
<1>2. PICK b \in Nat : b = Lesser(o + size, n)
  BY DEF Lesser
<1>3. PICK rows : rows = Slice(seq, page, size)
  OBVIOUS
<1>4. PICK len : len = PageLen(n, page, size)
  OBVIOUS
<1>5. seq \in Seq(S) /\ Len(seq) = n
  OBVIOUS
<1>6. rows = SubSeq(seq, o + 1, b)
  BY <1>1, <1>2, <1>3, <1>5 DEF Slice, Offset
<1>7. b = IF o + size <= n THEN o + size ELSE n
  BY <1>2 DEF Lesser
<1>8. len = IF o >= n THEN 0 ELSE b - o
  BY <1>1, <1>4, <1>7 DEF PageLen
<1>9. len \in 0..size /\ \A k \in 1..size : k <= len <=> o + k <= n
  BY <1>7, <1>8
<1>10. /\ rows \in [1..len -> S] /\ Len(rows) = len
       /\ \A k \in 1..len : rows[k] = seq[o + k]
  <2>1. CASE o >= n
    <3>1. b < o + 1
      BY <1>7, <2>1
    <3>2. rows = << >>
      BY <1>6, <3>1, SubSeqEmpty
    <3>3. len = 0 /\ << >> \in [1..0 -> S] /\ Len(<< >>) = 0
      BY <1>8, <2>1
    <3>4. QED BY <3>2, <3>3
  <2>2. CASE o < n
    <3>1. o + 1 \in 1..n /\ b \in (o + 1)..n /\ len = b - o /\ len \in Nat
      BY <1>7, <1>8, <2>2
    <3>2. rows = [k \in 1..len |-> seq[o + k]]
      BY <1>5, <1>6, <3>1
    <3>3. \A k \in 1..len : o + k \in 1..n
      BY <3>1
    <3>4. rows \in [1..len -> S]
      BY <3>2, <3>3
    <3>5. Len(rows) = len
      BY <3>1, <3>4
    <3>6. QED BY <3>2, <3>4, <3>5
  <2>3. QED BY <2>1, <2>2
<1>11. /\ PageLen(n, page, size) \in 0..size
       /\ \A k \in 1..size :
            k <= PageLen(n, page, size) <=> Offset(page, size) + k <= n
  BY <1>1, <1>4, <1>9
<1>12. /\ Slice(seq, page, size) \in [1..PageLen(n, page, size) -> S]
       /\ Len(Slice(seq, page, size)) = PageLen(n, page, size)
  BY <1>3, <1>4, <1>10
<1>13. \A k \in 1..PageLen(n, page, size) :
         Slice(seq, page, size)[k] = seq[Offset(page, size) + k]
  BY <1>1, <1>3, <1>4, <1>10
<1>14. QED BY <1>11, <1>12, <1>13

\* A page of visible songs is shown as it is.
LEMMA PageShown ==
  ASSUME NEW n \in Nat, NEW seq \in [1..n -> VisibleSongs], NEW mode,
         NEW size \in Nat \ {0}, NEW page \in Nat \ {0}
  PROVE  LET answer == Assembled([rows |-> Slice(seq, page, size), total |-> n], mode, size)
         IN  /\ answer.items = Slice(seq, page, size)
             /\ answer.totalItems = n
             /\ answer.totalPages = (n + size - 1) \div size
<1>1. Slice(seq, page, size) \in [1..PageLen(n, page, size) -> VisibleSongs]
  BY PageRows
<1>2. PageLen(n, page, size) \in Nat
  <2>1. PageLen(n, page, size) \in 0..size
    BY PageRows
  <2>2. QED BY <2>1
<1>3. Among(Slice(seq, page, size), VisibleSongs) = Slice(seq, page, size)
  BY <1>1, <1>2, AmongAll
<1>4. QED BY <1>3 DEF Assembled

\* What PagesPartition says of the pages of one size.
Partitioned(answer, size) ==
  LET total == answer[1].totalItems
      shown == {at \in Pages(size) \X (1..size) : at[2] <= Len(answer[at[1]].items)}
  IN  /\ \A page \in Pages(size) : answer[page].totalItems = total
      /\ Cardinality(shown) = total
      /\ Cardinality({answer[at[1]].items[at[2]] : at \in shown}) = total
      /\ \A at \in shown : at[1] <= answer[1].totalPages

\* There are pages enough, the first among them.
LEMMA PagesEnough ==
  ASSUME NEW size \in Nat \ {0}
  PROVE  /\ Pages(size) \in SUBSET (Nat \ {0}) /\ 1 \in Pages(size)
         /\ \A i \in Nat \ {0} :
              i <= Cardinality(Songs) => (i - 1) \div size + 1 \in Pages(size)
<1>1. Cardinality(Songs) \in Nat
  BY SongsAreNumbers, FS_CardinalityType
<1>2. Cardinality(Songs) \div size \in Nat
  BY <1>1, SMT
<1>3. ASSUME NEW i \in Nat \ {0}, i <= Cardinality(Songs)
      PROVE  (i - 1) \div size + 1 \in Pages(size)
  <2>1. PICK j \in Nat : j = i - 1 /\ j <= Cardinality(Songs)
    BY <1>1, <1>3, i - 1 \in Nat
  <2>2. j \div size \in Nat /\ j \div size <= Cardinality(Songs) \div size
    BY <1>1, <2>1, DivisionGrows, SMT
  <2>3. QED BY <1>2, <2>1, <2>2 DEF Pages
<1>4. QED BY <1>2, <1>3 DEF Pages

\* The pages of a ranking that is cut by size are a partition of it.
LEMMA Paging ==
  ASSUME NEW n \in Nat, NEW seq, Distinct(n, seq, VisibleSongs),
         n <= Cardinality(Songs), NEW mode, NEW size \in Nat \ {0}, NEW answer,
         answer = [page \in Pages(size) |->
                     Assembled([rows |-> Slice(seq, page, size), total |-> n], mode, size)]
  PROVE  Partitioned(answer, size)
<1> DEFINE shown == {at \in Pages(size) \X (1..size) :
                       at[2] <= Len(answer[at[1]].items)}
           place(at) == Offset(at[1], size) + at[2]
           songs == {seq[i] : i \in 1..n}
<1>1. /\ seq \in [1..n -> VisibleSongs]
      /\ \A i, j \in 1..n : seq[i] = seq[j] => i = j
  BY DEF Distinct
<1>2. /\ Pages(size) \in SUBSET (Nat \ {0}) /\ 1 \in Pages(size)
      /\ \A i \in 1..n : (i - 1) \div size + 1 \in Pages(size)
  <2>1. \A i \in 1..n : i \in Nat \ {0} /\ i <= Cardinality(Songs)
    BY SongsAreNumbers, FS_CardinalityType
  <2>2. QED BY <2>1, PagesEnough
<1>3. ASSUME NEW page \in Pages(size)
      PROVE  /\ answer[page].items = Slice(seq, page, size)
             /\ answer[page].totalItems = n
             /\ answer[page].totalPages = (n + size - 1) \div size
  BY <1>1, <1>2, PageShown
<1>4. ASSUME NEW page \in Pages(size), NEW k \in 1..size
      PROVE  /\ k <= Len(answer[page].items) <=> Offset(page, size) + k <= n
             /\ k <= Len(answer[page].items) =>
                  answer[page].items[k] = seq[Offset(page, size) + k]
  <2>1. page \in Nat \ {0}
    BY <1>2
  <2>2. /\ PageLen(n, page, size) \in 0..size
        /\ Slice(seq, page, size) \in [1..PageLen(n, page, size) -> VisibleSongs]
        /\ Len(Slice(seq, page, size)) = PageLen(n, page, size)
        /\ \A i \in 1..PageLen(n, page, size) :
             Slice(seq, page, size)[i] = seq[Offset(page, size) + i]
        /\ \A i \in 1..size :
             i <= PageLen(n, page, size) <=> Offset(page, size) + i <= n
    BY <1>1, <2>1, PageRows, Zenon
  <2>3. QED BY <1>3, <2>2
<1>5. ASSUME NEW at \in shown
      PROVE  /\ at \in Pages(size) \X (1..size)
             /\ at[1] \in Pages(size) /\ at[2] \in 1..size
             /\ Offset(at[1], size) \in Nat
             /\ place(at) \in 1..n
             /\ answer[at[1]].items[at[2]] = seq[place(at)]
  <2>1. at[1] \in Pages(size) /\ at[2] \in 1..size /\ at[2] <= Len(answer[at[1]].items)
    OBVIOUS
  <2>2. Offset(at[1], size) \in Nat
    BY <1>2, <2>1, Offsets
  <2>3. Offset(at[1], size) + at[2] <= n
    BY <1>4, <2>1
  <2>4. answer[at[1]].items[at[2]] = seq[Offset(at[1], size) + at[2]]
    BY <1>4, <2>1
  <2>5. QED BY <2>1, <2>2, <2>3, <2>4
<1>6. ASSUME NEW at \in shown, NEW bt \in shown, place(at) = place(bt)
      PROVE  at = bt
  <2>1. at[1] \in Nat \ {0} /\ bt[1] \in Nat \ {0}
    BY <1>2, <1>5
  <2>2. /\ Offset(at[1], size) \in Nat /\ Offset(bt[1], size) \in Nat
        /\ at[2] \in 1..size /\ bt[2] \in 1..size
    BY <1>5
  <2>3. ~(at[1] < bt[1])
    <3>1. SUFFICES ASSUME at[1] < bt[1]
                   PROVE  FALSE
      OBVIOUS
    <3>2. Offset(at[1], size) + size <= Offset(bt[1], size)
      BY <2>1, <3>1, OffsetsGrow
    <3>3. QED BY <1>6, <2>2, <3>2
  <2>4. ~(bt[1] < at[1])
    <3>1. SUFFICES ASSUME bt[1] < at[1]
                   PROVE  FALSE
      OBVIOUS
    <3>2. Offset(bt[1], size) + size <= Offset(at[1], size)
      BY <2>1, <3>1, OffsetsGrow
    <3>3. QED BY <1>6, <2>2, <3>2
  <2>5. at[1] = bt[1]
    BY <2>1, <2>3, <2>4
  <2>6. at[2] = bt[2]
    BY <1>6, <2>2, <2>5
  <2>7. QED BY <1>5, <2>5, <2>6
<1>7. ASSUME NEW i \in 1..n
      PROVE  \E at \in shown : place(at) = i
  <2>1. PICK page \in Pages(size), k \in 1..size : i = Offset(page, size) + k
    <3> i \in Nat \ {0}
      OBVIOUS
    <3>1. /\ (i - 1) % size \in 0..(size - 1) /\ (i - 1) \div size \in Nat
          /\ i = Offset((i - 1) \div size + 1, size) + ((i - 1) % size) + 1
      BY PageOf
    <3>2. Offset((i - 1) \div size + 1, size) \in Nat
      BY <1>2, <3>1, Offsets
    <3>3. ((i - 1) % size) + 1 \in 1..size
      BY <3>1
    <3>4. i = Offset((i - 1) \div size + 1, size) + (((i - 1) % size) + 1)
      BY <3>1, <3>2
    <3>5. QED BY <1>2, <3>3, <3>4
  <2>2. k <= Len(answer[page].items)
    BY <1>4, <2>1
  <2>3. <<page, k>> \in shown
    BY <2>2
  <2>4. place(<<page, k>>) = i
    BY <2>1
  <2>5. QED BY <2>3, <2>4
<1>8. IsFiniteSet(1..n) /\ Cardinality(1..n) = n
  BY FS_Interval
<1>9. Cardinality(shown) = n
  <2> DEFINE f == [at \in shown |-> place(at)]
  <2>1. f \in Injection(shown, 1..n)
    BY <1>5, <1>6 DEF Injection, IsInjective
  <2>2. f \in Surjection(shown, 1..n)
    BY <1>5, <1>7 DEF Surjection
  <2> HIDE DEF f, shown
  <2>3. QED BY <1>8, <2>1, <2>2, FS_Injection
<1>10. {answer[at[1]].items[at[2]] : at \in shown} = songs
  <2>1. \A at \in shown : answer[at[1]].items[at[2]] \in songs
    BY <1>5
  <2>2. ASSUME NEW i \in 1..n
        PROVE  seq[i] \in {answer[at[1]].items[at[2]] : at \in shown}
    <3>1. PICK at \in shown : place(at) = i
      BY <1>7
    <3>2. QED BY <1>5, <3>1
  <2> HIDE DEF shown
  <2>3. QED BY <2>1, <2>2
<1>11. Cardinality(songs) = n
  <2>1. seq \in Injection(1..n, songs) /\ seq \in Surjection(1..n, songs)
    BY <1>1 DEF Injection, IsInjective, Surjection
  <2> HIDE DEF songs
  <2>2. QED BY <1>8, <2>1, FS_Surjection
<1>12. ASSUME NEW at \in shown
       PROVE  at[1] <= (n + size - 1) \div size
  <2>1. PICK p \in Nat \ {0} : p = at[1]
    BY <1>2, <1>5
  <2>2. Offset(p, size) + 1 <= n /\ Offset(p, size) \in Nat
    BY <1>5, <2>1
  <2>3. PICK m \in Nat : m = p * size /\ m = Offset(p, size) + size
    <3>1. p * size = Offset(p, size) + size
      BY Offsets
    <3>2. QED BY <2>2, <3>1
  <2>4. (p * size) \div size <= (n + size - 1) \div size
    <3>1. PICK k \in Nat : k = n + size - 1
      BY n + size - 1 \in Nat
    <3>2. m <= k
      BY <2>2, <2>3, <3>1
    <3>3. m \div size <= k \div size
      BY <3>2, DivisionGrows
    <3>4. QED BY <2>3, <3>1, <3>3
  <2>5. (p * size) \div size = p
    BY SMT
  <2>6. QED BY <2>1, <2>4, <2>5
<1> HIDE DEF shown
<1>13. /\ \A page \in Pages(size) : answer[page].totalItems = n
       /\ answer[1].totalItems = n
       /\ answer[1].totalPages = (n + size - 1) \div size
  BY <1>2, <1>3
<1>14. /\ Cardinality({answer[at[1]].items[at[2]] : at \in shown}) = n
       /\ \A at \in shown : at[1] <= answer[1].totalPages
  BY <1>10, <1>11, <1>12, <1>13
<1>15. QED BY <1>9, <1>13, <1>14 DEF Partitioned, shown

\* What the live query answers: pages of the ranking, or of the popular songs.
LEMMA LiveAnswers ==
  ASSUME NEW size \in PageSizes, NEW page \in Pages(size)
  PROVE  Live(Personalized(page, size), page, size) =
           IF Seeds # {} /\ Cardinality(Candidates) > 0
           THEN Assembled([rows |-> Slice(Ranking, page, size),
                           total |-> Cardinality(Candidates)], "PERSONALIZED", size)
           ELSE Assembled([rows |-> Slice(Ordered(VisibleSongs, ByPopularity), page, size),
                           total |-> Cardinality(VisibleSongs)], "POPULAR", size)
<1>1. Personalized(page, size) = [rows |-> Slice(Ranking, page, size),
                                  total |-> Cardinality(Candidates)]
  BY SameResults DEF PersonalizedCombined
<1>2. Popular(page, size) =
        [rows |-> Slice(Ordered(VisibleSongs, ByPopularity), page, size),
         total |-> Cardinality(VisibleSongs)]
  BY DEF Popular
<1>3. CASE Seeds = {}
  BY <1>2, <1>3 DEF Live, Answer, NoResult
<1>4. CASE Seeds # {}
  BY <1>1, <1>2, <1>4 DEF Live, Answer
<1>5. QED BY <1>3, <1>4

\* Ranking or fallback: the pages of every size partition what is live.
LEMMA EverySizePartitions ==
  ASSUME Catalog, NEW size \in PageSizes
  PROVE  Partitioned([page \in Pages(size) |-> Live(Personalized(page, size), page, size)],
                     size)
<1> DEFINE answer == [page \in Pages(size) |->
                        Live(Personalized(page, size), page, size)]
           popular == Ordered(VisibleSongs, ByPopularity)
<1>1. size \in Nat \ {0}
  BY RankingAssumption
<1>2. CASE Seeds # {} /\ Cardinality(Candidates) > 0
  <2>1. answer = [page \in Pages(size) |->
                    Assembled([rows |-> Slice(Ranking, page, size),
                               total |-> Cardinality(Candidates)], "PERSONALIZED", size)]
    BY <1>2, LiveAnswers
  <2>2. Distinct(Cardinality(Candidates), Ranking, VisibleSongs)
    BY RankingDistinct DEF Distinct
  <2>3. Cardinality(Candidates) \in Nat /\ Cardinality(Candidates) <= Cardinality(Songs)
    BY CandidatesFinite, RankingDistinct
  <2> HIDE DEF answer
  <2>4. QED BY <1>1, <2>1, <2>2, <2>3, Paging DEF answer
<1>3. CASE ~(Seeds # {} /\ Cardinality(Candidates) > 0)
  <2>1. answer = [page \in Pages(size) |->
                    Assembled([rows |-> Slice(popular, page, size),
                               total |-> Cardinality(VisibleSongs)], "POPULAR", size)]
    BY <1>3, LiveAnswers
  <2>2. Distinct(Cardinality(VisibleSongs), popular, VisibleSongs)
    BY PopularDistinct
  <2>3. Cardinality(VisibleSongs) \in Nat /\ Cardinality(VisibleSongs) <= Cardinality(Songs)
    BY <2>2, PopularDistinct DEF Distinct
  <2> HIDE DEF answer, popular
  <2>4. QED BY <1>1, <2>1, <2>2, <2>3, Paging DEF answer
<1>4. QED BY <1>2, <1>3

\* For every library, catalog and page size, a reader who goes through the pages
\* of an answer sees every song its total counts, once, and none on a page after
\* the last one (OFFSET and LIMIT of the queries, toPage).
THEOREM PagesAlwaysPartition == Spec => []PagesPartition
<1>1. ASSUME Inv
      PROVE  PagesPartition
  <2>1. \A size \in PageSizes :
          Partitioned([page \in Pages(size) |->
                         Live(Personalized(page, size), page, size)], size)
    BY <1>1, EverySizePartitions DEF Inv
  <2>2. QED BY <2>1 DEF PagesPartition, Partitioned
<1>2. QED BY <1>1, InvInit, InvNext, PTL DEF Spec

-----------------------------------------------------------------------------
(***************************************************************************)
(* The bounded candidates of V2                                            *)
(***************************************************************************)
\* A limit that is not reached cuts nothing off.
LEMMA WithinLimit ==
  ASSUME NEW S, IsFiniteSet(S), NEW n \in Nat, Cardinality(S) <= n,
         NEW x \in S, NEW B \in SUBSET S, x \notin B
  PROVE  Cardinality(B) < n
<1>1. /\ IsFiniteSet(S \ {x}) /\ Cardinality(S \ {x}) = Cardinality(S) - 1
      /\ Cardinality(S) \in Nat
  BY FS_RemoveElement, FS_CardinalityType
<1>2. B \in SUBSET (S \ {x})
  OBVIOUS
<1>3. Cardinality(B) <= Cardinality(S \ {x}) /\ IsFiniteSet(B)
  BY <1>1, <1>2, FS_Subset
<1>4. QED BY <1>1, <1>3, FS_CardinalityType

\* The features of the seeds are finitely many, and how many seeds have one is a number.
LEMMA SeedFeatures ==
  ASSUME Catalog
  PROVE  /\ IsFiniteSet(SeedTags) /\ IsFiniteSet(SeedArtists)
         /\ \A t \in SeedTags : t \in Nat /\ TagSupport(t) \in Nat
         /\ \A a \in SeedArtists : a \in Nat /\ ArtistSupport(a) \in Nat
<1>1. Seeds \in SUBSET Songs
  BY DEF Seeds, First, Catalog
<1>2. \A s \in Seeds : song[s].tags \in SUBSET Tags /\ song[s].artists \in SUBSET Artists
  BY <1>1 DEF Catalog, Row
<1>3. SeedTags \in SUBSET Tags /\ SeedArtists \in SUBSET Artists
  BY <1>2 DEF SeedTags, SeedArtists
<1>4. IsFiniteSet(SeedTags) /\ IsFiniteSet(SeedArtists) /\ IsFiniteSet(Seeds)
  BY <1>1, <1>3, RankingAssumption, FS_Subset
<1>5. ASSUME NEW t
      PROVE  TagSupport(t) \in Nat /\ ArtistSupport(t) \in Nat
  <2>1. /\ {s \in Seeds : t \in song[s].tags} \in SUBSET Seeds
        /\ {s \in Seeds : t \in song[s].artists} \in SUBSET Seeds
    OBVIOUS
  <2>2. /\ IsFiniteSet({s \in Seeds : t \in song[s].tags})
        /\ IsFiniteSet({s \in Seeds : t \in song[s].artists})
    BY <1>4, <2>1, FS_Subset
  <2>3. QED BY <2>2, FS_CardinalityType DEF TagSupport, ArtistSupport
<1>6. Tags \subseteq Nat /\ Artists \subseteq Nat
  BY RankingAssumption
<1>7. QED BY <1>3, <1>4, <1>5, <1>6

\* What V2 considers is a candidate of V1.
LEMMA BoundedAreCandidates == BoundedCandidates \in SUBSET Candidates
<1>1. ASSUME NEW t \in TopTags, NEW s \in Expanded(HavingTag(t))
      PROVE  s \in Candidates
  <2>1. t \in SeedTags
    BY DEF TopTags, First
  <2>2. s \in VisibleSongs \ Seeds /\ t \in song[s].tags
    BY DEF Expanded, First, HavingTag
  <2>3. QED BY <2>1, <2>2 DEF Candidates, SharedTags
<1>2. ASSUME NEW a \in TopArtists, NEW s \in Expanded(HavingArtist(a))
      PROVE  s \in Candidates
  <2>1. a \in SeedArtists
    BY DEF TopArtists, First
  <2>2. s \in VisibleSongs \ Seeds /\ a \in song[s].artists
    BY DEF Expanded, First, HavingArtist
  <2>3. QED BY <2>1, <2>2 DEF Candidates, SharedArtists
<1>3. QED BY <1>1, <1>2 DEF BoundedCandidates

\* Where no feature has more songs than its limit, it expands to all of them.
LEMMA ExpandsToAll ==
  ASSUME Catalog, NEW having \in SUBSET Songs,
         Cardinality((having \cap VisibleSongs) \ Seeds) <= PerFeature
  PROVE  Expanded(having) = (having \cap VisibleSongs) \ Seeds
<1> DEFINE S == (having \cap VisibleSongs) \ Seeds
<1>1. S \in SUBSET Songs /\ IsFiniteSet(S) /\ PerFeature \in Nat
  BY SongsAreNumbers, FS_Subset, RankingAssumption
<1>2. StrictOrder(S, PopularityOrder)
  BY <1>1, PopularityOrderIsStrict
<1>3. ASSUME NEW x \in S
      PROVE  Cardinality({y \in S : ByPopularity(y, x)}) < PerFeature
  <2>1. ~ByPopularity(x, x)
    BY <1>1, <1>2 DEF StrictOrder, PopularityOrder
  <2>2. {y \in S : ByPopularity(y, x)} \in SUBSET S
        /\ x \notin {y \in S : ByPopularity(y, x)}
    BY <2>1
  <2> HIDE DEF S
  <2>3. QED BY <1>1, <2>2, WithinLimit DEF S
<1>4. QED BY <1>3 DEF Expanded, First

\* Where there are no more features than their limit, all of them are used.
LEMMA AllFeaturesUsed ==
  ASSUME Catalog,
         Cardinality(SeedTags) <= FeatureLimit, Cardinality(SeedArtists) <= FeatureLimit
  PROVE  TopTags = SeedTags /\ TopArtists = SeedArtists
<1>1. FeatureLimit \in Nat
  BY RankingAssumption
<1>2. ASSUME NEW x \in SeedTags
      PROVE  Cardinality({y \in SeedTags : ByTagSupport(y, x)}) < FeatureLimit
  <2>1. ~ByTagSupport(x, x)
    BY SeedFeatures DEF ByTagSupport
  <2>2. {y \in SeedTags : ByTagSupport(y, x)} \in SUBSET SeedTags
        /\ x \notin {y \in SeedTags : ByTagSupport(y, x)}
    BY <2>1
  <2>3. QED BY <1>1, <2>2, SeedFeatures, WithinLimit
<1>3. ASSUME NEW x \in SeedArtists
      PROVE  Cardinality({y \in SeedArtists : ByArtistSupport(y, x)}) < FeatureLimit
  <2>1. ~ByArtistSupport(x, x)
    BY SeedFeatures DEF ByArtistSupport
  <2>2. {y \in SeedArtists : ByArtistSupport(y, x)} \in SUBSET SeedArtists
        /\ x \notin {y \in SeedArtists : ByArtistSupport(y, x)}
    BY <2>1
  <2>3. QED BY <1>1, <2>2, SeedFeatures, WithinLimit
<1>4. QED BY <1>2, <1>3 DEF TopTags, TopArtists, First

\* Without limits the bounded candidates are all of them.
LEMMA UnboundedHasAll ==
  ASSUME Catalog, Unbounded
  PROVE  BoundedCandidates = Candidates
<1>1. TopTags = SeedTags /\ TopArtists = SeedArtists
  BY AllFeaturesUsed DEF Unbounded
<1>2. ASSUME NEW s \in Candidates
      PROVE  s \in BoundedCandidates
  <2>1. s \in Songs /\ s \in VisibleSongs \ Seeds
    BY DEF Candidates, VisibleSongs
  <2>2. CASE SharedTags(s) # {}
    <3>1. PICK t \in SeedTags : t \in song[s].tags
      BY <2>2 DEF SharedTags
    <3>2. Expanded(HavingTag(t)) = (HavingTag(t) \cap VisibleSongs) \ Seeds
      <4>1. HavingTag(t) \in SUBSET Songs
        BY DEF HavingTag
      <4>2. Cardinality((HavingTag(t) \cap VisibleSongs) \ Seeds) <= PerFeature
        BY <3>1 DEF Unbounded
      <4>3. QED BY <4>1, <4>2, ExpandsToAll
    <3>3. s \in Expanded(HavingTag(t))
      BY <2>1, <3>1, <3>2 DEF HavingTag
    <3>4. QED BY <1>1, <3>1, <3>3 DEF BoundedCandidates
  <2>3. CASE SharedArtists(s) # {}
    <3>1. PICK a \in SeedArtists : a \in song[s].artists
      BY <2>3 DEF SharedArtists
    <3>2. Expanded(HavingArtist(a)) = (HavingArtist(a) \cap VisibleSongs) \ Seeds
      <4>1. HavingArtist(a) \in SUBSET Songs
        BY DEF HavingArtist
      <4>2. Cardinality((HavingArtist(a) \cap VisibleSongs) \ Seeds) <= PerFeature
        BY <3>1 DEF Unbounded
      <4>3. QED BY <4>1, <4>2, ExpandsToAll
    <3>3. s \in Expanded(HavingArtist(a))
      BY <2>1, <3>1, <3>2 DEF HavingArtist
    <3>4. QED BY <1>1, <3>1, <3>3 DEF BoundedCandidates
  <2>4. QED BY <2>2, <2>3 DEF Candidates
<1>3. QED BY <1>2, BoundedAreCandidates

\* Whatever the limits of V2: it ranks a part of what V1 ranks, in the order of
\* V1, and all of it where no limit is reached (the comment of discovery-v2).
THEOREM BoundedAlwaysPart == Spec => []BoundedIsPart
<1>1. ASSUME Inv
      PROVE  BoundedIsPart
  <2>1. Catalog
    BY <1>1 DEF Inv
  <2>2. /\ BoundedCandidates \in SUBSET Candidates
        /\ BoundedCandidates \in SUBSET Songs /\ Candidates \in SUBSET Songs
    BY BoundedAreCandidates DEF Candidates, VisibleSongs
  <2>3. /\ IsFiniteSet(Candidates) /\ StrictOrder(Candidates, ScoreOrder)
        /\ Ranking = Sorted(Candidates, ScoreOrder)
        /\ BoundedRanking = Sorted(BoundedCandidates, ScoreOrder)
    BY <2>1, <2>2, RankingDistinct, ScoreOrderIsStrict, RankedIsSorted
       DEF Ranking, BoundedRanking
  <2>4. Among(Ranking, BoundedCandidates) = BoundedRanking
    BY <2>2, <2>3, AmongSorted
  <2>5. Unbounded => BoundedRanking = Ranking
    BY <2>1, UnboundedHasAll DEF BoundedRanking, Ranking
  <2>6. QED BY <2>4, <2>5 DEF BoundedIsPart
<1>2. QED BY <1>1, InvInit, InvNext, PTL DEF Spec

-----------------------------------------------------------------------------
(***************************************************************************)
(* Reads of a list, and types                                              *)
(***************************************************************************)
\* What a complete list gives is what the live query gives.
LEMMA ListReadsRanking ==
  ASSUME Catalog, list.ready, list.items = Wanted,
         NEW size \in PageSizes, NEW page \in Pages(size)
  PROVE  SnapshotRead(page, size) = Live(Personalized(page, size), page, size)
<1>1. CASE Seeds = {}
  <2>1. list.items = << >> /\ << >> \in [1..0 -> VisibleSongs]
    BY <1>1 DEF Wanted
  <2>2. Among(list.items, VisibleSongs) = << >>
    BY <2>1, AmongAll
  <2>3. FromList(page, size).total = 0
    BY <2>2 DEF FromList
  <2>4. SnapshotRead(page, size) = Assembled(Popular(page, size), "POPULAR", size)
    BY <2>3 DEF SnapshotRead, Answer
  <2>5. Live(Personalized(page, size), page, size)
          = Assembled(Popular(page, size), "POPULAR", size)
    BY <1>1 DEF Live, Answer, NoResult
  <2>6. QED BY <2>4, <2>5
<1>2. CASE Seeds # {}
  <2>1. PICK n \in Nat : /\ n = Cardinality(Candidates)
                         /\ Ranking \in [1..n -> VisibleSongs]
    BY RankingDistinct DEF Distinct
  <2>2. list.items = Ranking
    BY <1>2 DEF Wanted
  <2>3. Among(list.items, VisibleSongs) = Ranking
    BY <2>1, <2>2, AmongAll
  <2>4. Len(Ranking) = n
    BY <2>1
  <2>5. FromList(page, size) = [rows |-> Slice(Ranking, page, size), total |-> n]
    BY <2>3, <2>4 DEF FromList
  <2>6. FromList(page, size) = Personalized(page, size)
    BY <2>1, <2>5, SameResults DEF PersonalizedCombined
  <2>7. QED BY <1>2, <2>6 DEF SnapshotRead, Live
<1>3. QED BY <1>1, <1>2

\* A list served as FRESH is, page by page and with the same mode and totals,
\* what the live query would answer, once no change is unannounced
\* (getSnapshotDiscovery, startDiscoverySnapshot, publishDiscoverySnapshot).
THEOREM FreshAlwaysParity == Spec => []FreshParity
<1>1. ASSUME Inv
      PROVE  FreshParity
  <2>1. SUFFICES ASSUME Freshness = "FRESH", ~catalogChanged,
                        NEW size \in PageSizes, NEW page \in Pages(size)
                 PROVE  SnapshotRead(page, size) = Live(Personalized(page, size), page, size)
    BY DEF FreshParity
  <2>2. CASE list.ready
    <3>1. UpToDate(list)
      BY <2>1, <2>2 DEF Freshness
    <3>2. list.items = Wanted
      BY <1>1, <2>1, <2>2, <3>1 DEF Inv, FreshList
    <3>3. QED BY <1>1, <2>1, <2>2, <3>2, ListReadsRanking DEF Inv
  <2>3. CASE ~list.ready
    <3>1. Seeds = {}
      BY <2>1, <2>3 DEF Freshness
    <3>2. QED BY <2>3, <3>1 DEF SnapshotRead, FromList, Live
  <2>4. QED BY <2>2, <2>3
<1>2. QED BY <1>1, InvInit, InvNext, PTL DEF Spec

\* The list of no songs is one without repetitions.
LEMMA EmptyIsList == << >> \in Seq(Songs) /\ Cardinality(Elements(<< >>)) = Len(<< >>)
<1>1. Elements(<< >>) = {}
  BY DEF Elements
<1>2. Cardinality(Elements(<< >>)) = 0
  BY <1>1, FS_EmptySet
<1>3. << >> \in Seq(Songs) /\ Len(<< >>) = 0
  OBVIOUS
<1>4. QED BY <1>2, <1>3

\* What a build writes is a list of songs without repetitions.
LEMMA WantedIsList ==
  ASSUME Catalog
  PROVE  Wanted \in Seq(Songs) /\ Cardinality(Elements(Wanted)) = Len(Wanted)
<1>2. Ranking \in Seq(Songs) /\ Cardinality(Elements(Ranking)) = Len(Ranking)
  <2>1. PICK n \in Nat : /\ Ranking \in [1..n -> Candidates]
                         /\ \A i, j \in 1..n : Ranking[i] = Ranking[j] => i = j
    BY RankingDistinct DEF Distinct
  <2>2. Candidates \in SUBSET Songs
    BY DEF Candidates, VisibleSongs
  <2>3. Ranking \in Seq(Songs) /\ Len(Ranking) = n /\ DOMAIN Ranking = 1..n
    BY <2>1, <2>2
  <2>4. /\ Ranking \in Injection(1..n, Elements(Ranking))
        /\ Ranking \in Surjection(1..n, Elements(Ranking))
    BY <2>1, <2>3 DEF Elements, Injection, IsInjective, Surjection
  <2>5. IsFiniteSet(1..n) /\ Cardinality(1..n) = n
    BY FS_Interval
  <2>6. Cardinality(Elements(Ranking)) = n
    BY <2>4, <2>5, FS_Surjection
  <2>7. QED BY <2>3, <2>6
<1>3. QED BY EmptyIsList, <1>2 DEF Wanted

\* Every step keeps the types.
LEMMA TypesNext == TypeOK /\ [Next]_vars => TypeOK'
<1> SUFFICES ASSUME TypeOK, [Next]_vars PROVE TypeOK'
  OBVIOUS
<1> USE DEF TypeOK, Versioned
<1>1. MaxChanges \in Nat /\ MaxEdits \in Nat /\ Rows \subseteq Row
  BY RankingAssumption
<1>2. /\ MaxChanges \in Nat /\ MaxEdits \in Nat /\ Rows \subseteq Row
      /\ << >> \in Seq(Songs) /\ Cardinality(Elements(<< >>)) = Len(<< >>)
  BY <1>1, EmptyIsList
<1>3. ASSUME NEW s \in Songs, NEW row \in Rows, WriteSong(s, row)
      PROVE  TypeOK'
  BY <1>2, <1>3 DEF WriteSong
<1>4. CASE AnnounceChanges
  <2>1. profile \in [libraryVersion : 0..MaxEdits, required : 0..(catalogVersion + 1)]
    OBVIOUS
  <2>2. profile' \in [libraryVersion : 0..MaxEdits, required : 0..catalogVersion']
    BY <1>4, <2>1 DEF AnnounceChanges
  <2>3. catalogVersion' \in Nat
    BY <1>4 DEF AnnounceChanges
  <2>4. catalogChanged' \in BOOLEAN
    BY <1>4, Zenon DEF AnnounceChanges
  <2>5. QED BY <1>4, <2>2, <2>3, <2>4 DEF AnnounceChanges
<1>5. ASSUME NEW s \in Songs, NEW seen \in 0..catalogVersion, EditLibrary(s, seen)
      PROVE  TypeOK'
  BY <1>2, <1>5 DEF EditLibrary, Greater
<1>6. CASE StartBuild
  <2>1. Greater(profile.required, catalogVersion) = catalogVersion
    BY DEF Greater
  <2>2. /\ profile' = [profile EXCEPT !.required = catalogVersion]
        /\ build' = [pc |-> "building", items |-> << >>,
                     libraryVersion |-> profile.libraryVersion,
                     catalogVersion |-> catalogVersion]
        /\ UNCHANGED <<song, library, catalogVersion, catalogChanged, list, changes>>
    BY <1>6, <2>1 DEF StartBuild, NoBuild
  <2>3. profile' \in [libraryVersion : 0..MaxEdits, required : 0..catalogVersion]
    BY <2>2
  <2>4. build' \in Versioned /\ build'.items = << >>
    BY <1>2, <2>2
  <2>5. QED BY <1>2, <2>2, <2>3, <2>4
<1>7. CASE RankItems
  <2>1. Wanted \in Seq(Songs) /\ Cardinality(Elements(Wanted)) = Len(Wanted)
    BY WantedIsList DEF Catalog
  <2>2. build' \in Versioned /\ build'.items = Wanted
    BY <1>7, <2>1 DEF RankItems
  <2>3. QED BY <1>7, <2>1, <2>2 DEF RankItems
<1>8. CASE Publish
  <2>1. build' \in Versioned /\ build'.items = << >>
    BY <1>2, <1>8 DEF Publish, NoBuild
  <2>2. /\ list' \in [ready : BOOLEAN, items : Seq(Songs), libraryVersion : Nat,
                      catalogVersion : Nat]
        /\ list'.items \in {list.items, build.items}
    BY <1>8 DEF Publish
  <2>3. QED BY <1>2, <1>8, <2>1, <2>2 DEF Publish
<1>9. CASE FailBuild
  <2>1. build' \in Versioned /\ build'.items = << >>
    BY <1>2, <1>9 DEF FailBuild, NoBuild
  <2>2. QED BY <1>2, <1>9, <2>1 DEF FailBuild
<1>10. CASE UNCHANGED vars
  BY <1>10 DEF vars, Elements
<1>11. QED BY <1>3, <1>4, <1>5, <1>6, <1>7, <1>8, <1>9, <1>10 DEF Next

\* The types of the variables; no list, built or published, holds a song twice
\* (insertRankedSnapshotItems).
THEOREM TypeCorrect == Spec => []TypeOK
<1>1. Init => TypeOK
  <2> SUFFICES ASSUME Init PROVE TypeOK
    OBVIOUS
  <2>1. song \in [Songs -> Row] /\ library \subseteq Songs
    BY RankingAssumption DEF Init
  <2>2. /\ catalogVersion \in Nat /\ catalogChanged \in BOOLEAN /\ changes \in 0..MaxChanges
        /\ profile \in [libraryVersion : 0..MaxEdits, required : 0..catalogVersion]
    <3>1. MaxChanges \in Nat /\ MaxEdits \in Nat
      BY RankingAssumption
    <3>2. catalogVersion \in Nat /\ changes \in 0..MaxChanges
      BY <3>1 DEF Init
    <3>3. 0 \in 0..MaxEdits /\ 0 \in 0..0
      BY <3>1
    <3>4. profile \in [libraryVersion : 0..MaxEdits, required : 0..catalogVersion]
      BY <3>3 DEF Init
    <3>5. catalogChanged \in BOOLEAN
      BY Zenon DEF Init
    <3>6. QED BY <3>2, <3>4, <3>5
  <2>3. /\ list \in [ready : BOOLEAN, items : Seq(Songs), libraryVersion : Nat,
                     catalogVersion : Nat]
        /\ build \in Versioned
        /\ list.items = << >> /\ build.items = << >>
    BY EmptyIsList DEF Init, NoList, NoBuild, Versioned
  <2>4. QED BY <2>1, <2>2, <2>3, EmptyIsList DEF TypeOK
<1>2. QED BY <1>1, TypesNext, PTL DEF Spec

=============================================================================
