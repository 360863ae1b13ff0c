--------------------------- MODULE DiscoveryRanking ---------------------------
(***************************************************************************)
(* The recommendations of one viewer as data: which songs are seeds, how   *)
(* songs are scored, ranked and cut into pages, by the query in use, by    *)
(* the candidate queries of the benchmarks, and by a materialised list     *)
(* that is served as FRESH while songs and library change.                 *)
(*                                                                         *)
(* Module Discovery has the protocol of the lists for many viewers and     *)
(* builders, with faults; this one has their contents, and one builder.    *)
(* Identifiers are numbers, because the queries order by them.             *)
(***************************************************************************)
EXTENDS Naturals, Sequences, FiniteSets

CONSTANTS
  Songs, Tags, Artists,   \* identifiers
  InitialRows,            \* the rows the songs may have at first
  Rows,                   \* the rows a synchronisation may write
  SeedLimit,              \* DISCOVERY_SEED_LIMIT
  FeatureLimit,           \* FEATURE_LIMIT
  PerFeature,             \* CANDIDATES_PER_FEATURE
  PageSizes,              \* the page sizes that are asked for
  MaxChanges,             \* bound: songs written
  MaxEdits                \* bound: edits of the library

FavoritedCap == 1000
RatingCap == 100

\* What the queries read of a song, its credits and its tags; a song that is not
\* stored yet has none of it.
Row == [stored : BOOLEAN, visible : BOOLEAN, favoritedTimes : Nat,
        ratingScore : Nat, tags : SUBSET Tags, artists : SUBSET Artists]

ASSUME RankingAssumption ==
  /\ Songs \cup Tags \cup Artists \subseteq Nat
  /\ IsFiniteSet(Songs) /\ IsFiniteSet(Tags) /\ IsFiniteSet(Artists)
  /\ InitialRows \cup Rows \subseteq Row
  /\ \A row \in Rows : row.stored
  /\ {SeedLimit, FeatureLimit, PerFeature} \cup PageSizes \subseteq Nat \ {0}
  /\ {MaxChanges, MaxEdits} \subseteq Nat

VARIABLES
  song,            \* song[s]: the row of a song
  library,         \* the songs in the viewer's favourites and playlists
  catalogVersion,  \* DiscoveryCatalogState
  catalogChanged,  \* the flag of the run that writes songs
  profile,         \* the viewer's DiscoveryProfile
  list,            \* the snapshot the profile points at
  build,           \* the rebuild that is under way
  changes          \* how many songs have been written

vars == <<song, library, catalogVersion, catalogChanged, profile, list, build, changes>>

-----------------------------------------------------------------------------
\* Orders

Lesser(m, n) == IF m <= n THEN m ELSE n
Greater(m, n) == IF m >= n THEN m ELSE n

\* The elements of S in a strict total order.
Ordered(S, Before(_, _)) ==
  LET rank == [x \in S |-> Cardinality({y \in S : Before(y, x)}) + 1]
  IN  [i \in 1..Cardinality(S) |-> CHOOSE x \in S : rank[x] = i]

Elements(seq) == {seq[i] : i \in DOMAIN seq}

\* ORDER BY ... LIMIT n, as a set.
First(n, S, Before(_, _)) ==
  {x \in S : Cardinality({y \in S : Before(y, x)}) < n}

\* Mutant: pages counted from zero.
SliceFromZero(seq, page, size) ==
  SubSeq(seq, page * size + 1, Lesser((page + 1) * size, Len(seq)))

\* OFFSET (page - 1) * size LIMIT size
Slice(seq, page, size) ==
  SubSeq(seq, (page - 1) * size + 1, Lesser(page * size, Len(seq)))

ById(x, y) == x < y

\* The elements of seq that are in S, in the order of seq.
Among(seq, S) ==
  LET at == Ordered({i \in DOMAIN seq : seq[i] \in S}, ById)
  IN  [k \in DOMAIN at |-> seq[at[k]]]

\* "favoritedTimes" DESC, "ratingScore" DESC, id ASC
ByPopularity(x, y) ==
  LET a == song[x]  b == song[y]
  IN  \/ a.favoritedTimes > b.favoritedTimes
      \/ a.favoritedTimes = b.favoritedTimes /\ a.ratingScore > b.ratingScore
      \/ a.favoritedTimes = b.favoritedTimes /\ a.ratingScore = b.ratingScore /\ x < y

-----------------------------------------------------------------------------
\* Seeds and scores

Visible(s) == song[s].visible
VisibleSongs == {s \in Songs : Visible(s)}

\* getDiscoverySeedIds
Seeds == First(SeedLimit, {s \in library : Visible(s)}, ById)

SeedTags == UNION {song[s].tags : s \in Seeds}
SeedArtists == UNION {song[s].artists : s \in Seeds}

\* shared_tags and shared_artists count distinct ones.
SharedTags(s) == song[s].tags \cap SeedTags
SharedArtists(s) == song[s].artists \cap SeedArtists

Score(s) == 100 * Cardinality(SharedTags(s)) + 30 * Cardinality(SharedArtists(s))
            + Lesser(song[s].favoritedTimes, FavoritedCap)
            + Lesser(song[s].ratingScore, RatingCap)

\* ORDER BY score DESC, id ASC
Ranked(candidates) ==
  LET score == [s \in candidates |-> Score(s)]
      ByScore(x, y) == score[x] > score[y] \/ (score[x] = score[y] /\ x < y)
  IN  Ordered(candidates, ByScore)

\* The rows of the CTE ranked: visible songs that share something, no seeds.
Candidates == {s \in VisibleSongs \ Seeds : SharedTags(s) # {} \/ SharedArtists(s) # {}}

Ranking == Ranked(Candidates)

\* Mutant: the count query forgets that seeds are no candidates.
CountedWithSeeds ==
  {s \in VisibleSongs : \E seed \in Seeds :
     song[s].tags \cap song[seed].tags # {} \/ song[s].artists \cap song[seed].artists # {}}

\* The rows the count query counts: songs in a relation with some seed.
Counted ==
  {s \in VisibleSongs \ Seeds : \E seed \in Seeds :
     song[s].tags \cap song[seed].tags # {} \/ song[s].artists \cap song[seed].artists # {}}

-----------------------------------------------------------------------------
\* The personalised queries: the rows of a page, and the total

NoResult == [rows |-> << >>, total |-> 0]

\* getPersonalizedIds: COUNT(*) OVER() comes with the rows.  A page without rows
\* has none, and unless it is the first one, counts with a query of its own.
Personalized(page, size) ==
  LET rows == Slice(Ranking, page, size)
  IN  [rows |-> rows,
       total |-> IF rows # << >> THEN Cardinality(Candidates)
                 ELSE IF page = 1 THEN 0 ELSE Cardinality(Counted)]

\* getPersonalizedIdsCombined: the total is counted beside the page.
PersonalizedCombined(page, size) ==
  [rows |-> Slice(Ranking, page, size), total |-> Cardinality(Candidates)]

\* getPersonalizedIdsSplitCount: the count query always runs.
PersonalizedSplitCount(page, size) ==
  [rows |-> Slice(Ranking, page, size), total |-> Cardinality(Counted)]

\* V2: the features of the seeds that most seeds have.
TagSupport(t) == Cardinality({s \in Seeds : t \in song[s].tags})
ArtistSupport(a) == Cardinality({s \in Seeds : a \in song[s].artists})
ByTagSupport(x, y) == TagSupport(x) > TagSupport(y) \/ (TagSupport(x) = TagSupport(y) /\ x < y)
ByArtistSupport(x, y) ==
  ArtistSupport(x) > ArtistSupport(y) \/ (ArtistSupport(x) = ArtistSupport(y) /\ x < y)

TopTags == First(FeatureLimit, SeedTags, ByTagSupport)
TopArtists == First(FeatureLimit, SeedArtists, ByArtistSupport)

\* Mutant: the limit is taken before the seeds are left out.
ExpandedWithSeeds(having) == First(PerFeature, having \cap VisibleSongs, ByPopularity) \ Seeds

\* The most popular visible songs that have a feature and are no seeds.
Expanded(having) == First(PerFeature, (having \cap VisibleSongs) \ Seeds, ByPopularity)

HavingTag(t) == {s \in Songs : t \in song[s].tags}
HavingArtist(a) == {s \in Songs : a \in song[s].artists}

BoundedCandidates == UNION ({Expanded(HavingTag(t)) : t \in TopTags}
                            \cup {Expanded(HavingArtist(a)) : a \in TopArtists})

BoundedRanking == Ranked(BoundedCandidates)

\* getPersonalizedIdsV2
PersonalizedV2(page, size) ==
  [rows |-> Slice(BoundedRanking, page, size), total |-> Cardinality(BoundedCandidates)]

-----------------------------------------------------------------------------
\* What a page shows

\* getPopularIds
Popular(page, size) ==
  [rows |-> Slice(Ordered(VisibleSongs, ByPopularity), page, size),
   total |-> Cardinality(VisibleSongs)]

\* The songs are loaded, hidden ones dropped, and the pages counted.
Assembled(result, mode, size) ==
  [items |-> Among(result.rows, VisibleSongs), mode |-> mode,
   totalItems |-> result.total,
   totalPages |-> (result.total + size - 1) \div size]

\* A result without songs falls back to the popular ones.
Answer(result, page, size) ==
  IF result.total > 0 THEN Assembled(result, "PERSONALIZED", size)
  ELSE Assembled(Popular(page, size), "POPULAR", size)

\* runDiscoveryTransaction with the result of a query, which it asks only if there
\* are seeds, and getDiscovery without snapshot reads.
Live(result, page, size) ==
  Answer(IF Seeds = {} THEN NoResult ELSE result, page, size)

-----------------------------------------------------------------------------
\* The materialised list

NoList == [ready |-> FALSE, items |-> << >>, libraryVersion |-> 0, catalogVersion |-> 0]
NoBuild == [pc |-> "idle", items |-> << >>, libraryVersion |-> 0, catalogVersion |-> 0]

\* getSnapshotDiscovery: hidden items are left out before paging.
FromList(page, size) ==
  LET shown == Among(list.items, VisibleSongs)
  IN  IF list.ready THEN [rows |-> Slice(shown, page, size), total |-> Len(shown)]
                    ELSE NoResult

SnapshotRead(page, size) == Answer(FromList(page, size), page, size)

\* A list or build of these versions is the newest there can be.
UpToDate(versions) ==
  /\ versions.libraryVersion = profile.libraryVersion
  /\ versions.catalogVersion >= Greater(profile.required, catalogVersion)

\* The label of a read with snapshots enabled.
Freshness == IF list.ready THEN IF UpToDate(list) THEN "FRESH" ELSE "STALE"
             ELSE IF Seeds # {} THEN "PENDING" ELSE "FRESH"

-----------------------------------------------------------------------------
\* Actions

Init == /\ song \in [Songs -> InitialRows]
        /\ library \in SUBSET {s \in Songs : song[s].stored}
        /\ catalogVersion = 0 /\ catalogChanged = FALSE
        /\ profile = [libraryVersion |-> 0, required |-> 0]
        /\ list = NoList
        /\ build = NoBuild
        /\ changes = 0

\* Mutant: the artists are left out.
ProjectionWithoutArtists(row) ==
  <<row.stored, row.visible, Lesser(row.favoritedTimes, FavoritedCap),
    Lesser(row.ratingScore, RatingCap), row.tags>>

\* readDiscoveryProjection
Projection(row) ==
  <<row.stored, row.visible, Lesser(row.favoritedTimes, FavoritedCap),
    Lesser(row.ratingScore, RatingCap), row.tags, row.artists>>

\* syncVocaDbSong, markSongSyncFailure or markSongSourceDeleted, within a run.
WriteSong(s, row) ==
  /\ changes < MaxChanges
  /\ song' = [song EXCEPT ![s] = row]
  /\ catalogChanged' = (catalogChanged \/ Projection(song[s]) # Projection(row))
  /\ changes' = changes + 1
  /\ UNCHANGED <<library, catalogVersion, profile, list, build>>

\* The run ends, and announces that it changed songs.
AnnounceChanges ==
  /\ catalogChanged
  /\ catalogVersion' = catalogVersion + 1
  /\ catalogChanged' = FALSE
  /\ UNCHANGED <<song, library, profile, list, build, changes>>

\* A visible song gets into the library, or a song leaves it; the invalidation
\* may have read an older catalog version.
EditLibrary(s, seen) ==
  /\ profile.libraryVersion < MaxEdits
  /\ s \notin library => Visible(s)
  /\ library' = IF s \in library THEN library \ {s} ELSE library \cup {s}
  /\ profile' = [libraryVersion |-> profile.libraryVersion + 1,
                 required |-> Greater(profile.required, seen)]
  /\ UNCHANGED <<song, catalogVersion, catalogChanged, list, build, changes>>

\* Mutant: the claim asks for the version to come.
StartBuildAhead ==
  /\ build.pc = "idle"
  /\ LET required == Greater(profile.required, catalogVersion + 1)
     IN  /\ profile' = [profile EXCEPT !.required = required]
         /\ build' = [NoBuild EXCEPT !.pc = "building",
                        !.libraryVersion = profile.libraryVersion,
                        !.catalogVersion = required]
  /\ UNCHANGED <<song, library, catalogVersion, catalogChanged, list, changes>>

\* startDiscoverySnapshot
StartBuild ==
  /\ build.pc = "idle"
  /\ LET required == Greater(profile.required, catalogVersion)
     IN  /\ profile' = [profile EXCEPT !.required = required]
         /\ build' = [NoBuild EXCEPT !.pc = "building",
                        !.libraryVersion = profile.libraryVersion,
                        !.catalogVersion = required]
  /\ UNCHANGED <<song, library, catalogVersion, catalogChanged, list, changes>>

\* The items a build writes: insertRankedSnapshotItems, if there are seeds.
Wanted == IF Seeds = {} THEN << >> ELSE Ranking

\* The build transaction.
RankItems ==
  /\ build.pc = "building"
  /\ build' = [build EXCEPT !.pc = "publishing",
                            !.items = Wanted]
  /\ UNCHANGED <<song, library, catalogVersion, catalogChanged, profile, list, changes>>

\* Mutant: only the catalog's version is compared.
PublishUnedited ==
  /\ build.pc = "publishing"
  /\ list' = IF build.catalogVersion = profile.required
             THEN [ready |-> TRUE, items |-> build.items,
                   libraryVersion |-> profile.libraryVersion,
                   catalogVersion |-> build.catalogVersion]
             ELSE list
  /\ build' = NoBuild
  /\ UNCHANGED <<song, library, catalogVersion, catalogChanged, profile, changes>>

\* publishDiscoverySnapshot: only for the versions it was started with.
Publish ==
  /\ build.pc = "publishing"
  /\ list' = IF /\ build.libraryVersion = profile.libraryVersion
                /\ build.catalogVersion = profile.required
             THEN [ready |-> TRUE, items |-> build.items,
                   libraryVersion |-> build.libraryVersion,
                   catalogVersion |-> build.catalogVersion]
             ELSE list
  /\ build' = NoBuild
  /\ UNCHANGED <<song, library, catalogVersion, catalogChanged, profile, changes>>

\* The build fails and releases its lease.
FailBuild ==
  /\ build.pc = "building"
  /\ build' = NoBuild
  /\ UNCHANGED <<song, library, catalogVersion, catalogChanged, profile, list, changes>>

Next ==
  \/ \E s \in Songs, row \in Rows : WriteSong(s, row)
  \/ AnnounceChanges
  \/ \E s \in Songs, seen \in 0..catalogVersion : EditLibrary(s, seen)
  \/ StartBuild \/ RankItems \/ Publish \/ FailBuild

Spec == Init /\ [][Next]_vars

-----------------------------------------------------------------------------
\* Properties

Pages(size) == 1..(Cardinality(Songs) \div size + 2)

Versioned == [pc : {"idle", "building", "publishing"}, items : Seq(Songs),
              libraryVersion : Nat, catalogVersion : Nat]

\* The variables keep their types; no list holds a song twice.
TypeOK ==
  /\ song \in [Songs -> Row]
  /\ library \subseteq Songs
  /\ catalogVersion \in Nat /\ catalogChanged \in BOOLEAN /\ changes \in 0..MaxChanges
  /\ profile \in [libraryVersion : 0..MaxEdits, required : 0..catalogVersion]
  /\ list \in [ready : BOOLEAN, items : Seq(Songs), libraryVersion : Nat, catalogVersion : Nat]
  /\ build \in Versioned
  /\ \A items \in {list.items, build.items} :
       Cardinality(Elements(items)) = Len(items)

\* A list served as FRESH holds exactly the ranking of the songs and seeds of
\* this moment, once no change is unannounced: whatever happened between claim,
\* ranking and publication (the versions of getSnapshotDiscovery).
FreshList == list.ready /\ UpToDate(list) /\ ~catalogChanged => list.items = Wanted

\* A list served as FRESH is page by page what the live query would answer,
\* with the same mode and totals, as soon as the run that changed songs has
\* announced them: nothing the ranking reads can change without an invalidation
\* (readDiscoveryProjection names it all), and no build mixes two states.
FreshParity ==
  Freshness = "FRESH" /\ ~catalogChanged =>
    \A size \in PageSizes : \A page \in Pages(size) :
      SnapshotRead(page, size) = Live(Personalized(page, size), page, size)

\* The benchmark's query shapes answer exactly what the query in use does, on
\* pages beyond the last one too, where its total comes from another statement.
ShapesAgree ==
  \A size \in PageSizes : \A page \in Pages(size) :
    LET live == Live(Personalized(page, size), page, size)
    IN  /\ Live(PersonalizedCombined(page, size), page, size) = live
        /\ Live(PersonalizedSplitCount(page, size), page, size) = live

\* A reader who goes through the pages sees every song the total counts, once.
PagesPartition ==
  \A size \in PageSizes :
    LET answer == [page \in Pages(size) |-> Live(Personalized(page, size), page, size)]
        total == answer[1].totalItems
        shown == {at \in Pages(size) \X (1..size) : at[2] <= Len(answer[at[1]].items)}
    IN  /\ \A page \in Pages(size) : answer[page].totalItems = total
        /\ Cardinality(shown) = total
        /\ Cardinality({answer[at[1]].items[at[2]] : at \in shown}) = total
        /\ \A at \in shown : at[1] <= answer[1].totalPages

\* No limit of V2 is reached.
Unbounded ==
  /\ Cardinality(SeedTags) <= FeatureLimit /\ Cardinality(SeedArtists) <= FeatureLimit
  /\ \A t \in SeedTags : Cardinality((HavingTag(t) \cap VisibleSongs) \ Seeds) <= PerFeature
  /\ \A a \in SeedArtists : Cardinality((HavingArtist(a) \cap VisibleSongs) \ Seeds) <= PerFeature

\* V2 ranks a part of what V1 ranks, in the order of V1, and everything where its
\* limits are not reached: features and candidates are cut off by other orders
\* than the score's without disturbing it (the module comment of discovery-v2).
BoundedIsPart ==
  /\ BoundedRanking = Among(Ranking, BoundedCandidates)
  /\ Unbounded => BoundedRanking = Ranking

=============================================================================
