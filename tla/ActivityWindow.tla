---------------------------- MODULE ActivityWindow ----------------------------
(***************************************************************************)
(* How an incremental run finds the songs that changed: it asks the        *)
(* activity feed for its window, and halves a window whose answer is full, *)
(* the right half beginning a slice before the left one ends.  Then the    *)
(* lanes fetch the songs.  All requests go through module VocaDbClient.    *)
(*                                                                         *)
(* The recursion is a sequence of windows still to be asked for.  Windows  *)
(* end in the past, so that the feed does not change under them.           *)
(***************************************************************************)
EXTENDS VocaDbClient, Sequences, FiniteSets

CONSTANTS
  Collector,    \* the lane that collects; the others fetch songs
  Start, End,   \* the window of the run
  Slice,        \* MIN_ACTIVITY_SLICE_MS
  MaxResults    \* VOCADB_ACTIVITY_MAX_RESULTS

ASSUME WindowAssumption == /\ Collector \in Lanes
                           /\ {Start, End, Slice, MaxResults} \subseteq Nat
                           /\ Start < End
                           /\ Slice > 0 /\ MaxResults > 0

VARIABLES
  feed,      \* feed[t]: the number of entries created at t
  pending,   \* the windows to be asked for, the next one first
  ids,       \* the times of the entries whose songs have been collected
  stage      \* what the run is doing, or how the collection failed

windowVars == <<feed, pending, ids, stage>>
vars == <<call, cooldown, cancelled, feed, pending, ids, stage>>

Window == [since : Nat, before : Nat]
Stages == {"collecting", "songs", "SATURATED", "FAILED"}

Init == /\ ClientInit
        /\ feed \in [Start + 1 .. End - 1 -> 0..MaxResults]
        /\ pending = <<[since |-> Start, before |-> End]>>
        /\ ids = {}
        /\ stage = "collecting"

-----------------------------------------------------------------------------
\* The collector

\* VocaDB answers with the entries between the ends (whether an end belongs to
\* the window is VocaDB's affair: the code must be right if neither does), the
\* newest MaxResults if there are more.
Inside(w) == {t \in DOMAIN feed : w.since < t /\ t < w.before}
Entries(w) == {t \in Inside(w) : feed[t] > 0}
\* The entries of an instant are numbered.
Size(w) == Cardinality(UNION {{t} \X (1..feed[t]) : t \in Inside(w)})
Full(w) == Size(w) >= MaxResults

Midpoint(w) == w.since + (w.before - w.since) \div 2

\* Mutant: the right half begins where the left one ends.
RightSinceMidpoint(w) == Midpoint(w)

\* Mutant: an overlap of two slices.
RightSinceTwoSlices(w) == Midpoint(w) - 2 * Slice

\* midpoint - MIN_ACTIVITY_SLICE_MS
RightSince(w) == Midpoint(w) - Slice

\* Mutant: a right half as long as its window is asked for again.
SplitsWithoutProgress(w) == w.before - w.since > Slice /\ RightSince(w) >= w.since

\* A full window can be halved.
Splits(w) == /\ w.before - w.since > Slice
             /\ w.since < Midpoint(w) /\ Midpoint(w) < w.before
             /\ w.since < RightSince(w) /\ RightSince(w) < w.before

Halves(w) == <<[since |-> w.since, before |-> Midpoint(w)],
               [since |-> RightSince(w), before |-> w.before]>>

\* collectActivityIds asks for a window.
AskForWindow ==
  /\ stage = "collecting" /\ pending # << >>
  /\ Ask(Collector)
  /\ UNCHANGED windowVars

Got(outcomes) == call[Collector].pc = "settled" /\ call[Collector].outcome \in outcomes

\* The answer is complete.
CollectWindow ==
  /\ stage = "collecting" /\ Got({"OK"})
  /\ ~Full(Head(pending))
  /\ ids' = ids \cup Entries(Head(pending))
  /\ pending' = Tail(pending)
  /\ stage' = IF Tail(pending) = << >> THEN "songs" ELSE stage
  /\ Return(Collector)
  /\ UNCHANGED feed

\* The answer is full: nothing of it is used.
SplitWindow ==
  /\ stage = "collecting" /\ Got({"OK"})
  /\ Full(Head(pending)) /\ Splits(Head(pending))
  /\ pending' = Halves(Head(pending)) \o Tail(pending)
  /\ Return(Collector)
  /\ UNCHANGED <<feed, ids, stage>>

\* ActivityIntervalSaturatedError
Saturate ==
  /\ stage = "collecting" /\ Got({"OK"})
  /\ Full(Head(pending)) /\ ~Splits(Head(pending))
  /\ stage' = "SATURATED"
  /\ Return(Collector)
  /\ UNCHANGED <<feed, pending, ids>>

\* Any other outcome fails the discovery.
FailCollection ==
  /\ stage = "collecting" /\ Got(Outcomes \ {"OK", "none"})
  /\ stage' = "FAILED"
  /\ Return(Collector)
  /\ UNCHANGED <<feed, pending, ids>>

-----------------------------------------------------------------------------
\* The lanes

\* However many songs there are: a lane may go on for ever.
AskForSong(l) ==
  /\ stage = "songs" /\ l # Collector /\ ~cancelled
  /\ Ask(l)
  /\ UNCHANGED windowVars

TakeSong(l) ==
  /\ l # Collector
  /\ Return(l)
  /\ UNCHANGED windowVars

-----------------------------------------------------------------------------
\* Specification

CollectorStep == AskForWindow \/ CollectWindow \/ SplitWindow \/ Saturate \/ FailCollection

Next ==
  \/ CollectorStep
  \/ \E l \in Lanes : AskForSong(l) \/ TakeSong(l)
  \/ \E l \in Lanes : Attempt(l) /\ UNCHANGED windowVars
  \/ (Cancel \/ Tick) /\ UNCHANGED windowVars

Spec == Init /\ [][Next]_vars

\* The worker's code goes on; VocaDB, the lanes' requests and signals are free.
FairSpec ==
  /\ Spec
  /\ ClientFairness
  /\ WF_vars(CollectorStep)
  /\ \A l \in Lanes : WF_vars(TakeSong(l))

-----------------------------------------------------------------------------
\* Properties

\* The variables keep their types.
TypeOK == /\ ClientTypeOK
          /\ feed \in [Start + 1 .. End - 1 -> 0..MaxResults]
          /\ pending \in Seq(Window)
          /\ ids \subseteq Start..End
          /\ stage \in Stages

\* Bisection loses nothing: every entry inside the run's window has been
\* collected or lies inside a window still to be asked for, also one at the
\* very midpoint; so the manifest is complete when the last window is done, and
\* retries, splits and errors never leave a part of it (collectActivityIds).
Covered ==
  \A t \in Entries([since |-> Start, before |-> End]) :
    t \in ids \/ \E i \in DOMAIN pending : t \in Inside(pending[i])

\* The collection gives up only where the feed really is too dense: a window of
\* two slices with as many entries as an answer can hold.
SaturatedMeansDense ==
  stage = "SATURATED" =>
    \E s \in Start..End : Full([since |-> s, before |-> s + 2 * Slice + 1])

\* The collection ends: halves that overlap still get shorter, and each request
\* comes back (the three tests on span, midpoint and rightSince).
CollectionEnds == <>(stage # "collecting")

=============================================================================
