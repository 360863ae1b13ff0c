------------------------- MODULE ActivityWindowProofs -------------------------
(***************************************************************************)
(* Theorems about VocaDbClient and ActivityWindow, for every window, slice *)
(* and feed, any number of lanes and attempts, and every delay: types,     *)
(* that bisection misses nothing, and that it gives up only on a feed too  *)
(* dense for it.                                                           *)
(***************************************************************************)
EXTENDS ActivityWindow, SequenceTheorems, FiniteSetTheorems, TLAPS

\* While it collects there is a window to ask for.
Unfinished == stage = "collecting" => pending # << >>

Inv == TypeOK /\ Unfinished /\ Covered

-----------------------------------------------------------------------------
\* The client's types

\* A record of a call with some fields replaced keeps its type.
LEMMA CallsTyped ==
  /\ NoCall \in Call
  /\ [NoCall EXCEPT !.pc = "ready", !.attempt = 1] \in Call
  /\ \A c \in Call, outcome \in Outcomes :
       [c EXCEPT !.pc = "settled", !.outcome = outcome, !.left = 0] \in Call
  /\ \A c \in Call, m \in Nat, n \in 0..MaxAttempts :
       [c EXCEPT !.pc = "sleeping", !.left = m, !.attempt = n] \in Call
<1>1. NoCall \in Call
  BY ClientAssumption DEF NoCall, Call, Outcomes
<1>2. 1 \in 0..MaxAttempts
  BY ClientAssumption
<1>3. [NoCall EXCEPT !.pc = "ready", !.attempt = 1] \in Call
  BY <1>1, <1>2 DEF Call
<1>4. \A c \in Call, outcome \in Outcomes :
        [c EXCEPT !.pc = "settled", !.outcome = outcome, !.left = 0] \in Call
  BY DEF Call
<1>5. \A c \in Call, m \in Nat, n \in 0..MaxAttempts :
        [c EXCEPT !.pc = "sleeping", !.left = m, !.attempt = n] \in Call
  BY DEF Call
<1>6. QED
  BY <1>1, <1>3, <1>4, <1>5

LEMMA FailsTyped ==
  ASSUME ClientTypeOK, cooldown' \in Nat, NEW l \in Lanes, NEW code \in ErrorCodes,
         Fails(l, code)
  PROVE  call' \in [Lanes -> Call]
<1>1. call[l] \in Call /\ call[l].attempt \in 0..MaxAttempts
  BY DEF ClientTypeOK, Call
<1>2. PICK retryable \in Retryable(code) :
        IF ~retryable \/ call[l].attempt = MaxAttempts
        THEN Settles(l, code)
        ELSE \E d \in RetryDelays(call[l].attempt) :
               call' = [call EXCEPT ![l] = [@ EXCEPT
                 !.pc = "sleeping", !.left = Larger(d, cooldown'),
                 !.attempt = call[l].attempt + 1]]
  BY DEF Fails
<1>3. CASE ~retryable \/ call[l].attempt = MaxAttempts
  <2>1. code \in Outcomes
    BY DEF Outcomes
  <2>2. Settles(l, code)
    BY <1>2, <1>3
  <2>3. QED
    BY <1>1, <2>1, <2>2, CallsTyped DEF Settles, ClientTypeOK
<1>4. CASE ~(~retryable \/ call[l].attempt = MaxAttempts)
  <2>1. PICK d \in RetryDelays(call[l].attempt) :
          call' = [call EXCEPT ![l] = [@ EXCEPT
            !.pc = "sleeping", !.left = Larger(d, cooldown'),
            !.attempt = call[l].attempt + 1]]
    BY <1>2, <1>4
  <2> DEFINE next == [call[l] EXCEPT !.pc = "sleeping", !.left = Larger(d, cooldown'),
                                     !.attempt = call[l].attempt + 1]
  <2>2. Larger(d, cooldown') \in Nat
    BY DEF RetryDelays, Larger
  <2>3. call[l].attempt + 1 \in 0..MaxAttempts
    BY <1>1, <1>4, ClientAssumption
  <2>4. next \in Call
    BY <1>1, <2>2, <2>3 DEF Call
  <2>5. call' = [call EXCEPT ![l] = next]
    BY <2>1 DEF ClientTypeOK
  <2> HIDE DEF next
  <2>6. QED
    BY <2>4, <2>5 DEF ClientTypeOK
<1>5. QED
  BY <1>3, <1>4

LEMMA AskTyped ==
  ASSUME ClientTypeOK, NEW l \in Lanes, Ask(l)
  PROVE  ClientTypeOK'
BY CallsTyped DEF Ask, ClientTypeOK

LEMMA ReturnTyped ==
  ASSUME ClientTypeOK, NEW l \in Lanes, Return(l)
  PROVE  ClientTypeOK'
BY CallsTyped DEF Return, ClientTypeOK

LEMMA AttemptTyped ==
  ASSUME ClientTypeOK, NEW l \in Lanes, Attempt(l)
  PROVE  ClientTypeOK'
<1>1. call[l] \in Call
  BY DEF ClientTypeOK
<1>2. CASE WaitForCooldown(l)
  BY <1>1, <1>2 DEF WaitForCooldown, ClientTypeOK, Call
<1>3. CASE Send(l)
  BY <1>1, <1>3, ClientAssumption DEF Send, ClientTypeOK, Call
<1>4. CASE Wake(l)
  BY <1>1, <1>4 DEF Wake, ClientTypeOK, Call
<1>5. CASE Succeed(l)
  BY <1>1, <1>5, CallsTyped DEF Succeed, Settles, ClientTypeOK, Outcomes
<1>6. CASE AnswerBadly(l)
  <2>1. PICK code \in ErrorCodes : Fails(l, code)
    BY <1>6 DEF AnswerBadly, ErrorCodes
  <2>2. cooldown' \in Nat /\ cancelled' \in BOOLEAN
    BY <1>6 DEF AnswerBadly, ClientTypeOK
  <2>3. QED
    BY <2>1, <2>2, FailsTyped DEF ClientTypeOK
<1>7. CASE LimitRate(l)
  <2>1. cooldown' \in Nat
    BY <1>7 DEF LimitRate, ClientTypeOK, Larger
  <2>2. cancelled' \in BOOLEAN
    BY <1>7 DEF LimitRate, ClientTypeOK
  <2>3. call' \in [Lanes -> Call]
    BY <1>7, <2>1, FailsTyped DEF LimitRate, ErrorCodes
  <2>4. QED
    BY <2>1, <2>2, <2>3 DEF ClientTypeOK
<1>8. CASE TimeOut(l)
  <2>1. cooldown' \in Nat /\ cancelled' \in BOOLEAN
    BY <1>8 DEF TimeOut, ClientTypeOK
  <2>2. call' \in [Lanes -> Call]
    BY <1>8, <2>1, FailsTyped DEF TimeOut, ErrorCodes
  <2>3. QED
    BY <2>1, <2>2 DEF ClientTypeOK
<1>9. CASE ObserveCancellation(l)
  BY <1>1, <1>9, CallsTyped DEF ObserveCancellation, Settles, ClientTypeOK, Outcomes, ErrorCodes
<1>10. QED
  BY <1>2, <1>3, <1>4, <1>5, <1>6, <1>7, <1>8, <1>9 DEF Attempt

LEMMA ProcessTyped ==
  ASSUME ClientTypeOK, Cancel \/ Tick
  PROVE  ClientTypeOK'
<1>1. CASE Cancel
  BY <1>1 DEF Cancel, ClientTypeOK
<1>2. CASE Tick
  <2>1. \A l \in Lanes : [call[l] EXCEPT !.left = Less(@)] \in Call
    BY DEF ClientTypeOK, Call, Less
  <2>2. cooldown' \in Nat
    BY <1>2 DEF Tick, ClientTypeOK, Less
  <2>3. QED
    BY <1>2, <2>1, <2>2 DEF Tick, ClientTypeOK
<1>3. QED
  BY <1>1, <1>2

-----------------------------------------------------------------------------
\* Windows

\* The halves of a window leave out none of its instants: the right one begins
\* a slice before the left one ends, so the midpoint is in it.
LEMMA HalvesCover ==
  ASSUME TypeOK, NEW w \in Window, Splits(w)
  PROVE  /\ Halves(w) \in Seq(Window)
         /\ Len(Halves(w)) = 2
         /\ Inside(w) \subseteq Inside(Halves(w)[1]) \cup Inside(Halves(w)[2])
<1> DEFINE left == [since |-> w.since, before |-> Midpoint(w)]
           right == [since |-> RightSince(w), before |-> w.before]
<1>1. w.since \in Nat /\ w.before \in Nat
  BY DEF Window
<1>2. Midpoint(w) \in Int
  BY <1>1 DEF Midpoint
<1>3. RightSince(w) \in Int /\ RightSince(w) < Midpoint(w)
  BY <1>2, WindowAssumption DEF RightSince
<1>4. Midpoint(w) \in Nat /\ RightSince(w) \in Nat
  BY <1>1, <1>2, <1>3 DEF Splits
<1>5. left \in Window /\ right \in Window
  BY <1>1, <1>4 DEF Window
<1>6. Halves(w) = <<left, right>>
  BY DEF Halves
<1>7. <<left, right>> \in Seq(Window) /\ Len(<<left, right>>) = 2
  BY <1>5
<1>8. ASSUME NEW t \in Inside(w)
      PROVE  t \in Inside(left) \cup Inside(right)
  <2> HIDE DEF left, right
  <2>1. t \in DOMAIN feed /\ t \in Int /\ w.since < t /\ t < w.before
    BY WindowAssumption DEF Inside, TypeOK
  <2>2. CASE t < Midpoint(w)
    BY <2>1, <2>2 DEF Inside, left
  <2>3. CASE ~(t < Midpoint(w))
    BY <2>1, <2>3, <1>1, <1>2, <1>3 DEF Inside, right
  <2>4. QED
    BY <2>2, <2>3
<1>9. QED
  BY <1>6, <1>7, <1>8

LEMMA EntriesDated ==
  ASSUME TypeOK, NEW w
  PROVE  Entries(w) \subseteq Start..End
BY WindowAssumption DEF TypeOK, Entries, Inside

LEMMA HeadInWindow ==
  ASSUME TypeOK, Unfinished, stage = "collecting"
  PROVE  /\ pending # << >>
         /\ Head(pending) \in Window
         /\ Head(pending) = pending[1]
         /\ Tail(pending) \in Seq(Window)
         /\ Len(pending) \in Nat
         /\ Len(Tail(pending)) = Len(pending) - 1
         /\ \A i \in 1..Len(Tail(pending)) : Tail(pending)[i] = pending[i + 1]
         /\ DOMAIN pending = 1..Len(pending)
         /\ DOMAIN Tail(pending) = 1..Len(Tail(pending))
<1>1. pending \in Seq(Window) /\ pending # << >>
  BY DEF TypeOK, Unfinished
<1>2. Tail(pending) \in Seq(Window)
  BY <1>1, HeadTailProperties
<1>3. QED
  BY <1>1, <1>2, HeadTailProperties, LenProperties

-----------------------------------------------------------------------------
\* The invariant

\* What a step must leave alone for the windows to stay as they are.
LEMMA WindowsKept ==
  ASSUME Inv, UNCHANGED <<feed, pending, ids>>, stage' \in Stages,
         stage' = "collecting" => stage = "collecting", ClientTypeOK'
  PROVE  Inv'
BY DEF Inv, TypeOK, Unfinished, Covered, Entries, Inside

LEMMA CollectWindowSafe ==
  ASSUME Inv, CollectWindow
  PROVE  Inv'
<1> DEFINE run == [since |-> Start, before |-> End]
<1>1. TypeOK /\ Unfinished /\ stage = "collecting"
  BY DEF Inv, CollectWindow
<1>2. ClientTypeOK'
  BY <1>1, ReturnTyped, WindowAssumption DEF CollectWindow, TypeOK
<1>3. /\ feed' = feed
      /\ ids' = ids \cup Entries(Head(pending))
      /\ pending' = Tail(pending)
      /\ stage' = IF Tail(pending) = << >> THEN "songs" ELSE stage
  BY DEF CollectWindow
<1>4. ids' \subseteq Start..End
  BY <1>1, <1>3, EntriesDated DEF TypeOK
<1>5. TypeOK'
  BY <1>1, <1>2, <1>3, <1>4, HeadInWindow DEF TypeOK, Stages
<1>6. Unfinished'
  BY <1>3 DEF Unfinished
<1>7. ASSUME NEW t \in Entries(run)
      PROVE  t \in ids' \/ \E i \in DOMAIN pending' : t \in Inside(pending'[i])
  <2>1. CASE t \in ids
    BY <1>3, <2>1
  <2>2. CASE \E i \in DOMAIN pending : t \in Inside(pending[i])
    <3>1. PICK i \in 1..Len(pending) : t \in Inside(pending[i])
      BY <1>1, <2>2, HeadInWindow
    <3>2. CASE i = 1
      BY <1>1, <1>3, <1>7, <3>1, <3>2, HeadInWindow DEF Entries
    <3>3. CASE i # 1
      <4>1. i - 1 \in 1..Len(Tail(pending)) /\ Tail(pending)[i - 1] = pending[i]
        BY <1>1, <3>3, HeadInWindow
      <4>2. QED
        BY <1>1, <1>3, <3>1, <4>1, HeadInWindow
    <3>4. QED
      BY <3>2, <3>3
  <2>3. QED
    BY <1>7, <2>1, <2>2 DEF Inv, Covered
<1>8. Covered'
  BY <1>3, <1>7 DEF Covered, Entries, Inside
<1>9. QED
  BY <1>5, <1>6, <1>8 DEF Inv

LEMMA SplitWindowSafe ==
  ASSUME Inv, SplitWindow
  PROVE  Inv'
<1> DEFINE run == [since |-> Start, before |-> End]
           halves == Halves(Head(pending))
           rest == Tail(pending)
<1>1. TypeOK /\ Unfinished /\ stage = "collecting"
  BY DEF Inv, SplitWindow
<1>2. ClientTypeOK'
  BY <1>1, ReturnTyped, WindowAssumption DEF SplitWindow, TypeOK
<1>3. pending' = halves \o rest /\ UNCHANGED <<feed, ids, stage>>
  BY DEF SplitWindow
<1>4. /\ halves \in Seq(Window) /\ Len(halves) = 2
      /\ Inside(Head(pending)) \subseteq Inside(halves[1]) \cup Inside(halves[2])
  BY <1>1, HeadInWindow, HalvesCover DEF SplitWindow
<1>5. rest \in Seq(Window) /\ Len(rest) = Len(pending) - 1 /\ Len(pending) \in Nat
  BY <1>1, HeadInWindow
<1>6. /\ pending' \in Seq(Window)
      /\ DOMAIN pending' = 1..(2 + Len(rest))
      /\ pending'[1] = halves[1] /\ pending'[2] = halves[2]
      /\ \A i \in 1..Len(rest) : pending'[i + 2] = rest[i]
  <2> HIDE DEF halves, rest
  <2>1. Len(rest) \in Nat
    BY <1>5, LenProperties
  <2>. halves \in Seq(Window) /\ Len(halves) = 2 /\ rest \in Seq(Window)
    BY <1>4, <1>5
  <2>a. /\ halves \o rest \in Seq(Window)
        /\ Len(halves \o rest) = Len(halves) + Len(rest)
        /\ \A i \in 1..Len(halves) + Len(rest) : (halves \o rest)[i] =
             IF i <= Len(halves) THEN halves[i] ELSE rest[i - Len(halves)]
    BY ConcatProperties
  <2>2. /\ halves \o rest \in Seq(Window)
        /\ Len(halves \o rest) = 2 + Len(rest)
        /\ \A i \in 1..(2 + Len(rest)) : (halves \o rest)[i] =
             IF i <= 2 THEN halves[i] ELSE rest[i - 2]
    BY <2>a
  <2>3. DOMAIN (halves \o rest) = 1..(2 + Len(rest))
    BY <2>2, LenProperties
  <2>4. (halves \o rest)[1] = halves[1] /\ (halves \o rest)[2] = halves[2]
    BY <2>1, <2>2
  <2>5. ASSUME NEW i \in 1..Len(rest)
        PROVE  (halves \o rest)[i + 2] = rest[i]
    <3>1. i + 2 \in 1..(2 + Len(rest)) /\ ~(i + 2 <= 2) /\ i + 2 - 2 = i
      BY <2>1
    <3>2. QED
      BY <2>2, <3>1
  <2>6. QED
    BY <1>3, <2>2, <2>3, <2>4, <2>5
<1> HIDE DEF halves, rest
<1>7. TypeOK'
  BY <1>1, <1>2, <1>3, <1>6 DEF TypeOK
<1>8. Unfinished'
  <2>1. 1 \in DOMAIN pending'
    BY <1>5, <1>6
  <2>2. QED
    BY <2>1 DEF Unfinished
<1>9. ASSUME NEW t \in Entries(run)
      PROVE  t \in ids' \/ \E i \in DOMAIN pending' : t \in Inside(pending'[i])
  <2>1. CASE t \in ids
    BY <1>3, <2>1
  <2>2. CASE \E i \in DOMAIN pending : t \in Inside(pending[i])
    <3>1. PICK i \in 1..Len(pending) : t \in Inside(pending[i])
      BY <1>1, <2>2, HeadInWindow
    <3>2. CASE i = 1
      <4>1. t \in Inside(halves[1]) \/ t \in Inside(halves[2])
        BY <1>1, <1>4, <3>1, <3>2, HeadInWindow
      <4>2. 1 \in DOMAIN pending' /\ 2 \in DOMAIN pending'
        BY <1>5, <1>6
      <4>3. QED
        BY <1>6, <4>1, <4>2
    <3>3. CASE i # 1
      <4>1. i - 1 \in 1..Len(rest) /\ rest[i - 1] = pending[i]
        BY <1>1, <1>5, <3>3, HeadInWindow DEF rest
      <4>2. i + 1 \in DOMAIN pending' /\ pending'[i + 1] = pending[i]
        <5>1. (i - 1) + 2 = i + 1
          OBVIOUS
        <5>2. QED
          BY <1>5, <1>6, <4>1, <5>1
      <4>3. QED
        BY <3>1, <4>2
    <3>4. QED
      BY <3>2, <3>3
  <2>3. QED
    BY <1>9, <2>1, <2>2 DEF Inv, Covered
<1>10. Covered'
  BY <1>3, <1>9 DEF Covered, Entries, Inside
<1>11. QED
  BY <1>7, <1>8, <1>10 DEF Inv

LEMMA InvInit == Init => Inv
<1> SUFFICES ASSUME Init PROVE Inv
  OBVIOUS
<1> DEFINE run == [since |-> Start, before |-> End]
<1>1. ClientTypeOK
  BY CallsTyped DEF Init, ClientInit, ClientTypeOK
<1>2. run \in Window
  BY WindowAssumption DEF Window
<1>3. pending = <<run>> /\ pending \in Seq(Window) /\ pending # << >>
  BY <1>2 DEF Init
<1>4. feed \in [Start + 1 .. End - 1 -> 0..MaxResults]
  BY WindowAssumption DEF Init
<1>5. TypeOK
  BY <1>1, <1>3, <1>4 DEF Init, TypeOK, Stages
<1>6. Covered
  <2>1. 1 \in DOMAIN pending /\ pending[1] = run
    BY <1>3
  <2>2. QED
    BY <2>1 DEF Covered, Entries
<1>7. QED
  BY <1>3, <1>5, <1>6 DEF Inv, Unfinished

LEMMA InvNext == Inv /\ [Next]_vars => Inv'
<1> SUFFICES ASSUME Inv, [Next]_vars PROVE Inv'
  OBVIOUS
<1>1. ClientTypeOK /\ stage \in Stages /\ Collector \in Lanes
  BY WindowAssumption DEF Inv, TypeOK
<1>2. CASE AskForWindow
  BY <1>1, <1>2, AskTyped, WindowsKept DEF AskForWindow, windowVars
<1>3. CASE CollectWindow
  BY <1>3, CollectWindowSafe
<1>4. CASE SplitWindow
  BY <1>4, SplitWindowSafe
<1>5. CASE Saturate
  BY <1>1, <1>5, ReturnTyped, WindowsKept DEF Saturate, Stages
<1>6. CASE FailCollection
  BY <1>1, <1>6, ReturnTyped, WindowsKept DEF FailCollection, Stages
<1>7. ASSUME NEW l \in Lanes, AskForSong(l) PROVE Inv'
  BY <1>1, <1>7, AskTyped, WindowsKept DEF AskForSong, windowVars
<1>8. ASSUME NEW l \in Lanes, TakeSong(l) PROVE Inv'
  BY <1>1, <1>8, ReturnTyped, WindowsKept DEF TakeSong, windowVars
<1>9. ASSUME NEW l \in Lanes, Attempt(l), UNCHANGED windowVars PROVE Inv'
  BY <1>1, <1>9, AttemptTyped, WindowsKept DEF windowVars
<1>10. CASE (Cancel \/ Tick) /\ UNCHANGED windowVars
  BY <1>1, <1>10, ProcessTyped, WindowsKept DEF windowVars
<1>11. CASE UNCHANGED vars
  BY <1>1, <1>11, WindowsKept DEF vars, ClientTypeOK
<1>12. QED
  BY <1>2, <1>3, <1>4, <1>5, <1>6, <1>7, <1>8, <1>9, <1>10, <1>11 DEF Next, CollectorStep

LEMMA Invariance == Spec => []Inv
BY InvInit, InvNext, PTL DEF Spec

\* Type correctness of client and collection.
THEOREM TypeCorrect == Spec => []TypeOK
<1>1. Inv => TypeOK
  BY DEF Inv
<1>2. QED
  BY <1>1, Invariance, PTL

\* Bisection loses no entry of the window, for every window, slice, feed and
\* answer size, whatever happens to the requests (collectActivityIds).
THEOREM NothingMissed == Spec => []Covered
<1>1. Inv => Covered
  BY DEF Inv
<1>2. QED
  BY <1>1, Invariance, PTL

-----------------------------------------------------------------------------
(***************************************************************************)
(* Why the collection gives up                                             *)
(***************************************************************************)
Numbered(w) == UNION {{t} \X (1..feed[t]) : t \in Inside(w)}

\* A window of the run has finitely many entries.
LEMMA EntriesCounted ==
  ASSUME TypeOK, NEW w
  PROVE  IsFiniteSet(Numbered(w)) /\ Cardinality(Numbered(w)) \in Nat
<1> DEFINE times == Start + 1 .. End - 1
           all == times \X (1..MaxResults)
<1>1. IsFiniteSet(times) /\ IsFiniteSet(1..MaxResults)
  <2>1. /\ Start + 1 \in Int /\ End - 1 \in Int /\ 1 \in Int /\ MaxResults \in Int
    BY WindowAssumption
  <2>2. QED BY <2>1, FS_Interval
<1>2. IsFiniteSet(all)
  <2> HIDE DEF times
  <2>1. QED BY <1>1, FS_Product
<1>3. ASSUME NEW e \in Numbered(w)
      PROVE  e \in all
  <2>1. PICK t \in Inside(w) : e \in {t} \X (1..feed[t])
    BY DEF Numbered
  <2>2. t \in times /\ feed[t] \in 0..MaxResults
    BY DEF Inside, TypeOK
  <2>3. 1..feed[t] \subseteq 1..MaxResults
    BY <2>2, WindowAssumption
  <2> HIDE DEF times
  <2>4. QED BY <2>1, <2>2, <2>3
<1> HIDE DEF all
<1>4. Numbered(w) \in SUBSET all
  BY <1>3
<1>5. IsFiniteSet(Numbered(w))
  BY <1>2, <1>4, FS_Subset
<1>6. QED BY <1>5, FS_CardinalityType

\* A window around a full one is full.
LEMMA FullGrows ==
  ASSUME TypeOK, NEW v, NEW w, Inside(v) \subseteq Inside(w), Full(v)
  PROVE  Full(w)
<1>1. Numbered(v) \in SUBSET Numbered(w)
  BY DEF Numbered
<1>2. Cardinality(Numbered(v)) <= Cardinality(Numbered(w))
  BY <1>1, EntriesCounted, FS_Subset
<1>3. Cardinality(Numbered(v)) \in Nat /\ Cardinality(Numbered(w)) \in Nat
  BY EntriesCounted
<1>4. Cardinality(Numbered(v)) >= MaxResults
  BY DEF Full, Size, Numbered
<1>5. Cardinality(Numbered(w)) >= MaxResults
  BY <1>2, <1>3, <1>4, WindowAssumption
<1>6. QED BY <1>5 DEF Full, Size, Numbered

\* A window that cannot be halved is at most two slices and an instant long.
LEMMA UnsplittableIsShort ==
  ASSUME NEW w \in Window, ~Splits(w)
  PROVE  w.before <= w.since + 2 * Slice + 1
<1>1. PICK a \in Nat, b \in Nat : a = w.since /\ b = w.before
  BY DEF Window
<1>2. Slice \in Nat /\ Slice > 0
  BY WindowAssumption
<1>3. SUFFICES ASSUME b > a + 2 * Slice + 1
               PROVE  FALSE
  BY <1>1, <1>2
<1>4. PICK h \in Nat : /\ h = (b - a) \div 2
                       /\ b - a = 2 * h \/ b - a = 2 * h + 1
  BY <1>2, <1>3
<1>5. h > Slice /\ h < b - a
  BY <1>2, <1>3, <1>4
<1>6. Midpoint(w) = a + h /\ RightSince(w) = (a + h) - Slice
  <2>1. Midpoint(w) = a + ((b - a) \div 2)
    BY <1>1 DEF Midpoint
  <2>2. Midpoint(w) = a + h
    BY <1>4, <2>1
  <2>3. QED BY <2>2 DEF RightSince
<1>7. QED BY <1>1, <1>2, <1>3, <1>5, <1>6 DEF Splits

\* No half leaves the window of the run.
WindowsWithin == \A i \in DOMAIN pending : /\ pending[i].since \in Start..End
                                           /\ pending[i].before \in Start..End

\* No step asks for a window outside the run's.
LEMMA WithinNext ==
  ASSUME Inv, WindowsWithin, [Next]_vars
  PROVE  WindowsWithin'
<1>1. TypeOK /\ Unfinished
  BY DEF Inv
<1>2. CASE UNCHANGED pending
  BY <1>2 DEF WindowsWithin
<1>3. CASE CollectWindow
  <2>1. /\ pending' = Tail(pending)
        /\ \A i \in 1..Len(Tail(pending)) : Tail(pending)[i] = pending[i + 1]
        /\ DOMAIN pending = 1..Len(pending)
        /\ DOMAIN Tail(pending) = 1..Len(Tail(pending))
        /\ Len(Tail(pending)) = Len(pending) - 1 /\ Len(pending) \in Nat
    BY <1>1, <1>3, HeadInWindow DEF CollectWindow
  <2>2. QED BY <2>1 DEF WindowsWithin
<1>4. CASE SplitWindow
  <2> DEFINE w == Head(pending)
             halves == Halves(w)
             rest == Tail(pending)
  <2>1. stage = "collecting" /\ pending' = halves \o rest /\ Splits(w)
    BY <1>4 DEF SplitWindow
  <2>2. /\ w \in Window /\ w = pending[1] /\ pending # << >>
        /\ rest \in Seq(Window) /\ Len(rest) = Len(pending) - 1 /\ Len(pending) \in Nat
        /\ DOMAIN pending = 1..Len(pending)
        /\ \A i \in 1..Len(rest) : rest[i] = pending[i + 1]
    BY <1>1, <2>1, HeadInWindow
  <2>3. halves \in Seq(Window) /\ Len(halves) = 2
    BY <1>1, <2>1, <2>2, HalvesCover
  <2>4. 1 \in DOMAIN pending
    BY <1>1, <2>2 DEF TypeOK
  <2>5. PICK a \in Nat, b \in Nat :
          a = w.since /\ b = w.before /\ a \in Start..End /\ b \in Start..End
    BY <2>2, <2>4 DEF Window, WindowsWithin
  <2>6. /\ Midpoint(w) \in Int /\ a < Midpoint(w) /\ Midpoint(w) < b
        /\ RightSince(w) \in Int /\ a < RightSince(w) /\ RightSince(w) < b
    <3> HIDE DEF w
    <3>1. (b - a) \div 2 \in Int /\ Slice \in Nat
      BY WindowAssumption
    <3>2. Midpoint(w) = a + ((b - a) \div 2)
      BY <2>5 DEF Midpoint
    <3>3. Midpoint(w) \in Int
      BY <3>1, <3>2
    <3>4. RightSince(w) \in Int
      BY <3>1, <3>3 DEF RightSince
    <3>5. QED BY <2>1, <2>5, <3>3, <3>4 DEF Splits
  <2>7. Midpoint(w) \in Start..End /\ RightSince(w) \in Start..End
    BY <2>5, <2>6, WindowAssumption
  <2>8. \A i \in 1..2 : halves[i].since \in Start..End /\ halves[i].before \in Start..End
    BY <2>5, <2>7 DEF Halves
  <2>9. /\ halves \o rest \in Seq(Window)
        /\ Len(halves \o rest) = Len(halves) + Len(rest)
        /\ \A i \in 1..Len(halves) + Len(rest) : (halves \o rest)[i] =
             IF i <= Len(halves) THEN halves[i] ELSE rest[i - Len(halves)]
    <3> HIDE DEF halves, rest
    <3>1. QED BY <2>2, <2>3, ConcatProperties
  <2> HIDE DEF halves, rest, w
  <2>10. Len(rest) \in Nat
    BY <2>2, LenProperties
  <2>11. DOMAIN pending' = 1..(2 + Len(rest))
    BY <2>1, <2>3, <2>9, LenProperties
  <2>12. ASSUME NEW i \in 1..(2 + Len(rest))
         PROVE  pending'[i].since \in Start..End /\ pending'[i].before \in Start..End
    <3>1. CASE i <= 2
      <4>1. pending'[i] = halves[i] /\ i \in 1..2
        BY <2>1, <2>3, <2>9, <2>10, <3>1
      <4>2. QED BY <2>8, <4>1
    <3>2. CASE ~(i <= 2)
      <4>1. pending'[i] = rest[i - 2] /\ i - 2 \in 1..Len(rest)
        BY <2>1, <2>3, <2>9, <2>10, <3>2
      <4>2. pending'[i] = pending[i - 2 + 1] /\ i - 2 + 1 \in DOMAIN pending
        BY <2>2, <4>1
      <4>3. QED BY <4>2 DEF WindowsWithin
    <3>3. QED BY <3>1, <3>2
  <2>13. QED BY <2>11, <2>12 DEF WindowsWithin
<1>5. QED
  BY <1>2, <1>3, <1>4 DEF Next, CollectorStep, AskForWindow, Saturate, FailCollection,
                          AskForSong, TakeSong, windowVars, vars

\* A full answer of a window that cannot be split proves a dense instant.
LEMMA SaturateIsDense ==
  ASSUME Inv, WindowsWithin, Saturate
  PROVE  SaturatedMeansDense'
<1> DEFINE w == Head(pending)
           dense == [since |-> w.since, before |-> w.since + 2 * Slice + 1]
<1>1. TypeOK /\ Unfinished /\ stage = "collecting" /\ Full(w) /\ ~Splits(w)
  BY DEF Inv, Saturate
<1>2. w \in Window /\ w = pending[1] /\ 1 \in DOMAIN pending
  <2>1. w \in Window /\ w = pending[1] /\ pending # << >> /\ pending \in Seq(Window)
    BY <1>1, HeadInWindow DEF TypeOK
  <2> HIDE DEF w
  <2>2. QED BY <2>1
<1>3. PICK s \in Start..End : s = w.since
  BY <1>2 DEF WindowsWithin
<1>4. w.before <= w.since + 2 * Slice + 1
  BY <1>1, <1>2, UnsplittableIsShort
<1>5. Inside(w) \subseteq Inside(dense)
  <2>1. ASSUME NEW t \in Inside(w)
        PROVE  t \in Inside(dense)
    <3>1. t \in DOMAIN feed /\ t \in Int /\ w.since < t /\ t < w.before
      BY <1>1, WindowAssumption DEF Inside, TypeOK
    <3>2. w.since \in Nat /\ w.before \in Nat /\ Slice \in Nat
      BY <1>2, WindowAssumption DEF Window
    <3> HIDE DEF w
    <3>3. t < w.since + 2 * Slice + 1
      BY <1>4, <3>1, <3>2
    <3>4. QED BY <3>1, <3>3 DEF Inside
  <2>2. QED BY <2>1
<1>6. Full(dense)
  BY <1>1, <1>5, FullGrows
<1>7. feed' = feed
  BY DEF Saturate
<1>8. Full([since |-> s, before |-> s + 2 * Slice + 1])'
  <2>1. Full([since |-> s, before |-> s + 2 * Slice + 1])
    BY <1>3, <1>6
  <2>2. QED BY <1>7, <2>1 DEF Full, Size, Inside
<1>9. QED BY <1>3, <1>8 DEF SaturatedMeansDense

\* The collection gives up only on a feed too dense for it: whatever the window,
\* the slice and the requests' fate, there is a stretch of two slices with as many
\* entries as an answer can hold (ActivityIntervalSaturatedError).
THEOREM GivesUpOnlyWhereDense == Spec => []SaturatedMeansDense
<1>1. Init => WindowsWithin /\ SaturatedMeansDense
  <2>1. SUFFICES ASSUME Init PROVE WindowsWithin /\ SaturatedMeansDense
    OBVIOUS
  <2>2. /\ pending = <<[since |-> Start, before |-> End]>> /\ stage = "collecting"
    BY <2>1 DEF Init
  <2>3. Start \in Start..End /\ End \in Start..End
    <3>1. Start \in Nat /\ End \in Nat /\ Start < End
      BY WindowAssumption
    <3>2. QED BY <3>1
  <2>4. QED BY <2>2, <2>3 DEF WindowsWithin, SaturatedMeansDense
<1>2. ASSUME Inv, WindowsWithin, SaturatedMeansDense, [Next]_vars
      PROVE  WindowsWithin' /\ SaturatedMeansDense'
  <2>1. CASE Saturate
    BY <1>2, <2>1, SaturateIsDense, WithinNext
  <2>2. CASE UNCHANGED <<feed, stage>>
    <3>1. SaturatedMeansDense'
      BY <1>2, <2>2 DEF SaturatedMeansDense, Full, Size, Inside
    <3>2. QED BY <1>2, <3>1, WithinNext
  <2>3. CASE stage' # "SATURATED"
    BY <1>2, <2>3, WithinNext DEF SaturatedMeansDense
  <2>4. QED
    BY <1>2, <2>1, <2>2, <2>3
       DEF Next, CollectorStep, AskForWindow, CollectWindow, SplitWindow, FailCollection,
           AskForSong, TakeSong, windowVars, vars
<1>3. QED BY <1>1, <1>2, Invariance, PTL DEF Spec

=============================================================================
