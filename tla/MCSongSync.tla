----------------------------- MODULE MCSongSync -----------------------------
\* Instances of SongSync for TLC: the command lines its workers are given, and symmetry.
EXTENDS SongSync, TLC

\* Workers differ in nothing but the order in which they start.
Symmetry == Permutations(Workers)

Auto(mode) == [kind |-> "AUTO", mode |-> mode, ids |-> {}]
Ids(ids) == [kind |-> "NEW", mode |-> "IDS", ids |-> ids]
Resume == [kind |-> "RESUME", mode |-> "IDS", ids |-> {}]

\* The timers.
AllAuto == {Auto("SEED"), Auto("INCREMENTAL"), Auto("RECONCILE")}
\* Timers, and what an operator asks for that no timer does (of any one song).
TimersAndRepairs ==
  AllAuto \cup {Resume, Ids({CHOOSE s \in Songs : TRUE})}
\* Timers, and an operator who wants a full rebuild.
TimersAndRebuild ==
  {Auto("SEED"), Auto("INCREMENTAL"), [kind |-> "NEW", mode |-> "SEED", ids |-> {}]}
=============================================================================
