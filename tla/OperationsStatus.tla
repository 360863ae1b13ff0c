--------------------------- MODULE OperationsStatus ---------------------------
(***************************************************************************)
(* How /api/ops/status judges the synchronisation from one snapshot of the *)
(* database.  Times are ages: how long ago something happened, in ticks.   *)
(***************************************************************************)
EXTENDS Integers

CONSTANTS
  StaleAfter,     \* staleAfterMs, for the catalog's activity
  BeatStaleAfter  \* heartbeatStaleAfterMs

ASSUME StatusAssumption == {StaleAfter, BeatStaleAfter} \subseteq Nat \ {0}

Never == -1       \* the age of what never happened

Classification == {"UNSEEDED", "DEGRADED", "STALE", "READY"}

\* Mutant: a heartbeat that just expired is fresh.
HeartbeatStaleLate(age) == age = Never \/ age > BeatStaleAfter

IsHeartbeatStale(age) == age = Never \/ age >= BeatStaleAfter

MostRecent(ages) ==
  IF ages \subseteq {Never} THEN Never
  ELSE CHOOSE age \in ages \ {Never} : \A other \in ages \ {Never} : age <= other

\* The first test that applies decides.  evidence.heartbeats are those of the
\* RUNNING runs, evidence.terminal the last terminal status of each entity.
Classify(evidence) ==
  LET active == MostRecent({evidence.checkpoint, evidence.reconciled})
  IN  CASE evidence.seeded = Never -> "UNSEEDED"
        [] /\ evidence.seeded # Never
           /\ \/ evidence.ambiguous
              \/ evidence.refreshFailed
              \/ evidence.terminal \cap {"FAILED", "PARTIAL"} # {}
              \/ \E age \in evidence.heartbeats : IsHeartbeatStale(age) -> "DEGRADED"
        [] OTHER -> IF active = Never \/ active >= StaleAfter THEN "STALE" ELSE "READY"

=============================================================================
