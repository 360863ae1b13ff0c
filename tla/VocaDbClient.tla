----------------------------- MODULE VocaDbClient -----------------------------
(***************************************************************************)
(* The requests of one worker process to VocaDB: attempts with a timeout   *)
(* each, back-off between them, a cooldown all lanes of the process share, *)
(* and the signal that cancels them.                                       *)
(*                                                                         *)
(* Time is counted down: cooldown and left are what remains of a wait.     *)
(* The event loop runs whatever is due before time passes, and an answer   *)
(* takes at least a unit of time.                                          *)
(***************************************************************************)
EXTENDS Naturals

CONSTANTS
  Lanes,          \* concurrent callers
  MaxAttempts,    \* VOCADB_MAX_ATTEMPTS
  Timeout,        \* VOCADB_TIMEOUT_MS
  BaseDelay,      \* retryBaseDelayMs
  MaxRetryAfter   \* bound: the longest Retry-After

ASSUME ClientAssumption == /\ MaxAttempts \in Nat \ {0}
                           /\ Timeout \in Nat \ {0}
                           /\ BaseDelay \in Nat
                           /\ MaxRetryAfter \in Nat

VARIABLES
  call,       \* call[l]: the request l is waiting for
  cooldown,   \* processCooldownUntil - now
  cancelled   \* the abort signal

clientVars == <<call, cooldown, cancelled>>

-----------------------------------------------------------------------------
\* State

ErrorCodes == {"NOT_FOUND", "RATE_LIMITED", "CLIENT_ERROR", "SERVER_ERROR", "TIMEOUT",
               "CANCELLED", "NETWORK_ERROR", "INVALID_JSON", "VALIDATION_ERROR"}
Outcomes == {"none", "OK"} \cup ErrorCodes

\* Whether an error of this code is retryable; of the statuses that are client
\* errors, 408 and 425 are.
Retryable(code) ==
  CASE code \in {"RATE_LIMITED", "SERVER_ERROR", "TIMEOUT", "NETWORK_ERROR"} -> {TRUE}
    [] code = "CLIENT_ERROR" -> BOOLEAN
    [] OTHER -> {FALSE}

\* A call is about to make an attempt, asleep, waiting for VocaDB, or over.
Call == [pc : {"idle", "ready", "sleeping", "requesting", "settled"},
         attempt : 0..MaxAttempts, left : Nat, outcome : Outcomes]

NoCall == [pc |-> "idle", attempt |-> 0, left |-> 0, outcome |-> "none"]

ClientInit == /\ call = [l \in Lanes |-> NoCall]
              /\ cooldown = 0
              /\ cancelled = FALSE

Larger(m, n) == IF m >= n THEN m ELSE n

\* Math.round of the exponential delay with a quarter of jitter either way.
RetryDelays(attempt) ==
  LET delay == BaseDelay * 2 ^ (attempt - 1)
  IN  {d \in 0..(2 * delay) : 3 * delay <= 4 * d + 2 /\ 4 * d <= 5 * delay + 2}

-----------------------------------------------------------------------------
\* One attempt

Settles(l, outcome) ==
  call' = [call EXCEPT ![l] = [@ EXCEPT !.pc = "settled", !.outcome = outcome, !.left = 0]]

\* requestWithRetry is called.
Ask(l) ==
  /\ call[l].pc = "idle"
  /\ call' = [call EXCEPT ![l] = [NoCall EXCEPT !.pc = "ready", !.attempt = 1]]
  /\ UNCHANGED <<cooldown, cancelled>>

\* waitForCooldown
WaitForCooldown(l) ==
  /\ call[l].pc = "ready"
  /\ ~cancelled
  /\ cooldown > 0
  /\ call' = [call EXCEPT ![l] = [@ EXCEPT !.pc = "sleeping", !.left = cooldown]]
  /\ UNCHANGED <<cooldown, cancelled>>

\* fetch, with a timeout signal of its own
Send(l) ==
  /\ call[l].pc = "ready"
  /\ ~cancelled
  /\ cooldown = 0
  /\ call' = [call EXCEPT ![l] = [@ EXCEPT !.pc = "requesting", !.left = Timeout]]
  /\ UNCHANGED <<cooldown, cancelled>>

\* A sleep is over; the loop looks at signal and cooldown again.
Wake(l) ==
  /\ call[l].pc = "sleeping"
  /\ call[l].left = 0
  /\ call' = [call EXCEPT ![l].pc = "ready"]
  /\ UNCHANGED <<cooldown, cancelled>>

\* Mutant: a rate-limited attempt is not counted.
FailsForFree(l, code) == \E retryable \in Retryable(code) :
  IF ~retryable \/ (call[l].attempt = MaxAttempts /\ code # "RATE_LIMITED")
  THEN Settles(l, code)
  ELSE \E d \in RetryDelays(call[l].attempt) :
         call' = [call EXCEPT ![l] = [@ EXCEPT
           !.pc = "sleeping", !.left = Larger(d, cooldown'),
           !.attempt = IF code = "RATE_LIMITED" THEN @ ELSE @ + 1]]

\* Mutant: the last attempt is not the last.
FailsOneLate(l, code) == \E retryable \in Retryable(code) :
  IF ~retryable \/ call[l].attempt > MaxAttempts
  THEN Settles(l, code)
  ELSE \E d \in RetryDelays(call[l].attempt) :
         call' = [call EXCEPT ![l] = [@ EXCEPT
           !.pc = "sleeping", !.left = Larger(d, cooldown'), !.attempt = @ + 1]]

\* An attempt fails: the call is over, or sleeps before the next attempt.
Fails(l, code) == \E retryable \in Retryable(code) :
  IF ~retryable \/ call[l].attempt = MaxAttempts
  THEN Settles(l, code)
  ELSE \E d \in RetryDelays(call[l].attempt) :
         call' = [call EXCEPT ![l] = [@ EXCEPT
           !.pc = "sleeping", !.left = Larger(d, cooldown'),
           !.attempt = call[l].attempt + 1]]

\* The answer is on its way back for at least a unit of time.
Answerable(l) == call[l].pc = "requesting" /\ call[l].left < Timeout

\* A document that passes the schema.  An abort is noticed before it is returned.
Succeed(l) ==
  /\ Answerable(l)
  /\ ~cancelled
  /\ Settles(l, "OK")
  /\ UNCHANGED <<cooldown, cancelled>>

\* 404, another status, no connection, a body that is no JSON or fails the schema.
\* Only the status is looked at before the signal.
AnswerBadly(l) ==
  /\ Answerable(l)
  /\ UNCHANGED <<cooldown, cancelled>>
  /\ \E code \in {"NOT_FOUND", "CLIENT_ERROR", "SERVER_ERROR"}
                 \cup (IF cancelled THEN {}
                       ELSE {"NETWORK_ERROR", "INVALID_JSON", "VALIDATION_ERROR"}) :
       Fails(l, code)

\* 429, with a Retry-After that can be parsed or without.
LimitRate(l) ==
  /\ Answerable(l)
  /\ cooldown' \in {cooldown} \cup {Larger(cooldown, r) : r \in 0..MaxRetryAfter}
  /\ Fails(l, "RATE_LIMITED")
  /\ UNCHANGED cancelled

TimeOut(l) ==
  /\ call[l].pc = "requesting"
  /\ call[l].left = 0
  /\ ~cancelled
  /\ UNCHANGED <<cooldown, cancelled>>
  /\ Fails(l, "TIMEOUT")

\* Wherever the call is waiting, the signal ends it.
ObserveCancellation(l) ==
  /\ cancelled
  /\ call[l].pc \in {"ready", "sleeping", "requesting"}
  /\ Settles(l, "CANCELLED")
  /\ UNCHANGED <<cooldown, cancelled>>

\* The caller takes the outcome.
Return(l) ==
  /\ call[l].pc = "settled"
  /\ call' = [call EXCEPT ![l] = NoCall]
  /\ UNCHANGED <<cooldown, cancelled>>

-----------------------------------------------------------------------------
\* The process

\* SIGTERM or SIGINT.
Cancel ==
  /\ ~cancelled
  /\ cancelled' = TRUE
  /\ UNCHANGED <<call, cooldown>>

\* Something has to run before time passes.
Due == \E l \in Lanes :
  \/ call[l].pc \in {"ready", "settled"}
  \/ call[l].pc \in {"sleeping", "requesting"} /\ (call[l].left = 0 \/ cancelled)

Less(n) == IF n = 0 THEN 0 ELSE n - 1

Tick ==
  /\ ~Due
  /\ cooldown > 0 \/ \E l \in Lanes : call[l].left > 0
  /\ cooldown' = Less(cooldown)
  /\ call' = [l \in Lanes |-> [call[l] EXCEPT !.left = Less(@)]]
  /\ UNCHANGED cancelled

\* What a call does without its caller.
Attempt(l) ==
  \/ WaitForCooldown(l) \/ Send(l) \/ Wake(l) \/ Succeed(l) \/ AnswerBadly(l)
  \/ LimitRate(l) \/ TimeOut(l) \/ ObserveCancellation(l)

\* The event loop goes on and the clock runs; VocaDB need not answer.
ClientFairness ==
  /\ \A l \in Lanes : WF_clientVars(WaitForCooldown(l) \/ Send(l) \/ Wake(l)
                                    \/ TimeOut(l) \/ ObserveCancellation(l))
  /\ WF_clientVars(Tick)

-----------------------------------------------------------------------------
\* Properties

ClientTypeOK == /\ call \in [Lanes -> Call]
                /\ cooldown \in Nat
                /\ cancelled \in BOOLEAN

\* Every request ends with one outcome, whether VocaDB answers, limits the rate,
\* or says nothing: attempts are counted, timed out and never put off for ever
\* by the cooldowns that other lanes bring about (requestWithRetry).
EveryCallSettles ==
  \A l \in Lanes : call[l].pc # "idle" ~> call[l].pc \in {"settled", "idle"}

=============================================================================
