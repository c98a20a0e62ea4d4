------------------------------- MODULE Retry -------------------------------
(***************************************************************************)
(* When the daemon starts its next cycle: retry_delay and calculate_backoff  *)
(* of src/daemon.rs, and the failures of a cycle they depend on              *)
(* (CycleReport in src/updater.rs).  One run of the process; what a cycle    *)
(* does to the records is the subject of Sync.                               *)
(***************************************************************************)
EXTENDS Integers

CONSTANTS
  Interval,       \* interval_seconds
  InitialBackoff, \* INITIAL_BACKOFF
  MaxBackoff,     \* MAX_BACKOFF
  MaxShift,       \* the cap on the exponent (31 in the code)
  MaxCount,       \* largest value of the failure counter (2^32 - 1 in the code)
  MaxRetryAfter,  \* MAX_RETRY_AFTER
  MaxAsked,       \* bound: the longest delay a server asks for
  MaxStreak       \* bound: the longest run of failed cycles that is counted

ASSUME RetryAssumption ==
  /\ Interval \in Nat \ {0}
  /\ InitialBackoff \in Nat \ {0}
  /\ MaxBackoff \in Nat \ {0}
  /\ MaxShift \in Nat
  /\ MaxCount \in Nat \ {0}
  /\ MaxRetryAfter \in Nat
  /\ MaxAsked \in Nat
  /\ MaxStreak \in Nat
  \* The counter, and what is counted, reach beyond the largest exponent.
  /\ MaxShift < MaxCount /\ MaxShift < MaxStreak

Kind == {"auth", "rate", "transient", "permanent"}

VARIABLES
  pc,          \* "cycle", "sleep" or "stopped"
  kinds,       \* the kinds of the failures reported by this cycle
  retryAfter,  \* the longest delay a server asked for in this cycle, or 0
  aborted,     \* the cycle does no more API work
  count,       \* consecutive_failures
  delay,       \* the sleep that remains
  hold,        \* history: how long the server still wants to be left alone
  streak       \* history: failed cycles since the last success

vars == <<pc, kinds, retryAfter, aborted, count, delay, hold, streak>>

Lower(a, b) == IF a < b THEN a ELSE b
Higher(a, b) == IF a < b THEN b ELSE a

Init ==
  /\ pc = "cycle"
  /\ kinds = {}
  /\ retryAfter = 0
  /\ aborted = FALSE
  /\ count = 0
  /\ delay = 0
  /\ hold = 0
  /\ streak = 0

-----------------------------------------------------------------------------
(* The delay before the next cycle *)

\* The exponential part of calculate_backoff, capped.
Capped(n) ==
  Lower(InitialBackoff * 2 ^ Lower(Higher(n - 1, 0), MaxShift), MaxBackoff)

\* Mutant of Backoff: the jitter may bring the delay down to nothing.
FullJitter(n, jitter) == (Capped(n) * (jitter - 50)) \div 100

\* calculate_backoff
Backoff(n, jitter) == Lower(Higher((Capped(n) * jitter) \div 100, 1), MaxBackoff)

\* The delay the kinds of the failures call for.
Policy(n, jitter) ==
  IF "auth" \in kinds THEN MaxBackoff
  ELSE IF kinds \cap {"rate", "transient"} # {} THEN Backoff(n, jitter)
  ELSE Interval

\* Mutant of RetryDelay: the server's wish matters for a rate limit only.
RateLimitOnly(n, jitter) ==
  IF "rate" \in kinds THEN Higher(Policy(n, jitter), retryAfter) ELSE Policy(n, jitter)

\* Mutant of RetryDelay: the server's wish is added to the backoff.
SummedDelay(n, jitter) == Policy(n, jitter) + retryAfter

\* retry_delay
RetryDelay(n, jitter) == Higher(Policy(n, jitter), retryAfter)

-----------------------------------------------------------------------------
(* The loop *)

\* Mutant of Fails: the last delay asked for counts, not the longest.
LastRetryAfter(kind, asked) ==
  /\ kinds' = kinds \cup {kind}
  /\ retryAfter' = Lower(asked, MaxRetryAfter)
  /\ aborted' = (kind \in {"auth", "rate"})
  /\ hold' = Higher(hold, Lower(asked, MaxRetryAfter))

\* A failure is added to the report (cloudflare_failure, parse_retry_after).
Fails(kind, asked) ==
  /\ kinds' = kinds \cup {kind}
  /\ retryAfter' = Higher(retryAfter, Lower(asked, MaxRetryAfter))
  /\ aborted' = (kind \in {"auth", "rate"})
  /\ hold' = Higher(hold, Lower(asked, MaxRetryAfter))

\* A request, or discovery, or the deadline fails.  The delay an answer asks for
\* is kept, except with a rejected token; that and a rate limit end the cycle's work.
RequestFails(kind, asked) ==
  /\ pc = "cycle"
  /\ ~aborted
  /\ kind = "auth" => asked = 0
  /\ Fails(kind, asked)
  /\ UNCHANGED <<pc, count, delay, streak>>

\* Time passes while the cycle waits for an answer.
Elapse ==
  /\ pc = "cycle"
  /\ hold > 0
  /\ hold' = hold - 1
  /\ UNCHANGED <<pc, kinds, retryAfter, aborted, count, delay, streak>>

\* Mutant of CountFailure: the counter wraps around.
WrappingCount(n) == (n + 1) % (MaxCount + 1)

\* consecutive_failures.saturating_add(1)
CountFailure(n) == Lower(n + 1, MaxCount)

\* Mutant of Succeed: the backoff is not reset.
NoReset ==
  /\ pc = "cycle"
  /\ kinds = {}
  /\ pc' = "sleep"
  /\ delay' = Interval
  /\ streak' = 0
  /\ UNCHANGED <<kinds, retryAfter, aborted, count, hold>>

\* A cycle without a failure.
Succeed ==
  /\ pc = "cycle"
  /\ kinds = {}
  /\ pc' = "sleep"
  /\ count' = 0
  /\ delay' = Interval
  /\ streak' = 0
  /\ UNCHANGED <<kinds, retryAfter, aborted, hold>>

\* What jitter_percent returns.
Jitter == 50..100

\* A cycle with failures.
Fail(jitter) ==
  /\ pc = "cycle"
  /\ kinds # {}
  /\ pc' = "sleep"
  /\ count' = CountFailure(count)
  /\ delay' = RetryDelay(count', jitter)
  /\ streak' = Lower(streak + 1, MaxStreak)
  /\ UNCHANGED <<kinds, retryAfter, aborted, hold>>

\* The sleep ends and the next cycle starts with an empty report.
Wake ==
  /\ pc = "sleep"
  /\ pc' = "cycle"
  /\ kinds' = {}
  /\ retryAfter' = 0
  /\ aborted' = FALSE
  /\ delay' = 0
  /\ hold' = Higher(hold - delay, 0)
  /\ UNCHANGED <<count, streak>>

\* SIGINT or SIGTERM, during the sleep or the cycle.
Shutdown ==
  /\ pc \in {"cycle", "sleep"}
  /\ pc' = "stopped"
  /\ UNCHANGED <<kinds, retryAfter, aborted, count, delay, hold, streak>>

Next ==
  \/ \E kind \in Kind, asked \in 0..MaxAsked : RequestFails(kind, asked)
  \/ Elapse
  \/ Succeed
  \/ \E jitter \in Jitter : Fail(jitter)
  \/ Wake
  \/ Shutdown

Spec == Init /\ [][Next]_vars

-----------------------------------------------------------------------------
(* Properties *)

\* The scheduler's state has the types the code gives it.  The counter saturates
\* instead of wrapping to zero, and no delay is longer than the longest of the
\* interval, the backoff cap and the cap on Retry-After.
TypeOK ==
  /\ pc \in {"cycle", "sleep", "stopped"}
  /\ kinds \subseteq Kind
  /\ retryAfter \in 0..MaxRetryAfter
  /\ aborted \in BOOLEAN
  /\ count \in 0..MaxCount
  /\ delay \in 0..Higher(Interval, Higher(MaxBackoff, MaxRetryAfter))
  /\ hold \in Nat
  /\ streak \in 0..MaxStreak

\* The daemon leaves the server alone for as long as it asked (up to the clamp):
\* when several requests of a cycle failed, with different delays, at different
\* times and for different reasons, the next cycle starts after all of them.
RetryAfterHonoured ==
  /\ pc = "sleep" => hold <= delay
  /\ pc = "cycle" /\ kinds = {} => hold = 0

\* The daemon never spins: between two cycles it sleeps, whatever the jitter and
\* the kind of the failures, so that a failing server is not flooded.
NeverSpins == pc = "sleep" => delay >= 1

\* Retries of an outage spread out and stay spread out: after enough failed cycles
\* in a row the delay is at least half of the cap, however long the outage lasts
\* (the counter and the shift do not overflow), and the first retry after a success
\* comes within the initial backoff.
BackoffFollowsOutage ==
  pc = "sleep" /\ retryAfter = 0 /\ "auth" \notin kinds
    /\ kinds \cap {"rate", "transient"} # {} =>
    /\ Capped(streak) = MaxBackoff => delay >= MaxBackoff \div 2
    /\ streak = 1 => delay <= Higher(InitialBackoff, 1)
=============================================================================
