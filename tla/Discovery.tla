----------------------------- MODULE Discovery -----------------------------
(***************************************************************************)
(* PublicIpClient::discover of src/public_ip.rs for one address family: the *)
(* providers are asked in their order, and each may use an equal part of    *)
(* the time that is left of one timeout for all of them.  The caller drops  *)
(* the whole call at its own deadline (the end of the cycle, or of the      *)
(* check).                                                                  *)
(*                                                                          *)
(* Time is counted in the clock's units.  When an attempt is over the task  *)
(* may be scheduled late; `lag' is the sum of these delays.                 *)
(***************************************************************************)
EXTENDS Integers

CONSTANTS
  P,            \* number of providers
  Timeout,      \* request_timeout_seconds, in clock units
  MaxDelay,     \* bound on a provider's time to answer
  MaxCutoff,    \* bound on the caller's deadline
  MaxLag        \* bound on the sum of the scheduling delays

ASSUME DiscoveryAssumption ==
  /\ P \in Nat \ {0}
  /\ Timeout \in Nat \ {0}
  /\ MaxDelay \in Nat
  /\ MaxCutoff \in Nat
  /\ MaxLag \in Nat

Provider == 1..P

VARIABLES
  delay,        \* delay[i]: when provider i would answer, after being asked
  good,         \* good[i]: its answer passes query_provider
  cutoff,       \* the caller's deadline, after the start of the call
  index,        \* the provider to ask next
  elapsed,      \* time since the start of the call
  lag,
  result        \* "trying", or how the call ended

vars == <<delay, good, cutoff, index, elapsed, lag, result>>

Result == {"trying", "found", "all_failed", "deadline", "cancelled"}

Init ==
  /\ delay \in [Provider -> 0..MaxDelay]
  /\ good \in [Provider -> BOOLEAN]
  /\ cutoff \in 1..MaxCutoff
  /\ index = 1
  /\ elapsed = 0
  /\ lag = 0
  /\ result = "trying"

\* timeout.saturating_sub(started.elapsed())
Remaining == IF elapsed < Timeout THEN Timeout - elapsed ELSE 0

\* Mutant of AttemptTimeout: every provider may use all the time that is left.
GreedyAttemptTimeout == Remaining

\* Mutant of AttemptTimeout: every provider gets a timeout of its own.
FreshAttemptTimeout == Timeout

\* What the next provider may use: remaining / providers_left.
AttemptTimeout == Remaining \div (P - index + 1)

\* The attempt took t, and the task came back l later: the caller's deadline
\* may have passed meanwhile, otherwise the call ends with res or goes on.
Spend(t, l, res, i) ==
  /\ lag + l <= MaxLag
  /\ elapsed' = elapsed + t + l
  /\ lag' = lag + l
  /\ \/ /\ elapsed' <= cutoff
        /\ result' = res
        /\ index' = i
     \/ /\ elapsed' >= cutoff
        /\ result' = "cancelled"
        /\ index' = index
  /\ UNCHANGED <<delay, good, cutoff>>

\* The provider answers in time, with a usable address or not.
Answered ==
  /\ result = "trying"
  /\ index <= P
  /\ AttemptTimeout > 0
  /\ delay[index] <= AttemptTimeout
  /\ \E l \in 0..MaxLag :
       IF good[index] THEN Spend(delay[index], l, "found", index)
                      ELSE Spend(delay[index], l, "trying", index + 1)

\* Mutant of TimedOut: the provider after a hanging one is skipped.
SkippingTimedOut ==
  /\ result = "trying"
  /\ index <= P
  /\ AttemptTimeout > 0
  /\ delay[index] >= AttemptTimeout
  /\ \E l \in 0..MaxLag : Spend(AttemptTimeout, l, "trying", index + 2)

\* The provider does not answer in time.
TimedOut ==
  /\ result = "trying"
  /\ index <= P
  /\ AttemptTimeout > 0
  /\ delay[index] >= AttemptTimeout
  /\ \E l \in 0..MaxLag : Spend(AttemptTimeout, l, "trying", index + 1)

\* DeadlineExceeded: no time is left for the next provider.
OutOfTime ==
  /\ result = "trying"
  /\ index <= P
  /\ AttemptTimeout = 0
  /\ result' = "deadline"
  /\ UNCHANGED <<delay, good, cutoff, index, elapsed, lag>>

\* AllProvidersFailed.
AllFailed ==
  /\ result = "trying"
  /\ index > P
  /\ result' = "all_failed"
  /\ UNCHANGED <<delay, good, cutoff, index, elapsed, lag>>

Next == Answered \/ TimedOut \/ OutOfTime \/ AllFailed

Spec == Init /\ [][Next]_vars
-----------------------------------------------------------------------------
(* Properties *)

\* Every variable has its type.
TypeOK ==
  /\ delay \in [Provider -> Nat]
  /\ good \in [Provider -> BOOLEAN]
  /\ cutoff \in Nat
  /\ index \in 1..(P + 1)
  /\ elapsed \in Nat
  /\ lag \in 0..MaxLag
  /\ result \in Result

\* The part of the timeout every provider can count on.
Share == Timeout \div P

\* A provider that would give a usable answer within its share.
Fast(i) == good[i] /\ delay[i] < Share - lag

\* The call takes no longer than its timeout (and the scheduler), however many
\* providers there are; so the caller's deadline cuts it off only when that is
\* shorter than the timeout.
Timely ==
  /\ elapsed <= Timeout + lag
  /\ result = "cancelled" => cutoff <= Timeout + lag

\* Providers before it cannot starve a provider: one that gives a usable answer
\* within its share is never passed over, so the call does not fail while there
\* is one, no matter how long the others hang.  And the call gives up with
\* providers left to ask, also when time is left but their shares of it are
\* rounded to zero, only if the scheduler has taken as much as a whole share.
FastProviderWins ==
  /\ \A i \in 1..(index - 1) : ~Fast(i)
  /\ result \in {"all_failed", "deadline"} => \A i \in Provider : ~Fast(i)
  /\ result = "deadline" => lag >= Share
  /\ result = "found" => good[index]
=============================================================================
