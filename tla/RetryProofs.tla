---------------------------- MODULE RetryProofs ----------------------------
(***************************************************************************)
(* Proofs about Retry, for every interval, backoff, cap and failure          *)
(* sequence.  The invariant of the runs speaks of the sleep; to carry it from *)
(* a failing request to the sleep, IInv follows the server's wish through the *)
(* cycle's report.                                                            *)
(***************************************************************************)
EXTENDS Retry, TLAPS

\* What the server still wants is never more than what the report has noted.
Noted == pc = "cycle" => hold <= retryAfter

\* An empty report notes nothing.
EmptyReport == kinds = {} => retryAfter = 0

\* The sleep covers what is left of it, and is not empty.
Covered == pc = "sleep" => hold <= delay /\ delay >= 1

IInv == TypeOK /\ Noted /\ EmptyReport /\ Covered

-----------------------------------------------------------------------------

\* calculate_backoff: the delay is between a second and the cap, whatever the
\* failure count and the jitter.
LEMMA BackoffBounded ==
  ASSUME NEW n \in Nat, NEW jitter \in Jitter
  PROVE  Backoff(n, jitter) \in 1..MaxBackoff
<1>1. Lower(Higher(n - 1, 0), MaxShift) \in Nat
  BY RetryAssumption DEF Lower, Higher
<1>2. 2 ^ Lower(Higher(n - 1, 0), MaxShift) \in Int
  BY <1>1
<1>3. InitialBackoff * 2 ^ Lower(Higher(n - 1, 0), MaxShift) \in Int
  BY <1>2, RetryAssumption
<1>4. Capped(n) \in Int
  BY <1>3, RetryAssumption DEF Capped, Lower
<1>5. (Capped(n) * jitter) \div 100 \in Int
  BY <1>4 DEF Jitter
<1> QED
  BY <1>5, RetryAssumption DEF Backoff, Lower, Higher

\* retry_delay: at least a second, at least what the server asked for, and at
\* most the longest of the three limits.
LEMMA DelayBounded ==
  ASSUME TypeOK, NEW n \in Nat, NEW jitter \in Jitter
  PROVE  /\ RetryDelay(n, jitter) \in 1..Higher(Interval, Higher(MaxBackoff, MaxRetryAfter))
         /\ retryAfter <= RetryDelay(n, jitter)
<1>1. Policy(n, jitter) \in 1..Higher(Interval, MaxBackoff)
  <2>1. Backoff(n, jitter) \in 1..MaxBackoff
    BY BackoffBounded
  <2>2. Policy(n, jitter) \in {MaxBackoff, Backoff(n, jitter), Interval}
    BY DEF Policy
  <2> QED
    BY <2>1, <2>2, RetryAssumption DEF Higher
<1>2. retryAfter \in 0..MaxRetryAfter
  BY DEF TypeOK
<1> QED
  BY <1>1, <1>2, RetryAssumption DEF RetryDelay, Higher

\* The inductive invariant holds at first.
LEMMA InitIInv == Init => IInv
<1> SUFFICES ASSUME Init PROVE IInv
  OBVIOUS
<1>1. 0 \in 0..Higher(Interval, Higher(MaxBackoff, MaxRetryAfter))
  BY RetryAssumption DEF Higher
<1>2. aborted \in BOOLEAN /\ kinds \subseteq Kind
  BY DEF Init
<1>3. retryAfter \in 0..MaxRetryAfter /\ count \in 0..MaxCount /\ streak \in 0..MaxStreak
  BY RetryAssumption DEF Init
<1>4. TypeOK
  BY <1>1, <1>2, <1>3 DEF Init, TypeOK
<1> QED
  BY <1>4 DEF Init, IInv, Noted, EmptyReport, Covered

\* A failed request preserves the inductive invariant.
LEMMA RequestFailsIInv ==
  ASSUME IInv, NEW kind \in Kind, NEW asked \in 0..MaxAsked, RequestFails(kind, asked)
  PROVE  IInv'
<1>1. Lower(asked, MaxRetryAfter) \in 0..MaxRetryAfter
  BY RetryAssumption DEF Lower
<1>2. TypeOK'
  BY <1>1, RetryAssumption DEF IInv, TypeOK, RequestFails, Fails, Higher, Kind
<1>3. Noted'
  BY <1>1, RetryAssumption DEF IInv, TypeOK, Noted, RequestFails, Fails, Higher
<1>4. EmptyReport' /\ Covered'
  BY DEF EmptyReport, Covered, RequestFails, Fails
<1> QED
  BY <1>2, <1>3, <1>4 DEF IInv

\* A failed cycle preserves the inductive invariant.
LEMMA FailIInv ==
  ASSUME IInv, NEW jitter \in Jitter, Fail(jitter)
  PROVE  IInv'
<1>1. count' \in 0..MaxCount
  BY RetryAssumption DEF IInv, TypeOK, Fail, CountFailure, Lower
<1>2. /\ delay' \in 1..Higher(Interval, Higher(MaxBackoff, MaxRetryAfter))
      /\ retryAfter <= delay'
  <2>1. count' \in Nat /\ delay' = RetryDelay(count', jitter)
    BY <1>1, RetryAssumption DEF Fail
  <2> QED
    BY <2>1, DelayBounded DEF IInv
<1>3. TypeOK'
  <2>1. streak' \in 0..MaxStreak
    BY RetryAssumption DEF IInv, TypeOK, Fail, Lower
  <2>2. delay' \in 0..Higher(Interval, Higher(MaxBackoff, MaxRetryAfter))
    BY <1>2, RetryAssumption DEF Higher
  <2> QED
    BY <1>1, <2>1, <2>2 DEF IInv, TypeOK, Fail
<1>4. Covered'
  BY <1>2, RetryAssumption DEF IInv, TypeOK, Noted, Covered, Fail, Higher
<1>5. Noted' /\ EmptyReport'
  BY DEF IInv, Noted, EmptyReport, Fail
<1> QED
  BY <1>3, <1>4, <1>5 DEF IInv

\* Every step preserves the inductive invariant.
LEMMA NextIInv == IInv /\ [Next]_vars => IInv'
<1> SUFFICES ASSUME IInv, [Next]_vars PROVE IInv'
  OBVIOUS
<1>1. ASSUME NEW kind \in Kind, NEW asked \in 0..MaxAsked, RequestFails(kind, asked)
      PROVE  IInv'
  BY <1>1, RequestFailsIInv
<1>2. CASE Elapse
  BY <1>2 DEF IInv, TypeOK, Noted, EmptyReport, Covered, Elapse
<1>3. CASE Succeed
  <2>1. TypeOK'
    BY <1>3, RetryAssumption DEF IInv, TypeOK, Succeed, Higher
  <2>2. Covered'
    BY <1>3, RetryAssumption DEF IInv, TypeOK, Noted, EmptyReport, Covered, Succeed
  <2> QED
    BY <1>3, <2>1, <2>2 DEF IInv, Noted, EmptyReport, Succeed
<1>4. ASSUME NEW jitter \in Jitter, Fail(jitter)
      PROVE  IInv'
  BY <1>4, FailIInv
<1>5. CASE Wake
  <2>1. hold' = 0
    BY <1>5 DEF IInv, TypeOK, Covered, Wake, Higher
  <2>2. TypeOK'
    <3>1. aborted' \in BOOLEAN /\ kinds' \subseteq Kind
      BY <1>5 DEF Wake
    <3>2. /\ retryAfter' \in 0..MaxRetryAfter
          /\ delay' \in 0..Higher(Interval, Higher(MaxBackoff, MaxRetryAfter))
      BY <1>5, RetryAssumption DEF Wake, Higher
    <3> QED
      BY <1>5, <2>1, <3>1, <3>2 DEF IInv, TypeOK, Wake
  <2> QED
    BY <1>5, <2>1, <2>2 DEF IInv, Noted, EmptyReport, Covered, Wake
<1>6. CASE Shutdown
  BY <1>6 DEF IInv, TypeOK, Noted, EmptyReport, Covered, Shutdown
<1>7. CASE UNCHANGED vars
  BY <1>7 DEF IInv, TypeOK, Noted, EmptyReport, Covered, vars
<1> QED
  BY <1>1, <1>2, <1>3, <1>4, <1>5, <1>6, <1>7 DEF Next

\* The loop's state always satisfies the inductive invariant.
THEOREM Invariance == Spec => []IInv
<1>1. Init => IInv
  BY InitIInv
<1>2. IInv /\ [Next]_vars => IInv'
  BY NextIInv
<1> QED
  BY <1>1, <1>2, PTL DEF Spec

\* Every variable keeps its type: the failure counter saturates, and every sleep
\* stays within the largest of the interval, the backoff cap and the Retry-After cap.
THEOREM TypeCorrect == Spec => []TypeOK
<1>1. IInv => TypeOK
  BY DEF IInv
<1> QED
  BY <1>1, Invariance, PTL

\* No cycle starts before the longest Retry-After of the previous one is over.
THEOREM RetryAfterAlwaysHonoured == Spec => []RetryAfterHonoured
<1>1. IInv => RetryAfterHonoured
  BY RetryAssumption DEF IInv, TypeOK, Noted, EmptyReport, Covered, RetryAfterHonoured
<1> QED
  BY <1>1, Invariance, PTL

\* There is a sleep of at least a second between any two cycles.
THEOREM AlwaysSleeps == Spec => []NeverSpins
<1>1. IInv => NeverSpins
  BY DEF IInv, Covered, NeverSpins
<1> QED
  BY <1>1, Invariance, PTL

-----------------------------------------------------------------------------
(* The backoff follows the outage *)

\* The exponent in calculate_backoff.
Exponent(n) == Lower(Higher(n - 1, 0), MaxShift)

\* The counter of the code and the failed cycles since the last success differ
\* only where both are beyond the largest exponent.
Together == count = streak \/ (count > MaxShift /\ streak > MaxShift)

\* The report calls for a backoff.
BacksOff ==
  retryAfter = 0 /\ "auth" \notin kinds /\ kinds \cap {"rate", "transient"} # {}

\* The sleep after such a report is the backoff of the counter.
Backed ==
  pc = "sleep" /\ BacksOff => \E jitter \in Jitter : delay = Backoff(count, jitter)

\* Dividing by a positive number preserves the order.
LEMMA DivMonotone ==
  ASSUME NEW a \in Nat, NEW b \in Nat, a <= b
  PROVE  a \div 100 <= b \div 100
OBVIOUS

\* At least half of a delay is left by the jitter, and no more than all of it.
LEMMA JitterHalves ==
  ASSUME NEW c \in Nat, NEW jitter \in Jitter
  PROVE  /\ (c * jitter) \div 100 \in Nat
         /\ c \div 2 <= (c * jitter) \div 100
         /\ (c * jitter) \div 100 <= c
<1>1. PICK d \in 0..50 : jitter = 50 + d
  BY DEF Jitter
<1>2. c * jitter = c * 50 + c * d /\ c * d \in Nat /\ c * 50 \in Nat
  BY <1>1
<1>3. PICK e \in 0..50 : jitter + e = 100
  BY <1>1
<1>4. c * 100 = c * jitter + c * e /\ c * e \in Nat
  BY <1>3, <1>1
<1> DEFINE x == c * jitter
<1>5. x \in Nat /\ c * 50 <= x /\ x <= c * 100
  BY <1>2, <1>4
<1> HIDE DEF x
<1>6. (c * 50) \div 100 = c \div 2 /\ (c * 100) \div 100 = c
  OBVIOUS
<1>7. (c * 50) \div 100 <= x \div 100 /\ x \div 100 <= (c * 100) \div 100 /\ x \div 100 \in Nat
  BY <1>5
<1> QED
  BY <1>6, <1>7 DEF x

\* The counter and the outage grow together, and start together after a success.
LEMMA TogetherNext == IInv /\ Together /\ [Next]_vars => Together'
<1> SUFFICES ASSUME IInv, Together, [Next]_vars PROVE Together'
  OBVIOUS
<1>1. ASSUME NEW jitter \in Jitter, Fail(jitter) PROVE Together'
  <2>1. count \in Nat /\ streak \in Nat /\ MaxShift \in Nat /\ MaxCount \in Nat /\ MaxStreak \in Nat
    BY RetryAssumption DEF IInv, TypeOK
  <2> QED
    BY <1>1, <2>1, RetryAssumption DEF IInv, TypeOK, Together, Fail, CountFailure, Lower
<1>2. CASE Succeed
  BY <1>2 DEF Together, Succeed
<1>3. CASE UNCHANGED <<count, streak>>
  BY <1>3 DEF Together
<1> QED
  BY <1>1, <1>2, <1>3 DEF Next, RequestFails, Elapse, Wake, Shutdown, vars

\* A sleep that follows failures has the length retry_delay gave it.
LEMMA BackedNext == IInv /\ Backed /\ [Next]_vars => Backed'
<1> SUFFICES ASSUME IInv, Backed, [Next]_vars, pc' = "sleep", BacksOff'
             PROVE  \E jitter \in Jitter : delay' = Backoff(count', jitter)
  BY DEF Backed, Backoff, Capped
<1>1. ASSUME NEW jitter \in Jitter, Fail(jitter)
      PROVE  delay' = Backoff(count', jitter)
  <2>1. BacksOff /\ retryAfter = 0
    BY <1>1 DEF Fail, BacksOff
  <2>2. count' \in Nat
    BY <1>1, RetryAssumption DEF IInv, TypeOK, Fail, CountFailure, Lower
  <2>3. Backoff(count', jitter) \in 1..MaxBackoff
    BY <2>2, BackoffBounded
  <2>4. Policy(count', jitter) = Backoff(count', jitter)
    BY <2>1 DEF Policy, BacksOff
  <2>5. delay' = Higher(Backoff(count', jitter), 0)
    BY <1>1, <2>1, <2>4 DEF Fail, RetryDelay
  <2> QED
    BY <2>3, <2>5, RetryAssumption DEF Higher
<1>2. CASE Succeed
  BY <1>2 DEF Succeed, BacksOff
<1>3. CASE UNCHANGED vars
  <2>1. PICK jitter \in Jitter : delay = Backoff(count, jitter)
    BY <1>3 DEF Backed, BacksOff, vars
  <2> QED
    BY <1>3, <2>1 DEF vars
<1> QED
  BY <1>1, <1>2, <1>3 DEF Next, RequestFails, Elapse, Wake, Shutdown

\* What the two facts say about the length of the sleep.
LEMMA OutageFollowed == IInv /\ Together /\ Backed => BackoffFollowsOutage
<1> SUFFICES ASSUME IInv, Together, Backed, pc = "sleep", BacksOff
             PROVE  /\ Capped(streak) = MaxBackoff => delay >= MaxBackoff \div 2
                    /\ streak = 1 => delay <= Higher(InitialBackoff, 1)
  BY DEF BackoffFollowsOutage, BacksOff
<1>1. PICK jitter \in Jitter : delay = Backoff(count, jitter)
  BY DEF Backed
<1>2. count \in Nat /\ streak \in Nat /\ MaxShift \in Nat
  BY RetryAssumption DEF IInv, TypeOK
<1>3. Exponent(count) = Exponent(streak) /\ Exponent(count) \in Nat
  BY <1>2 DEF Together, Exponent, Lower, Higher
<1>4. Capped(count) = Capped(streak)
  BY <1>3 DEF Capped, Exponent
<1>5. ASSUME Capped(streak) = MaxBackoff PROVE delay >= MaxBackoff \div 2
  <2> DEFINE part == (MaxBackoff * jitter) \div 100
  <2>1. part \in Nat /\ MaxBackoff \div 2 <= part /\ part <= MaxBackoff
    BY JitterHalves, RetryAssumption
  <2>2. delay = Lower(Higher(part, 1), MaxBackoff)
    BY <1>1, <1>4, <1>5 DEF Backoff
  <2> HIDE DEF part
  <2> QED
    BY <2>1, <2>2, RetryAssumption DEF Lower, Higher
<1>6. ASSUME streak = 1 PROVE delay <= Higher(InitialBackoff, 1)
  <2>1. Exponent(streak) = 0
    BY <1>2, <1>6 DEF Exponent, Lower, Higher
  <2>2. 2 ^ Exponent(streak) = 1
    BY <2>1
  <2>3. Capped(count) = Lower(InitialBackoff, MaxBackoff)
    BY <1>4, <2>2, RetryAssumption DEF Capped, Exponent
  <2> DEFINE c == Lower(InitialBackoff, MaxBackoff)
             part == (c * jitter) \div 100
  <2>4. c \in Nat /\ c <= InitialBackoff
    BY RetryAssumption DEF Lower
  <2>5. delay = Lower(Higher(part, 1), MaxBackoff)
    BY <1>1, <2>3 DEF Backoff
  <2> HIDE DEF c
  <2>6. part \in Nat /\ part <= c
    BY <2>4, JitterHalves
  <2> HIDE DEF part
  <2> QED
    BY <2>4, <2>5, <2>6, RetryAssumption DEF Lower, Higher
<1> QED
  BY <1>5, <1>6

\* Retries of an outage spread out to half of the cap at least and stay there,
\* however long it lasts, and start anew after a success: calculate_backoff, for
\* every backoff, cap and jitter, and the saturating counter of run_loop.
THEOREM BackoffAlwaysFollows == Spec => []BackoffFollowsOutage
<1>1. Init => Together /\ Backed
  BY DEF Init, Together, Backed
<1>2. IInv /\ Together /\ Backed /\ [Next]_vars => (Together /\ Backed)'
  BY TogetherNext, BackedNext
<1>3. IInv /\ Together /\ Backed => BackoffFollowsOutage
  BY OutageFollowed
<1> QED
  BY <1>1, <1>2, <1>3, Invariance, PTL DEF Spec
=============================================================================
